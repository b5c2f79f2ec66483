--------------------------- MODULE StreamSession ---------------------------
(***************************************************************************)
(* One session of receiver/session.py: the coroutine run_socket, which is  *)
(* _run and the closing of the connection, and the four tasks of _run on   *)
(* the asyncio event loop, from the HELLO to the end.                      *)
(*                                                                         *)
(* The loop is cooperative.  The task in current runs until it awaits      *)
(* something that is not there yet; then the head of the FIFO ready queue  *)
(* runs.  A task that is neither current nor ready is suspended on the one *)
(* thing it waits for.  Only the socket (Receive, Flush, Reset), the timer *)
(* of the control task and the GUI thread (Update) act from outside.       *)
(*                                                                         *)
(* The socket buffer holds whole packets: a partly received packet is one  *)
(* that has not arrived.  Video packets are numbered as they are ingested. *)
(***************************************************************************)
EXTENDS Integers, Sequences, FiniteSets

CONSTANTS MaxSize,        \* encoded_queue_size (8)
          MaxArrivals,    \* bound on the packets of one session
          BufferSize,     \* packets the StreamReader and socket can hold
          StampLimit,     \* receive_times is trimmed beyond this (2048)
          StampTrim,      \* ... by this many entries (1024)
          MaxVersion      \* bound on the settings changes of the GUI

ASSUME SessionAssumption ==
    /\ MaxSize \in Nat \ {0}
    /\ MaxArrivals \in Nat
    /\ BufferSize \in Nat \ {0}
    /\ StampLimit \in Nat /\ StampTrim \in Nat \ {0} /\ MaxVersion \in Nat
    /\ StampTrim + MaxSize <= StampLimit

VARIABLES
    inbuf,       \* packets received and not read, with the end of stream
    sent,        \* number of packets received, for MaxArrivals
    lost,        \* the connection was reset
    current,     \* the task that runs, or "none"
    ready,       \* the FIFO queue of scheduled callbacks
    pc,          \* per task: where it is
    result,      \* per worker: how it finished
    arrived, queue, recovering, dropped, last, got,   \* KeyframeQueue
    codec,       \* last packet the codec decoded, 0 when _decoder is None
    synced,      \* _synced of ResilientH264Decoder
    stamped,     \* the keys of receive_times
    mailbox,     \* the frame in LatestFrameMailbox, 0 when empty
    shown,       \* the frame shown last, 0 before the first
    preview, sink,           \* "none", "open" or "closed"
    version,     \* ControlChannel: version of the settings
    written,     \* last_version of the control loop, -1 before the first
    line,        \* version of the last line given to the transport
    unsent,      \* the transport holds bytes the connection has not taken
    verdict,     \* what asyncio.wait made of the tasks that finished first
    outcome      \* how _run returned or raised, "none" while it runs

netVars == <<inbuf, sent, lost>>
loopVars == <<current, ready, pc, result>>
queueVars == <<arrived, queue, recovering, dropped, last, got>>
decoderVars == <<codec, synced, stamped>>
displayVars == <<mailbox, shown>>
outputVars == <<preview, sink>>
controlVars == <<version, written, line, unsent>>
endVars == <<verdict, outcome>>
vars == <<netVars, loopVars, queueVars, decoderVars, displayVars, outputVars,
          controlVars, endVars>>

Q == INSTANCE KeyframeQueue

Workers == {"ingest", "decode", "present", "control"}
Tasks == Workers \cup {"main"}
Handles == Tasks \cup {"notify"}    \* a task's step or a completion callback

Kinds == {"key", "delta"}
(* What arrives: a video packet; a HELLO, which after the first stands for *)
(* all that ingest ignores; a ProtocolError; the end of the stream.        *)
Items == Kinds \cup {"hello", "bad", "eof"}

(* "stream" is StreamSessionError, "os" a ConnectionError or OSError, and  *)
(* "raise" every exception that is neither.                                *)
Failures == {"stream", "os", "raise"}
Results == Failures \cup {"none", "ok", "cancelled"}

Init ==
    /\ inbuf = <<>> /\ sent = 0 /\ lost = FALSE
    /\ current = "none" /\ ready = <<"main">>
    /\ pc = [t \in Tasks |-> IF t = "main" THEN "hello" ELSE "none"]
    /\ result = [t \in Workers |-> "none"]
    /\ Q!Init
    /\ codec = 0 /\ synced = FALSE /\ stamped = {}
    /\ mailbox = 0 /\ shown = 0
    /\ preview = "none" /\ sink = "none"
    /\ version = 0 /\ written = -1 /\ line = -1 /\ unsent = FALSE
    /\ verdict = "none" /\ outcome = "none"

-----------------------------------------------------------------------------
(* The event loop.                                                         *)

Scheduled(t) == current = t \/ \E i \in 1 .. Len(ready) : ready[i] = t
Active(t) == pc[t] \notin {"none", "done"}
Suspended(t) == Active(t) /\ ~Scheduled(t)
AllDone == \A t \in Workers : ~Active(t)

(* Waking a suspended task schedules it; a second wake-up is void.         *)
Wake(t) == IF Suspended(t) THEN <<t>> ELSE <<>>

(* The running task goes on, awaits what is not there, or finishes, which  *)
(* schedules its done callback.                                            *)
Continue == UNCHANGED loopVars
Suspend == current' = "none" /\ UNCHANGED <<ready, pc, result>>
Finish(t, how) == /\ pc' = [pc EXCEPT ![t] = "done"]
                  /\ result' = [result EXCEPT ![t] = how]
                  /\ current' = "none"
                  /\ ready' = Append(ready, "notify")

Dispatch == /\ current = "none"
            /\ ready # <<>>
            /\ current' = Head(ready)
            /\ ready' = Tail(ready)

(* Mutant: asyncio.wait returns when all tasks are done.                   *)
WaitForAll == AllDone
(* return_when=FIRST_COMPLETED.                                            *)
WaitOver == \E t \in Workers : pc[t] = "done"

(* The done callback of asyncio.wait wakes _run at the first completion,   *)
(* that of asyncio.gather at the last.                                     *)
Notify == /\ current = "notify"
          /\ current' = "none"
          /\ ready' = ready \o
                 IF \/ pc["main"] = "wait" /\ WaitOver
                    \/ pc["main"] = "gather" /\ AllDone
                 THEN Wake("main") ELSE <<>>

(* 50 ms after its last round the control task is scheduled again.         *)
ControlTimer == /\ current = "none"
                /\ Suspended("control") /\ pc["control"] = "run"
                /\ ready' = Append(ready, "control")
                /\ UNCHANGED current

Scheduling ==
    /\ Dispatch \/ Notify
    /\ UNCHANGED <<netVars, pc, result, queueVars, decoderVars, displayVars,
                   outputVars, controlVars, endVars>>
Timer ==
    /\ ControlTimer
    /\ UNCHANGED <<netVars, pc, result, queueVars, decoderVars, displayVars,
                   outputVars, controlVars, endVars>>

-----------------------------------------------------------------------------
(* The outside: the socket, polled between two callbacks, and the GUI.     *)

Ended == inbuf # <<>> /\ inbuf[Len(inbuf)] = "eof"

(* The task that waits for a packet, and the one that waits for the bytes  *)
(* it has written to go: in drain, or in wait_closed.                      *)
Reader == IF pc["main"] = "hello" THEN "main" ELSE "ingest"
WakeWriter == IF pc["main"] = "closing" THEN Wake("main")
              ELSE IF pc["control"] = "drain" THEN Wake("control") ELSE <<>>

(* A transport that is closing reads no more.                              *)
Receive(item) ==
    /\ ~Ended /\ pc["main"] # "closing"
    /\ item = "eof" \/ (Len(inbuf) < BufferSize /\ sent < MaxArrivals)
    /\ sent' = IF item = "eof" THEN sent ELSE sent + 1
    /\ inbuf' = Append(inbuf, item)
    /\ ready' = ready \o Wake(Reader)
    /\ UNCHANGED <<lost, unsent>>

(* The phone reads, and the transport sends what it holds.                 *)
Flush == /\ unsent
         /\ unsent' = FALSE
         /\ ready' = ready \o WakeWriter
         /\ UNCHANGED netVars

(* The connection breaks: the reader raises at once, unread data or not.   *)
Reset == /\ lost' = TRUE
         /\ unsent' = FALSE
         /\ ready' = (ready \o Wake(Reader)) \o WakeWriter
         /\ UNCHANGED <<inbuf, sent>>

Poll ==
    /\ current = "none"
    /\ ~lost
    /\ Flush \/ Reset \/ \E item \in Items : Receive(item)
    /\ UNCHANGED <<current, pc, result, queueVars, decoderVars, displayVars,
                   outputVars, version, written, line, endVars>>

(* ControlChannel.update, by the GUI thread at any time.                   *)
Update ==
    /\ version < MaxVersion
    /\ version' = version + 1
    /\ UNCHANGED <<netVars, loopVars, queueVars, decoderVars, displayVars,
                   outputVars, written, line, unsent, endVars>>

-----------------------------------------------------------------------------
(* _ingest_loop reads on without a pause while the buffer has packets.     *)

Smallest(S, n) == {x \in S : Cardinality({y \in S : y < x}) < n}
(* Mutant: nothing is trimmed.                                             *)
StampKeepsAll(p) == stamped \cup {p}
(* Mutant: the newest entries are trimmed.                                 *)
StampTrimsNewest(p) ==
    LET S == stamped \cup {p}
    IN  IF Cardinality(S) > StampLimit THEN Smallest(S, StampTrim) ELSE S
(* receive_times: the new packet is stamped, then the dictionary trimmed.  *)
Stamp(p) ==
    LET S == stamped \cup {p}
    IN  IF Cardinality(S) > StampLimit THEN S \ Smallest(S, StampTrim) ELSE S

Unread == ~lost /\ inbuf # <<>>

(* The queue wakes the decode task when it takes the packet.               *)
IngestVideo == /\ Unread /\ Head(inbuf) \in Kinds
               /\ inbuf' = Tail(inbuf)
               /\ stamped' = Stamp(Len(arrived) + 1)
               /\ Q!Put(Head(inbuf))
               /\ ready' = ready \o IF queue' = <<>> THEN <<>> ELSE Wake("decode")
               /\ UNCHANGED <<current, pc, result>>

IngestOther == /\ Unread /\ Head(inbuf) = "hello"
               /\ inbuf' = Tail(inbuf)
               /\ Continue
               /\ UNCHANGED <<queueVars, stamped>>

IngestWaits == /\ ~lost /\ inbuf = <<>>
               /\ Suspend
               /\ UNCHANGED <<inbuf, queueVars, stamped>>

IngestEnds == /\ \/ lost /\ Finish("ingest", "os")
                 \/ Unread /\ Head(inbuf) = "eof" /\ Finish("ingest", "ok")
                 \/ Unread /\ Head(inbuf) = "bad" /\ Finish("ingest", "stream")
              /\ UNCHANGED <<inbuf, queueVars, stamped>>

Ingest == /\ IngestVideo \/ IngestOther \/ IngestWaits \/ IngestEnds
          /\ UNCHANGED <<sent, lost, codec, synced, displayVars, outputVars,
                         controlVars, endVars>>

-----------------------------------------------------------------------------
(* _decode_loop and ResilientH264Decoder.decode.  The codec is external: it*)
(* may raise on any access unit, and may keep a frame back.                *)

TakesPacket == Q!Get /\ stamped' = stamped \ {last'}
Fed(p) == synced \/ Q!IsKey(p)

(* Not synced: a delta is skipped.                                         *)
DecodeSkips == /\ TakesPacket /\ ~Fed(last')
               /\ Continue
               /\ UNCHANGED <<codec, synced, mailbox>>

(* No codec to be had: DecoderUnavailableError ends the task.              *)
DecoderUnavailable == /\ TakesPacket /\ ~synced /\ Fed(last')
                      /\ Finish("decode", "raise")
                      /\ UNCHANGED <<codec, synced, mailbox>>

(* Mutant: a decode error leaves the decoder synced.                       *)
DecodeFailsStillSynced == /\ TakesPacket /\ Fed(last')
                          /\ codec' = 0
                          /\ Continue
                          /\ UNCHANGED <<synced, mailbox>>

(* A decode error drops the codec: the next one starts at a keyframe.      *)
DecodeFails == /\ TakesPacket /\ Fed(last')
               /\ codec' = 0
               /\ synced' = FALSE
               /\ Continue
               /\ UNCHANGED mailbox

(* A frame that comes out replaces the one the preview has not taken.      *)
Decodes == /\ TakesPacket /\ Fed(last')
           /\ codec' = last'
           /\ synced' = (synced \/ Q!IsKey(last'))
           /\ \/ Continue /\ UNCHANGED mailbox
              \/ /\ mailbox' = last'
                 /\ ready' = ready \o Wake("present")
                 /\ UNCHANGED <<current, pc, result>>

DecodeWaits == /\ queue = <<>>
               /\ Suspend
               /\ UNCHANGED <<queueVars, decoderVars, mailbox>>

Decode == /\ \/ DecodeSkips \/ DecoderUnavailable \/ DecodeFails
             \/ Decodes \/ DecodeWaits
          /\ UNCHANGED <<netVars, shown, outputVars, controlVars, endVars>>

-----------------------------------------------------------------------------
(* Mutant: the frame is shown and left in the mailbox.                     *)
ShowKeepsFrame == /\ mailbox # 0
                  /\ shown' = mailbox
                  /\ Continue
                  /\ UNCHANGED mailbox
(* _preview_loop; show may return FALSE (the user closes the preview) or   *)
(* raise, and both end the task.                                           *)
Show == /\ mailbox # 0
        /\ shown' = mailbox
        /\ mailbox' = 0
        /\ Continue \/ \E how \in {"ok", "raise"} : Finish("present", how)

PresentWaits == mailbox = 0 /\ Suspend /\ UNCHANGED displayVars

Present == /\ Show \/ PresentWaits
           /\ UNCHANGED <<netVars, queueVars, decoderVars, outputVars,
                          controlVars, endVars>>

(* _control_loop.  Nothing is new: the task sleeps again.                  *)
ControlRests == /\ pc["control"] = "run" /\ version = written
                /\ Suspend
                /\ UNCHANGED <<written, line, unsent>>

(* The complete settings are written, and drain returns at once ...        *)
ControlWrites == /\ pc["control"] = "run" /\ version # written /\ ~lost
                 /\ line' = version
                 /\ written' = version
                 /\ unsent' \in {unsent, TRUE}
                 /\ Suspend

(* ... or waits, last_version as it was, for the transport to send.        *)
ControlDrains == /\ pc["control"] = "run" /\ version # written /\ ~lost
                 /\ line' = version
                 /\ unsent' = TRUE
                 /\ pc' = [pc EXCEPT !["control"] = "drain"]
                 /\ current' = "none"
                 /\ UNCHANGED <<written, ready, result>>

(* Mutant: last_version is the version by now, not the one that was sent.  *)
DrainRereads == /\ pc["control"] = "drain" /\ ~lost
                /\ written' = version
                /\ pc' = [pc EXCEPT !["control"] = "run"]
                /\ current' = "none"
                /\ UNCHANGED <<line, unsent, ready, result>>

(* What was snapshotted before the await is last_version, whatever the GUI *)
(* has changed in it.                                                      *)
DrainReturns == /\ pc["control"] = "drain" /\ ~lost
                /\ written' = line
                /\ pc' = [pc EXCEPT !["control"] = "run"]
                /\ current' = "none"
                /\ UNCHANGED <<line, unsent, ready, result>>

(* drain raises once the connection is lost.                               *)
ControlFails == /\ pc["control"] = "drain" \/ version # written
                /\ lost
                /\ Finish("control", "os")
                /\ UNCHANGED <<written, line, unsent>>

Control == /\ \/ ControlRests \/ ControlWrites \/ ControlDrains
              \/ DrainReturns \/ ControlFails
           /\ UNCHANGED <<netVars, queueVars, decoderVars, displayVars,
                          outputVars, version, endVars>>

Cancelled == pc["main"] = "gather"

(* A cancelled worker ends at the await it was suspended on.               *)
EndCancelled(t) ==
    /\ Finish(t, "cancelled")
    /\ UNCHANGED <<netVars, queueVars, decoderVars, displayVars, outputVars,
                   controlVars, endVars>>

Worker ==
    \E t \in Workers :
        /\ current = t
        /\ IF Cancelled THEN EndCancelled(t)
           ELSE \/ t = "ingest" /\ Ingest
                \/ t = "decode" /\ Decode
                \/ t = "present" /\ Present
                \/ t = "control" /\ Control

-----------------------------------------------------------------------------
(* _run and run_socket.                                                    *)

(* _run is over; run_socket closes the connection and awaits wait_closed,  *)
(* which waits until what is unsent has gone.                              *)
Return(how) == /\ outcome' = how
               /\ pc' = [pc EXCEPT !["main"] = "closing"]
               /\ current' = "none"
               /\ ready' = IF unsent THEN ready ELSE Append(ready, "main")
               /\ UNCHANGED verdict

(* The connection is closed, or lost, which run_socket ignores.            *)
Closed == /\ pc["main"] = "closing"
          /\ pc' = [pc EXCEPT !["main"] = "done"]
          /\ current' = "none"
          /\ UNCHANGED <<ready, result, inbuf, outputVars, endVars>>

AwaitHello == /\ pc["main"] = "hello"
              /\ inbuf = <<>> /\ ~lost
              /\ Suspend
              /\ UNCHANGED <<inbuf, outputVars, endVars>>

(* Anything but a valid HELLO ends the session before it has begun, one    *)
(* whose JSON is no object with a TypeError.                               *)
RefuseHello == /\ pc["main"] = "hello"
               /\ \/ lost /\ Return("os")
                  \/ Unread /\ (Return("stream") \/ Return("raise"))
               /\ UNCHANGED <<inbuf, result, outputVars>>

(* The sink and then the preview are created, then the tasks.              *)
Setup == /\ pc["main"] = "hello"
         /\ Unread /\ Head(inbuf) = "hello"
         /\ inbuf' = Tail(inbuf)
         /\ sink' \in {"none", "open"}
         /\ preview' = "open"
         /\ pc' = [t \in Tasks |-> IF t = "main" THEN "wait" ELSE "run"]
         /\ ready' = ready \o <<"ingest", "decode", "present", "control">>
         /\ current' = "none"
         /\ UNCHANGED <<result, endVars>>

(* Creating the sink or the preview raises, before the try: a sink that is *)
(* open by then stays open.                                                *)
SetupFails == /\ pc["main"] = "hello"
              /\ Unread /\ Head(inbuf) = "hello"
              /\ inbuf' = Tail(inbuf)
              /\ sink' \in {"none", "open"}
              /\ Return("raise")
              /\ UNCHANGED <<result, preview>>

FailedWorkers == {t \in Workers : result[t] \in Failures}
SuspendedWorkers == Wake("ingest") \o Wake("decode") \o Wake("present")
                                   \o Wake("control")

(* Mutant: the tasks that are not done are left alone.                     *)
WaitReturnsNoCancel == /\ pc["main"] = "wait"
                       /\ verdict' = "ok"
                       /\ pc' = [pc EXCEPT !["main"] = "gather"]
                       /\ current' = "none"
                       /\ ready' = Append(ready, "notify")
                       /\ UNCHANGED <<inbuf, result, outputVars, outcome>>

(* Mutant: the other tasks are cancelled and not awaited.                  *)
WaitReturnsNoGather == /\ pc["main"] = "wait"
                       /\ verdict' = "ok"
                       /\ pc' = [pc EXCEPT !["main"] = "gather"]
                       /\ current' = "none"
                       /\ ready' = Append(ready, "main") \o SuspendedWorkers
                       /\ UNCHANGED <<inbuf, result, outputVars, outcome>>

(* The results of the tasks that are done are taken, in any order; all     *)
(* others, suspended or scheduled, are cancelled and gathered.             *)
WaitReturns == /\ pc["main"] = "wait"
               /\ verdict' \in IF FailedWorkers = {} THEN {"ok"}
                               ELSE {result[t] : t \in FailedWorkers}
               /\ pc' = [pc EXCEPT !["main"] = "gather"]
               /\ current' = "none"
               /\ ready' = ready \o SuspendedWorkers
                                 \o (IF AllDone THEN <<"notify">> ELSE <<>>)
               /\ UNCHANGED <<inbuf, result, outputVars, outcome>>

(* preview.close, then virtual_sink.close.                                 *)
TearDown == /\ pc["main"] = "gather"
            /\ preview' = "closed"
            /\ sink' = IF sink = "open" THEN "closed" ELSE sink
            /\ Return(verdict)
            /\ UNCHANGED <<inbuf, result>>

(* preview.close raises: its exception replaces the verdict, and the sink  *)
(* is not closed.                                                          *)
PreviewCloseFails == /\ pc["main"] = "gather"
                     /\ Return("raise")
                     /\ UNCHANGED <<inbuf, result, outputVars>>

(* virtual_sink.close raises behind a preview that is closed: the camera   *)
(* may be left open.                                                       *)
SinkCloseFails == /\ pc["main"] = "gather"
                  /\ sink = "open"
                  /\ preview' = "closed"
                  /\ sink' \in {"open", "closed"}
                  /\ Return("raise")
                  /\ UNCHANGED <<inbuf, result>>

Main == /\ current = "main"
        /\ \/ AwaitHello \/ RefuseHello \/ Setup \/ SetupFails
           \/ WaitReturns \/ TearDown \/ PreviewCloseFails \/ SinkCloseFails
           \/ Closed
        /\ UNCHANGED <<sent, lost, queueVars, decoderVars, displayVars,
                       controlVars>>

-----------------------------------------------------------------------------
Over == pc["main"] = "done"

LoopStep == ~Over /\ (Scheduling \/ Main \/ Worker)
Next == LoopStep \/ (~Over /\ (Timer \/ Poll \/ Update))

(* asyncio runs what is ready, and its timers fire; nothing makes the phone*)
(* send or read, the user act or the connection break.                     *)
Spec == Init /\ [][Next]_vars /\ WF_vars(LoopStep) /\ WF_vars(~Over /\ Timer)

-----------------------------------------------------------------------------
(* Every variable has its type; the socket buffer, receive_times and the   *)
(* settings stay in their bounds, and a task is scheduled at most once.    *)
TypeOK ==
    /\ inbuf \in Seq(Items) /\ Len(inbuf) <= BufferSize + 1
    /\ sent \in 0 .. MaxArrivals /\ lost \in BOOLEAN
    /\ current \in Handles \cup {"none"}
    /\ ready \in Seq(Handles)
    /\ \A i, j \in 1 .. Len(ready) :
          ready[i] = ready[j] /\ ready[i] # "notify" => i = j
    /\ \A i \in 1 .. Len(ready) : ready[i] = "notify" \/ ready[i] # current
    /\ pc["main"] \in {"hello", "wait", "gather", "closing", "done"}
    /\ pc["control"] \in {"none", "run", "drain", "done"}
    /\ \A t \in Workers \ {"control"} : pc[t] \in {"none", "run", "done"}
    /\ result \in [Workers -> Results]
    /\ Q!TypeOK
    /\ stamped \subseteq 1 .. Len(arrived) /\ Cardinality(stamped) <= StampLimit
    /\ codec \in 0 .. Len(arrived) /\ synced \in BOOLEAN
    /\ mailbox \in 0 .. Len(arrived) /\ shown \in 0 .. Len(arrived)
    /\ preview \in {"none", "open", "closed"}
    /\ sink \in {"none", "open", "closed"}
    /\ version \in 0 .. MaxVersion /\ unsent \in BOOLEAN
    /\ written \in -1 .. MaxVersion /\ line \in -1 .. MaxVersion
    /\ verdict \in Results /\ outcome \in Results

(* The session never stalls: when the loop has nothing to run, what _run or*)
(* a worker waits for is not there.  A session that streams has read,      *)
(* decoded and shown all there is and no task of it is over; none is stuck *)
(* in the cancellation; and only bytes the phone has not read hold up a    *)
(* drain or the closing of the connection.                                 *)
Idle == current = "none" /\ ready = <<>>
NeverStalls ==
    Idle =>
        /\ pc["main"] # "gather"
        /\ pc["main"] = "hello" => inbuf = <<>> /\ ~lost
        /\ pc["main"] = "wait" =>
              ~WaitOver /\ ~lost /\ inbuf = <<>> /\ queue = <<>> /\ mailbox = 0
        /\ pc["control"] = "drain" \/ pc["main"] = "closing" => unsent

(* The decoder holds a codec exactly while it is synced, and never falls   *)
(* behind a hole: the next packet it is fed is a keyframe or the successor *)
(* of the one it decoded last ("subsequent delta frames are safe to feed").*)
NeverPoisoned ==
    [][ last' # last /\ ~Q!IsKey(last') /\ synced
            => codec # 0 /\ last' = codec + 1 ]_vars

(* The preview never goes back: the frame that waits for it is newer than  *)
(* the one it shows, whatever was lost, skipped or replaced in between, so *)
(* that no frame is shown twice or after a later one.                      *)
ShownInOrder == mailbox # 0 => shown < mailbox /\ mailbox <= last

(* Trimming receive_times never takes the entry of a packet the decoder    *)
(* will still get: its latency would be measured from the wrong instant.   *)
StampsCoverQueue == \A i \in 1 .. Len(queue) : queue[i] \in stamped

(* When _run is over no task of the session is left behind, and the preview*)
(* and the virtual camera are closed, unless it raised: any end but that of*)
(* an exception the receiver does not retry after leaves the camera free   *)
(* for the next session.  The preview lasts as long as the tasks, which    *)
(* draw into it, and the camera is only ever open behind a closed preview  *)
(* when closing it raised.                                                 *)
NothingLeftBehind ==
    /\ outcome # "none" => AllDone
    /\ outcome \notin {"none", "raise"} => preview # "open" /\ sink # "open"
    /\ preview = "closed" => AllDone /\ (sink = "open" => outcome = "raise")
    /\ pc["main"] \in {"wait", "gather"} => preview = "open"

(* The end of the stream, a broken connection, or the end of any task ends *)
(* the session, as long as the phone does not stop reading for good.       *)
SessionEnds ==
    []<>~unsent =>
        ((Ended \/ lost \/ \E t \in Workers : pc[t] = "done") ~> Over)

(* The settings of the GUI reach the connection: while the session lasts,  *)
(* every change is written or overtaken by a later one, and so is one that *)
(* falls into the wait of drain, as long as the phone goes on reading.     *)
SettingsWritten ==
    []<>~unsent =>
        \A v \in 0 .. MaxVersion :
            (version >= v /\ pc["main"] = "wait") ~> (line >= v \/ Over)
=============================================================================
