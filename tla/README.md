# A TLA+ verification of the iPhone camera

The program streams the camera of an iPhone over a USB cable to a Windows PC.
The phone (Swift, `src/ios/IPhoneCam`) encodes H.264 and serves one TCP client on
port 2345; the PC (Python, `src/receiver`) searches for the phone through usbmux,
connects, decodes, shows a preview, feeds a virtual camera, and sends camera
settings back. This directory models its control: TLA+ modules translated from
the source, TLC runs on small instances, and proofs that TLAPS checks.

    tlc -workers 2 -config StreamSession.cfg StreamSession.tla     # a run
    tlapm KeyframeQueue_proofs.tla                                 # a module of proofs

`PROJECT.json` lists the components, the runs, for every definition the source
lines it stands for, for every property a plausible bug that breaks it (the
definitions commented *Mutant*), the hazards and the findings.

## 1. Inventory

| Component (source) | State | Operations | What is hard | Correct when |
|---|---|---|---|---|
| Encoded-video queue (`receiver/queueing.py`) | bounded queue, recovering flag, dropped counter | `put`, `get`; a new one for every session | overflow, recovery, overflow again | the decoder's reference chain is never poisoned; the newest packet is kept; loss is counted |
| Statistics window (`receiver/stats.py`) | two deques of time stamps, depth and drops, under a lock, kept over all sessions | `on_video_packet`, `on_presented_frame`, `snapshot` | the clock is read before the lock, by two threads; a new session starts with the numbers of the old one | a snapshot counts the events of the window; the panel sees the backlog |
| Stream session (`receiver/session.py`, `protocol.py`) | four asyncio tasks, stamps, mailbox, preview, virtual camera | HELLO, ingest, decode, present, control loop, teardown, closing the connection | cooperative interleaving, cancellation, any task failing at any await, a change of the settings while `drain` waits | it never stalls, no task is left, it ends, frames in order |
| Decoder guard (`receiver/decoder.py`) | codec, synced flag | `decode` | an exception of the codec on any packet | a codec is never fed behind a hole |
| Preview windows, virtual camera (`receiver/preview.py`) | window, its size and fullscreen flag, camera sink | open, `show` (camera, then window), resize, `close` | the panel changes settings while a frame is shown; failures half-way through set-up and teardown; rounding | the pictures fit, both outputs use one snapshot, nothing is left open |
| Filters (`receiver/filters.py`) | image settings behind a lock | `update`, `reset`, `snapshot`, rotation | two threads | one frame, one set of settings |
| Reconnect loop (`receiver/main.py`, `launcher.py`, `usb.py`, `runtime.py`) | phase, socket, published status | search, connect, session, back-off | the phone changes between any two awaits | no socket leaks, the status is true at every step of an attempt's end, it always searches again |
| Control panel (`receiver/gui.py`) | widgets, the dot of the status | change a setting, poll status and statistics | it runs on a thread of its own | the settings arrive, a dead receiver is shown |
| Phone TCP server (`StreamServer.swift`) | serial queue, listener, connection, send in flight, pending frame, control buffer | `start`, `stop`, `enqueueVideo`, the handlers of the framework | late events of a connection that was replaced | HELLO first, one send in flight, order, no mixed control lines, no forgotten client |
| Phone app (`CameraStreamerModel.swift`) | isRunning, status | `toggle`, `start`, `stop`, server reports | `await` in `start()`, overlapping taps, three queues | a stopped app is dark, the status follows the button |
| Camera capture (`CameraCapture.swift`) | capture session, active input, lens and controls | `start`, `stop`, `apply` | commands before configuration, failures half-way, an input that cannot be put back | one input, and it films what the panel shows |
| Control channel (`control.py`, `gui.py`, control loop, line buffer) | versioned settings | `update`, poll and write, parse a line | two threads, sessions that end between snapshot and write | the newest settings reach the camera |
| H.264 encoder (`H264Encoder.swift`) | compression session, forced-keyframe flag | `start`, `stop`, `encode`, `requestKeyframe` | callback thread, flag consumed by a failed frame | a new client gets a keyframe |
| Packet format (`protocol.py`, `PacketProtocol.swift`) | none | write and read a header and a payload | widths, byte order, what follows on the stream | what was written is read, and reading goes on exactly behind it |
| Annex-B conversion, iOS screens, installers, documents | – | – | – | – |

How they interact: the encoder calls `enqueueVideo`, which appends a job to the
server's serial queue; the server keeps one send in flight and one frame
pending; TCP brings the bytes to the session's ingest task, which puts packets
into the encoded queue and reports them to the statistics; the decode task gets
them and puts frames into a one-slot mailbox; the present task hands them to the
preview, which feeds the virtual camera and draws the window. In the other
direction the panel updates the control channel, the control task of the session
polls it every 50 ms and writes a JSON line, the server assembles lines and calls
`CameraCapture.apply`, which runs on the capture queue. The panel also changes
the image settings, of which the preview takes a snapshot per frame, and polls
the published status and the statistics. The app starts and stops encoder, server
and camera, and shows what the server reports. The reconnect loop runs one
session after the other.

## 2. Modules

| Module | Models | State and actions |
|---|---|---|
| `GopStream` | abstract: what the video path promises the decoder | `arrived`, `last`; `Arrive`, `Deliver`, and `Restart` for a new session |
| `KeyframeQueue` | `KeyframeAwareVideoQueue` | `Put` in its three cases (`PutRecovering`, `PutOverflow`, `PutNormal`), `Get`, and `NewQueue`, which a session makes. A packet is its arrival number; both calls never suspend half-way, so each is one action |
| `StatsWindow` | `StreamStats` | a deque is the log of all stamps ever appended and the number of those popped. Each method is two steps, the clock (`StartCall`, `AskSnapshot`) and the work under the lock (`OnVideoPacket`, `OnPresentedFrame`, `Overlay`, `TakeSnapshot`), so that the other thread can come between |
| `QueueStats` | the queue and what is reported of it (EXTENDS both) | `Ingest` (stamp and put), `Report`, `Decode`, `Present`, the panel, and `NewSession`: a new queue under the old statistics |
| `StreamSession` | `StreamSession.run_socket` and `_run` on the asyncio loop, with the queue (`Q!Put`, `Q!Get`), the decoder guard and the mailbox inside | `current`, `ready` and `pc` are the event loop: one task runs until it awaits something absent, then the head of the FIFO ready queue runs. `Ingest`, `Decode`, `Present`, `Control` are one step each between two awaits; the control loop writes a line (`line`) and, when `drain` has to wait, sets `last_version` (`written`) only after it (`ControlDrains`, `DrainReturns`); `Main` is HELLO, setup, `asyncio.wait`, cancellation, teardown (`TearDown`, or `PreviewCloseFails` and `SinkCloseFails`) and `wait_closed` (`Return`, `Closed`); `Receive`, `Flush`, `Reset`, `Timer` and `Update` act from outside |
| `FrameGeometry` | the size and position of a picture that `preview.py` turns, and fits into the camera's canvas or the window | operators only: `Turned`, `Scale`, `Fitted`, `WindowFitted`, `Corner`. Where the floating-point result may differ from the rational one (a tie, an exact quotient) the operator returns the set of the possible results |
| `Preview` | `PygamePreview`, `OpenCVPreview`, the virtual camera, `FilterState` | `Open`, `OpenFails`, `Prepare` (snapshot of the settings, then the camera), `Show` (the window), `Close`, `CloseFails` (the preview's `close` raises, or the camera's); the user's `Panel` and `CloseWindow` at any time |
| `ReceiverLoop` | `receiver_loop` on its thread, against a phone that comes and goes | `Search`, `ListDevices`, `Connect`, `Hello`; `AttemptEnds` is the except clause, `CloseSocket` the `finally`, `Dies` the end of the thread that the exception leaves; `Wakes`; `Phone` is the outside |
| `ReceiverApp`, `MCReceiverApp` | the Windows application: EXTENDS `ReceiverLoop` and `Preview`, and adds the panel | a session sets up its outputs after HELLO (`Setup`, `SetupFails`), shows frames (`Frame`) and closes them however it ends (`Over`); `Poll` is the panel's timer. `MCReceiverApp` gives the sizes of the run |
| `PacketFormat` | the bytes of a packet, both ends | operators only: `Encode` (the phone), `Accepts`, `ReadPacket`, `Rest` (the PC) |
| `StreamServer` | `StreamServer.swift` | callers and framework append to `jobs`; `RunJob` runs the oldest (`Accept`, `Ready`, `Enqueue`, `Sent`, `ConnJob`, `ListenerJob`, `StopLocked`). `phase`, `unsent`, `receiving`, `wire` are the external framework's side of each connection |
| `PhoneApp` | `CameraStreamerModel` composed with `StreamServer` (INSTANCE `S`) and the starts and stops of `CameraCapture` | `mainJobs` is the main actor, `capture` the camera's queue. `Toggle`, `Start`, `Resume` (after the `await`), `Handle`, `Permission`, `CaptureJob` |
| `VideoPipeline` | `StreamServer` and `PacketFormat` (EXTENDS both), one TCP connection, `KeyframeQueue` (INSTANCE `Q`) and the decoder guard composed | `PipeSpec`: `Phone` (any step of the server), `Ingest` (reads the packet from the bytes the phone wrote), `Decode` |
| `CameraControl` | the settings from the panel to the device, over sessions | `Update`, `Connect`, `Write`, `Read`, `Disconnect`; on the capture queue `StartJob`, `StopJob`, `ApplyJob` with `Configure`, `TakeLens` (`Switch`), `ApplyDevice` and their failures: `RejectLens` may leave the session without an input, which the ghost `stripped` records |
| `*_proofs` | – | the theorems of section 5. `QueueStats_proofs` has those of `StatsWindow` too, `ReceiverApp_proofs` those of `FrameGeometry` and `Preview`, `VideoPipeline_proofs` those of `PacketFormat` |

Abstractions worth knowing. Except in `PacketFormat` and `VideoPipeline`, a packet
carries its kind and its number, no bytes; a partly received packet is one that
has not arrived. Of the bytes the session has written only that some are unsent
is kept (`unsent`): `Flush` sends them all at once, and a write may or may not
exceed the limit at which `drain` waits. The codec (PyAV) is external and may raise on any packet.
`asyncio`, the Network framework, AVFoundation, VideoToolbox, pygame, OpenCV and
usbmux are modelled by what the source relies on and marked `external` in the
map. In `CameraControl` zoom stands for zoom, exposure and focus, which share one
control flow, and the phone's server is represented by the point where a line is
complete; `StreamServer` has the rest. In `StreamServer` every access to
`listener` is one step; the source reads and writes it from two threads, and a
torn read of the reference is not modelled. In `Preview` the rotation stands for
all that `apply_filters` does to a picture, for it alone changes a size, and every
raster has the announced size (`normalize_bgr_dimensions` crops or scales it to
that, or raises, which ends the session). In `ReceiverApp` the end of a session,
from the close of its outputs to the except clause, is one step; `StreamSession`
has what lies between.

## 3. Runs

Runs with deadlock checking off are bounded models that stop at their bounds, or
systems that really may stop (the app after its last tap, a thread that ended).

| Run | Bounds | Shows |
|---|---|---|
| `queue` (`QueueStats`) | queue 2, 6 packets in all sessions, window 1, clock 2, 1 frame shown | type, `ChainIntact`, `LiveEdge`, `NoSilentLoss`, and that the queue implements `GopStream`; the panel sees the backlog but for one packet, and from the first report of a session on its drops (`BacklogShown`), and a snapshot counts the window (`CountsTheWindow`). Six packets hold two overflows with a recovery between them; a clock of two lets events leave a window of one while a call is between its clock and its lock; the packets may belong to one session or be divided among several |
| `session` | queue 1, 4 packets, socket buffer 3, stamps 2/1 | the session never stalls (`NeverStalls`: with nothing to run it waits only for what is not there, and for no task that is over), the codec is never fed behind a hole (`NeverPoisoned`), frames are shown in order, trimming `receive_times` keeps the stamps of queued packets and their number in bounds, nothing is left at the end but what an exception leaves open (`NothingLeftBehind`). A burst larger than the queue, the keyframe that ends the recovery, a trim while packets are queued, a failure of every task and of each step of the setup and teardown all occur |
| `session_live` | queue 1, 2 packets (HELLO and one more), 2 changes of the settings | `SessionEnds`, `SettingsWritten` under fairness, both for a phone that does not stop reading for good. One packet lets every task wait, run, fail and be cancelled, and no task ever waits for room in the queue; a change can fall into the wait of `drain` and another into the next |
| `server` | 2 connections, 2 frames, new work while at most 2 jobs wait | `HelloFirst`, `OneSendInFlight`, `PendingHasSend`, `ClientIsOwned`, `ControlNotMixed`, `WireInOrder`, `PendingKeyframeSent`. Two connections are what a late event of a replaced one needs, and what an accept queued behind `stop` needs |
| `phone_app` | 3 taps, 2 listeners | `StoppedIsDark`, `NoLostListener`, `StatusFollowsButton`. Three taps give start–start–stop and start–stop–start with every order of their jobs. No clients: reports of rejected lines would make `mainJobs` unbounded, and connections are `server`'s subject |
| `pipeline` | 4 frames, receiver queue 1; a byte has 6 values, a payload at most 8 bytes | the newest keyframe reaches the decoder whatever both ends drop (`NewestKeyframeArrives`), and the receiver adds no gap of its own (`OnlyThePhoneSkips`). Every packet is written and read as bytes |
| `camera` | 3 lenses (one missing, one without zoom), 3 changes, 2 sessions, 2 starts/stops | `OneInput`, `PanelReachesCamera`, `CameraFollowsPanel`: in any order of commands, starts and failures the camera ends up with what the panel shows, unless the last command was refused or the session has lost its input. Three changes are a switch, one that loses the input, and a command for the old lens that is accepted all the same |
| `receiver` (`MCReceiverApp`) | a 16x10 picture, a 12x9 canvas, a 10x13 window, rotations 0 and 90, both backends; the control state is finite | `SocketIsOwned`, `StatusIsTrue`, `OutputsAreOwned`, `PicturesFit`, `SameSettings`, `WindowFollowsPanel`; `Retries` and `PanelShowsError` under fairness. The sizes give a rounding tie, and are limited by the width in one rotation and by the height in the other |

Four runs are expected to find a violation; each is a finding.

| Run | Finding |
|---|---|
| `queue_drops` | `dropped_total` counts a keyframe that arrives at a full queue and is accepted (`queueing.py:50`), so the panel overstates the loss. `NoSilentLoss` is what does hold: it never understates it |
| `phone_listens` | after a listener failure the app goes on without a listener and shows "Waiting for PC", where the design says it listens continuously (`StreamServer.swift:50`) |
| `pipeline_gap` | a delta is decoded although the frame it was predicted from was replaced in the phone's pending slot; `decoder.py:84-85` calls it safe to feed. The receiver does not look at the gap in the sequence numbers |
| `receiver_silence` | a suspended phone that keeps its connection stays "connected": no read has the timeout the design names (`session.py:186`) |

## 4. Fairness

- `StreamSession`: weak fairness of a step of the event loop (asyncio runs what
  is ready, in FIFO order) and of the timer of the control task while the session
  lasts (`asyncio.sleep` returns). Nothing is assumed of the network: packets may
  never come, and the phone may stop reading, so that `drain` and `wait_closed`,
  which have no timeout, never return. `SessionEnds` and `SettingsWritten` say in
  their premise (`[]<>~unsent`) that it does not.
- `StreamServer`: weak fairness of `RunJob` (a serial dispatch queue runs its
  jobs) and of the completion of each send (Network calls every completion
  handler, with an error when the connection ends).
- `ReceiverLoop`: weak fairness of the loop (its thread runs, device listings and
  connects answer or fail). A silent phone is not helped by it, which is
  `receiver_silence`.
- `ReceiverApp`: the same for the attempts, the setup and the frames, and weak
  fairness of the panel's timer. Strong fairness of the end of a session whose
  connection was cut: frames are shown one after the other, so that the end is
  enabled only between them, and `SessionEnds` of `StreamSession` is what says
  that the session, on its event loop, notices it all the same (its premise holds:
  nothing stays unsent on a connection that is over).
- The others state safety only and assume no fairness.

## 5. What is proved

### The queue

For every queue size (`MaxSizeAssumption`: a positive number), every number of
arrivals (`MaxArrivalsAssumption`) and any number of sessions,
`KeyframeQueue_proofs` proves that the queue keeps its bound (`QueueTypeOK`;
`put_nowait` never raises `QueueFull`), that the reference chain is intact
(`QueueChainIntact`), that the queue ends at the live edge (`QueueLiveEdge`), that
no loss is silent (`QueueNoSilentLoss`), and that it implements `GopStream`
(`QueueImplementsGopStream`).

The argument. None of these is inductive alone. `QueueInv` is their conjunction
with `InOrder` and `RecoveringEmpty`:

- `ChainIntact` after a normal put needs `LiveEdge` (the new packet must succeed
  the newest in the queue, or the last one returned when the queue is empty) and
  `InOrder` (the new packet is beyond all others);
- the put that ends a recovery tests no room, so the bound needs
  `RecoveringEmpty`;
- an overflow leaves either the new keyframe or nothing with the recovering flag
  set, from which both hold again.

`InitQueueInv` is the base case. `RecoveringStep`, `OverflowStep`, `NormalStep`
and `GetStep` are one lemma per action, resting on `Singleton` and `FreshQueue`
(what a queue of one packet, and one emptied, satisfies). The refinement maps
`arrived` and `last` to themselves: `Put` is `Arrive`, `NewQueue` is `Restart`, and
`Get` is `Deliver` because `ChainIntact` at the head of the queue is `Follows`.

### The statistics

For every window (`WindowAssumption`: a positive number) and any interleaving of
the two threads, `QueueStats_proofs` proves `StatsCount`: a snapshot counts every
event inside the window and none that was too old when it was asked for.
`StatsInv` says why although each time is read outside the lock: only one thread
appends, so the log is in order of time (`LogInOrder`) and behind the current
stamp (`LogIsPast`), hence pruning up to the first recent event pops no recent
one (`NothingRecentPopped`), not even with the older `now` of the other thread.

The module also proves that the composition is still the queue and still the
statistics (`BothKeepQueue`, `BothKeepStats`), so the theorems of both hold in it,
and `BacklogIsShown`: the panel never shows less of a backlog than there is, but
for the packet that is put and not yet reported, and outside of a report never the
drops of another session once the first packet of a session has arrived. Before
that it does show those of the session before: the statistics are made once, the
queue for every session.

### The server of the phone

For any number of connections, listeners, frames and queued jobs
(`ServerAssumption`: the four bounds are numbers), `StreamServer_proofs` proves
`ServerTypeOK`, `ServerHelloFirst`, `ServerWireInOrder`, `ServerOneSendInFlight`,
`ServerPendingHasSend`, `ServerClientIsOwned` and `ServerControlNotMixed`. The
invariant `ServerInv` has to say what may still be in the serial queue:

- `JobsInv`: an accept, a ready and the completion of a send are queued at most
  once for a connection, and frames are queued in order;
- `LifeInv` ties the queue to the framework: a connection whose accept is queued
  is only offered, one whose ready is queued has an empty wire, a completion is
  queued only when nothing else of that connection is unsent;
- `CurrentInv`: what the server believes of its current connection is true.
  `connectionReady` is TRUE exactly when its HELLO was sent, and `sendInFlight`
  exactly when a send or its completion is outstanding. Here the guards
  `self.connection === connection` of the source are needed: without them a late
  event of a replaced connection would break it;
- `OrderInv`: the frames on a wire are older than the pending one, and that is
  older than those in the queue.

There is one lemma per call and event (`StopStep` to `CompletesStep`, which only
append a job, by `Appended`) and one per job (`EnqueueStep` to `SentStep`), resting
on what a job does to the connection: `QuietJob`, `HoldJob`, `IdleJob`,
`ForgetJob`, `SendJob`. `OneMore` to `TailFrames` say what appending and taking a
job does to a queue of any length.

### The session

For every queue size, socket buffer, burst of packets and number of changes of the
settings (`SessionAssumption`; of the limits of `receive_times` it asks what the
source has, 2048 and 1024 beside a queue of 8: trimming keeps more entries than
the queue holds), `StreamSession_proofs` proves every safety property of the
module: `SessionTypeOK`, `SessionNeverStalls`, `SessionStampsCoverQueue`,
`SessionShownInOrder`, `SessionLeavesNothing` and `SessionNeverPoisoned`. The
order of the ready queue, and which await fails, are arbitrary. `SessionInv` is

- `NetInv` and `ControlInv`: the bounds of the buffer and of the settings;
- `LoopInv`: a task is in the ready queue once at most, and only while it waits or
  runs; the task that runs is not in it. Without this a second wake-up would run
  a task in the middle of its await;
- `PacketsInv`: the queue is a run of consecutive packets up to the newest, and
  begins with a keyframe or the successor of the packet taken last. This is
  stronger than `QueueInv`, for the decoder needs to know of the packet that
  leaves the queue, and the stamps of all that stay;
- `DecoderInv`: a synced codec has decoded the packet taken last. An error of the
  codec clears both, so a delta reaches it only without a hole. The stamps are at
  most the limit (`StampBound`: trimming takes the least ones, and that many) and
  cover the queue;
- `DisplayInv`: the slot is newer than what was shown last and not newer than what
  was decoded;
- `PhaseInv`: which tasks may exist in which phase of `_run` and `run_socket`, and
  what was opened and closed by then; `gather` is entered with a verdict, and
  returns only when all tasks are done; an output that is open afterwards means an
  exception the receiver does not retry;
- `WakeInv`: a task that is suspended waits for something that is not there (a
  packet, a frame, bytes that go), a task that is over has its notification
  scheduled, and a cancellation has scheduled every task. `NeverStalls` follows
  from it, and not from the code of one task: each `put`, `get`, slot and
  cancellation must schedule its waiter in the same step.

`ConcatHas` and the lemmas after it say what appending to the ready queue and
taking its head do; there is one lemma for each task's step and for each phase of
`Main`. `SessionUsesQueue`: every behaviour of the session is one of
`KeyframeQueue`, so the theorems of the queue hold inside it, and
`SessionImplementsGopStream`: it keeps the abstract promise to the decoder.

### The phone app

For any number of taps, clients, listeners and queued jobs (`TapsAssumption`, and
nothing at all of the bounds of the server), `PhoneApp_proofs` proves
`AppStoppedIsDark`, `AppNoLostListener` and `AppStatusFollowsButton`. This goes
beyond the run, which has no clients. That an app at rest is dark says nothing
about the states before, and is not inductive. `AppInv` says of each part why it
may be on:

- `EncoderInv`: the encoder is on only if the app runs or a `start()` is still
  under way (it asks, its job is in the capture queue, or it has yet to resume);
- `CameraInv`: the camera takes pictures only if the app runs, a stop is in the
  capture queue, or a start that succeeded has yet to resume. Here the order of
  the serial queue is used: a `start` behind a `stop` ends in a resumption;
- `ListenerInv`: there is a listener only if the app runs, a `start()` is under
  way, or a stop is in the server's queue;
- `StatusInv`: the status agrees with the button, and "starting" belongs to a
  `start()` under way.

An app at rest has none of these but `isRunning`. The catch of `start()` is what
keeps them: a failed start stops all three, also those an overlapping start has
turned on.

### The packets

`ReadsWhatWasWritten` (in `VideoPipeline_proofs`): every packet of the phone whose
payload is within the limit of the PC, followed by anything, is accepted, read
back unchanged and consumed to its last byte; a stream is never read out of step.
It holds for every number of values of a byte above 5 and every
`MAX_PAYLOAD_LEN` the length field can hold (`FormatAssumption`). `Writes16` to
`Reads64` are one lemma for each width, by halves; `HeaderFields` places the
fields.

### The path from the encoder to the codec

`VideoPipeline` extends `StreamServer`, so that `ServerInv` and its lemma
`ServerStep` serve here as they are: `PipelineUsesServer` says that the phone does
on this path what it does alone, `PipelineUsesQueue` that the queue is
`KeyframeQueue`. For any number of frames, listeners and queued jobs, every queue
size, every number of values of a byte and every largest payload
(`PipelineAssumption`: one connection, a queue of at least one packet, a payload
of at least one byte), `VideoPipeline_proofs` proves `PipelineNewestKeyframe` and
`PipelineOnlyThePhoneSkips`, and `PipelineGivenInOrder`: the decoder is given the
frames in the order of the encoder, none twice, each for what it is. `PipeInv` is `ServerInv` with

- `PathInv`: packet p of the receiver is the frame behind the HELLO on the wire,
  and of its kind. That the kind survives is `ReadAs`, which rests on
  `ReadsWhatWasWritten`: the step of the ingest task goes through the bytes;
- `PacketsInv` and `CodecInv`, the queue and the guard as in the session;
- `KeysInv`: of every keyframe since the connection was ready, one at least as new
  is in one of the places a frame can be: a job or the pending slot of the phone,
  the wire, the queue, the decoder, or it was discarded before a recovery that
  goes on. Only the whole disjunction is inductive: a frame passes from one place
  to the next, or is dropped in favour of a newer keyframe.

`PhoneMoves` reduces the steps of the server to the five things they can do to
frames (`Idles`, `Encodes`, `Drops`, `Greets`, `Follows`), so that the invariant is
shown against five cases instead of every handler. In a recovery it says nothing of
a keyframe that was discarded, and `NewestKeyframeArrives` excepts it: the code
waits for the next one.

### The receiver

For all sizes, backends and rotations (`PreviewAssumption`), `ReceiverApp_proofs`
proves `CanvasHoldsPicture` and `WindowHoldsPicture` (whatever way the
floating-point ties fall, a fitted picture is inside its target, centred, and of
the right shape to one or two pixels, although the source limits only the first
to its target), and from them `PicturesAlwaysFit`; `FrameHasOneSnapshot`, whose
invariant `SnapshotInv` says that the camera was fed with the snapshot in use; and
`WindowAsAsked`, whose invariant `WindowInv` says that the flag is the window's
real state unless it was disturbed.

It then proves `AppDrivesPreview`: every behaviour of the application
is one of the outputs, so the theorems of `Preview` hold in it; and of the
application `AppTypes`, `SocketAlwaysOwned`, `StatusAlwaysTrue` and
`OutputsAlwaysOwned`: no attempt leaves a socket, a window or the camera to the
next one, in any order of failures. The except clause, the `finally` and the end of
the thread are separate steps, and the panel may look in between; the invariants
allow there exactly what `Failing` describes, a thread that an exception is about
to end: its status is still that of the session, and an output whose closing
raised is still open.

### The camera settings

`CameraControl_proofs` proves, for every set of lenses, any of them missing or
without zoom, every zoom limit, and any number of changes, sessions and starts
(`LensAssumption`: the lens of the default settings is a lens, the stand-in
`"none"` for `nil` is not, the bounds are numbers), that no device is given a zoom
beyond its limits (`CameraTypeOK`), that the capture session has exactly the
input of the active lens and loses it only when AVFoundation refuses the new input
of a switch and then the old one (`CameraOneInput`), that the newest settings reach
the camera (`PanelReaches`), and that its input does what they say unless it
refused them (`CameraFollows`). The capture queue and the wire are of any length. `CameraInv`
adds to `TypeOK` and `OneInput`:

- `InputKept`: a camera that is configured knows an input (`activeInput`), and one
  that knows none still has the rear lens in `activeKind`, so that
  `configureSession`, which sets it, does not disagree with a command that came
  earlier;
- `OnItsWay`: while a session has written the newest version, the settings of
  that version are the last on the wire, or else the last `apply` in the queue,
  or else the last command. Each of `Write`, `Read` and `CaptureJob` moves them
  one place on, and only `Update` and a new session end the premise;
- `Obeyed`: a command that was not refused is the lens, the zoom and
  `currentControl`, from which a later configuration sets the controls.

TLC checks `OneInput`, `PanelReachesCamera` and `CameraFollowsPanel`, which follow
from it, in the run `camera`.

## 6. What is only checked, and what is not modelled

Every safety property of every passing run, invariants and action properties, is
proved. Only checked are the liveness properties `SessionEnds` and
`SettingsWritten` (`StreamSession`), `PendingKeyframeSent` (`StreamServer`),
`Retries` and `PanelShowsError` (`ReceiverApp`): fairness and ENABLED are beyond
the prover's backends. So are induction over data and recursive operators; no
module uses RECURSIVE. The runs with an expected violation have no theorem, the
properties they refute being false.

Not modelled:

- the AVCC to Annex-B conversion and the VideoToolbox session of the encoder
  (its forced-keyframe flag is in `StreamServer`, its on and off in `PhoneApp`);
  the payload is opaque to everything that is modelled;
- in `preview.py` the first size of the pygame window, which the user changes at
  will, and how a raster is cropped or scaled to the announced size; the pixels of
  `apply_filters` and the drawing of overlay and placeholder (numpy, OpenCV,
  pygame), which change no size; sizes, bit rate and latencies of the
  statistics, of which only counts, depth and drops are kept;
- Tk and SwiftUI layout, command-line parsing, the preview of the `--no-preview`
  option (it is `Preview` without `Show`), the start of OBS, installers and build
  jobs, which change nothing of the running receiver;
- what the app's status says of a client accepted behind `stop` (that the client
  is not forgotten is `ClientIsOwned` of `StreamServer`). The errors that camera and encoder report asynchronously, which only
  set the status text, are left out.

What the source allows and no document rules out is modelled, and the properties
name it as an exception: an output that is left open when a setup fails half-way or
a `close` raises, which ends the thread; a capture session that has lost its input
and accepts commands for it; the camera that cannot start after an early lens
switch; the panel that shows the drops of the last session until the next one
reports.

## 7. Plan

Done, in this order: `GopStream`, `KeyframeQueue` and its proofs, `StreamSession`,
`StreamServer`, `PhoneApp`, `ReceiverLoop`, `VideoPipeline`, `CameraControl` and its
proofs; then `StatsWindow`, `QueueStats`, `FrameGeometry` and `Preview`,
`ReceiverApp` and `PacketFormat`, each with its proofs, and the proofs of
`StreamServer`; then the proofs of `PhoneApp`, `StreamSession` and `VideoPipeline`.

Left:

1. The safety half of the liveness properties: what each needs to be enabled
   (a session whose task is over has its main task scheduled, a pending frame has
   an outstanding send) is in `WakeInv` and `PendingHasSend`; the measures that
   decrease until then could be stated as action properties and proved.
2. `H264Encoder`: the forced-keyframe flag against failed frames, the callback
   thread against `stop`.
