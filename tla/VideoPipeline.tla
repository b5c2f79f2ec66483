--------------------------- MODULE VideoPipeline ---------------------------
(***************************************************************************)
(* A frame's way from the encoder of the phone to the codec of the PC:     *)
(* StreamServer, one TCP connection, KeyframeQueue, ResilientH264Decoder.  *)
(*                                                                         *)
(* Both ends drop frames: the server when one is pending, the queue when it*)
(* overflows.  Only the second is visible to the receiver, which numbers   *)
(* packets as they arrive (it does not look at their sequence numbers): its*)
(* packet p is the frame FrameOf(p) of the encoder.                        *)
(***************************************************************************)
EXTENDS StreamServer, PacketFormat

CONSTANTS MaxSize        \* of KeyframeQueue

ASSUME PipelineAssumption == /\ MaxConns = 1
                             /\ MaxSize \in Nat \ {0}
                             /\ MaxPayload > 0

VARIABLES arrived, queue, recovering, dropped, last, got \* of KeyframeQueue
VARIABLES
    received,    \* packets of the connection the ingest task has read
    codec,       \* the frame the codec decoded last, 0 when _decoder is None
    synced,      \* _synced of ResilientH264Decoder
    since,       \* the frames enqueued before the connection was ready
    keyFed       \* the last keyframe given to the decoder

serverVars == vars
queueVars == <<arrived, queue, recovering, dropped, last, got>>
decoderVars == <<codec, synced, keyFed>>
pipeVars == <<serverVars, queueVars, decoderVars, received, since>>

Q == INSTANCE KeyframeQueue WITH MaxArrivals <- MaxFrames

Wire == wire[1]
FrameOf(p) == Wire[p + 1]        \* after the HELLO

PipeInit == /\ Init /\ Q!Init
            /\ received = 0 /\ since = {}
            /\ codec = 0 /\ synced = FALSE /\ keyFed = 0

(* A frame whose enqueueVideo still waits in the serial queue.             *)
Waits(n) == \E i \in 1 .. Len(jobs) : jobs[i].op = "video" /\ jobs[i].arg = n

(* The phone, its camera and the network between the two.                  *)
Phone == /\ Next
         /\ since' = IF connectionReady' /\ ~connectionReady
                     THEN {n \in 1 .. Len(frames) : ~Waits(n)} ELSE since
         /\ UNCHANGED <<queueVars, decoderVars, received>>

(* The packets of ICAMPacket.hello and ICAMPacket.video, and what the      *)
(* receiver makes of their bytes.  A payload is one byte, a frame's number *)
(* its timestamp and its sequence number, which wrap at their widths.      *)
Written(n, kind) ==
    [type |-> IF n = Hello THEN HELLO ELSE VIDEO,
     flags |-> IF kind = "key" THEN KeyframeFlag ELSE 0,
     timestamp |-> n % Base8, sequence |-> n % Base4, payload |-> <<n % Base>>]
AsRead == [n \in 0 .. MaxFrames |->
              [kind \in Kinds |-> ReadPacket(Encode(Written(n, kind)))]]

(* The ingest task reads the next packet of the stream.                    *)
Ingest ==
    /\ received < Len(Wire)
    /\ received' = received + 1
    /\ LET n      == Wire[received + 1]
           packet == AsRead[n][IF n = Hello THEN "delta" ELSE frames[n]]
       IN IF packet.type # VIDEO THEN UNCHANGED queueVars
          ELSE Q!Put(IF packet.flags % 2 = KeyframeFlag THEN "key" ELSE "delta")
    /\ UNCHANGED <<serverVars, decoderVars, since>>

(* ResilientH264Decoder.decode: a delta is skipped until it is synced, and *)
(* an error of the codec, which may raise on anything, ends that.          *)
Decode ==
    /\ Q!Get
    /\ keyFed' = IF Q!IsKey(last') THEN FrameOf(last') ELSE keyFed
    /\ \/ ~synced /\ ~Q!IsKey(last') /\ UNCHANGED <<codec, synced>>
       \/ /\ synced \/ Q!IsKey(last')
          /\ \/ codec' = FrameOf(last') /\ synced' = (synced \/ Q!IsKey(last'))
             \/ codec' = 0 /\ synced' = FALSE
    /\ UNCHANGED <<serverVars, received, since>>

PipeNext == Phone \/ Ingest \/ Decode

PipeSpec == PipeInit /\ [][PipeNext]_pipeVars

-----------------------------------------------------------------------------
(* The receiver adds no gap of its own: between two frames a synced codec  *)
(* decodes one after the other, the second a delta, there is none that the *)
(* phone has sent.                                                         *)
OnWire(n) == \E i \in 1 .. Len(Wire) : Wire[i] = n
OnlyThePhoneSkips ==
    [][ last' # last /\ synced /\ ~Q!IsKey(last')
            => \A n \in codec + 1 .. FrameOf(last') - 1 : ~OnWire(n) ]_pipeVars

(* When all is delivered, the decoder has got the newest keyframe that was *)
(* encoded since the connection is ready, whatever both ends have dropped, *)
(* unless the queue still waits for one: "a fresh PC decoder" need not wait*)
(* another GOP.                                                            *)
Delivered == /\ jobs = <<>> /\ pending = 0 /\ received = Len(Wire)
             /\ queue = <<>> /\ ~recovering
NewestKeyframeArrives ==
    Delivered /\ connectionReady =>
        \A n \in 1 .. Len(frames) : n \notin since /\ IsKey(n) => n <= keyFed

(* "Once it decodes successfully, subsequent delta frames are safe to      *)
(* feed": a delta is only given to a codec that decoded the frame before.  *)
DeltaIsSafe ==
    [][ last' # last /\ synced /\ ~Q!IsKey(last')
            => FrameOf(last') = codec + 1 ]_pipeVars
=============================================================================
