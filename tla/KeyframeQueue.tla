--------------------------- MODULE KeyframeQueue ---------------------------
(***************************************************************************)
(* KeyframeAwareVideoQueue of receiver/queueing.py: the bounded queue of   *)
(* encoded video between the ingest task and the decode task.              *)
(*                                                                         *)
(* put and get never suspend half-way (put awaits nothing, get awaits only *)
(* an empty queue), so each is one action.  A packet is its arrival number;*)
(* arrived keeps the kind of every packet as history, and got the number   *)
(* of packets get has returned.  Every session has a queue of its own, so  *)
(* the module is the queue of the session that runs, one after another.    *)
(***************************************************************************)
EXTENDS Naturals, Sequences

CONSTANTS MaxSize,        \* maxsize of the queue (8 in session.py)
          MaxArrivals     \* bound on the packets of one session

ASSUME MaxSizeAssumption == MaxSize \in Nat \ {0}
ASSUME MaxArrivalsAssumption == MaxArrivals \in Nat

VARIABLES arrived, queue, recovering, dropped, last, got

vars == <<arrived, queue, recovering, dropped, last, got>>

Kinds == {"key", "delta"}      \* VIDEO_FLAG_KEYFRAME set or not
IsKey(p) == arrived[p] = "key"

Init == /\ arrived = <<>>
        /\ queue = <<>>
        /\ recovering = FALSE
        /\ dropped = 0
        /\ last = 0
        /\ got = 0

(* Mutant: the queue takes itself for full when it is over its limit.      *)
FullTooLate == Len(queue) > MaxSize
Full == Len(queue) = MaxSize

(* The call put(packet) for the next packet, of the given kind.            *)
Offer(kind) == /\ Len(arrived) < MaxArrivals
               /\ arrived' = Append(arrived, kind)
               /\ UNCHANGED <<last, got>>

(* While recovering, everything up to the next keyframe is discarded.      *)
PutRecovering(kind) ==
    /\ recovering
    /\ Offer(kind)
    /\ IF kind = "key"
       THEN /\ recovering' = FALSE
            /\ queue' = Append(queue, Len(arrived'))
            /\ UNCHANGED dropped
       ELSE /\ dropped' = dropped + 1
            /\ UNCHANGED <<queue, recovering>>

(* Mutant: the overflow counts the drained packets and forgets the new one.*)
PutOverflowUncounted(kind) ==
    /\ ~recovering
    /\ Full
    /\ Offer(kind)
    /\ dropped' = dropped + Len(queue)
    /\ queue' = IF kind = "key" THEN <<Len(arrived')>> ELSE <<>>
    /\ recovering' = (kind # "key")

(* Mutant: the overflow drains the queue but waits for no keyframe.        *)
PutOverflowNoRecovery(kind) ==
    /\ ~recovering
    /\ Full
    /\ Offer(kind)
    /\ dropped' = dropped + Len(queue) + 1
    /\ queue' = IF kind = "key" THEN <<Len(arrived')>> ELSE <<>>
    /\ recovering' = FALSE

(* Mutant: drop-oldest, the usual bounded queue.                           *)
PutOverflowDropOldest(kind) ==
    /\ ~recovering
    /\ Full
    /\ Offer(kind)
    /\ dropped' = dropped + 1
    /\ queue' = Append(Tail(queue), Len(arrived'))
    /\ UNCHANGED recovering

(* Overflow drains the queue; the count takes the new packet for dropped   *)
(* before it is known whether it is.                                       *)
PutOverflow(kind) ==
    /\ ~recovering
    /\ Full
    /\ Offer(kind)
    /\ dropped' = dropped + Len(queue) + 1
    /\ queue' = IF kind = "key" THEN <<Len(arrived')>> ELSE <<>>
    /\ recovering' = (kind # "key")

PutNormal(kind) ==
    /\ ~recovering
    /\ ~Full
    /\ Offer(kind)
    /\ queue' = Append(queue, Len(arrived'))
    /\ UNCHANGED <<recovering, dropped>>

Put(kind) == PutRecovering(kind) \/ PutOverflow(kind) \/ PutNormal(kind)

Newest == IF queue = <<>> THEN last ELSE queue[Len(queue)]

(* get returns the oldest packet.                                          *)
Get == /\ queue # <<>>
       /\ last' = Head(queue)
       /\ queue' = Tail(queue)
       /\ got' = got + 1
       /\ UNCHANGED <<arrived, recovering, dropped>>

(* The next session begins: nothing of the old queue is kept.              *)
NewQueue == /\ arrived' = <<>>
            /\ queue' = <<>>
            /\ recovering' = FALSE
            /\ dropped' = 0
            /\ last' = 0
            /\ got' = 0

Next == (\E kind \in Kinds : Put(kind)) \/ Get \/ NewQueue

Spec == Init /\ [][Next]_vars

-----------------------------------------------------------------------------
(* Every variable has its type, and the queue is never over its maxsize    *)
(* (put_nowait would raise QueueFull out of the ingest task).              *)
TypeOK == /\ arrived \in Seq(Kinds)
          /\ queue \in Seq(1 .. Len(arrived))
          /\ Len(queue) <= MaxSize
          /\ recovering \in BOOLEAN
          /\ dropped \in Nat
          /\ last \in 0 .. Len(arrived)
          /\ got \in Nat

-----------------------------------------------------------------------------
Predecessor(q, l, i) == IF i = 1 THEN l ELSE q[i - 1]

(* What get will return, in order, never poisons the decoder: each packet  *)
(* is a keyframe or the immediate successor of the packet before it        *)
(* ("Dropping arbitrary P-frames would poison the decoder reference        *)
(* chain").                                                                *)
ChainIntact ==
    \A i \in 1 .. Len(queue) :
        IsKey(queue[i]) \/ queue[i] = Predecessor(queue, last, i) + 1

(* The queue keeps arrival order and never returns a packet twice.         *)
InOrder == \A i \in 1 .. Len(queue) : Predecessor(queue, last, i) < queue[i]

(* While the queue is recovering it is empty: the keyframe that ends the   *)
(* recovery is put without testing for room.                               *)
RecoveringEmpty == recovering => queue = <<>>

(* Outside a recovery the queue ends in the newest packet: nothing newer   *)
(* than what get can still return has been discarded.                      *)
LiveEdge == ~recovering => Newest = Len(arrived)

(* Every packet put is returned, queued or counted in dropped_total: the   *)
(* counter never understates the loss.                                     *)
NoSilentLoss == Len(arrived) <= got + Len(queue) + dropped

(* The counter states the loss exactly: dropped_total is shown to the user *)
(* as the number of dropped packets.                                       *)
DroppedIsExact == Len(arrived) = got + Len(queue) + dropped

(* The inductive invariant behind the theorems of KeyframeQueue_proofs.    *)
QueueInv == /\ TypeOK
            /\ ChainIntact
            /\ InOrder
            /\ RecoveringEmpty
            /\ LiveEdge
            /\ NoSilentLoss

Gop == INSTANCE GopStream

(* The queue implements the promise to the decoder.                        *)
ImplementsGopStream == Gop!Spec
=============================================================================
