------------------------ MODULE KeyframeQueue_proofs ------------------------
(***************************************************************************)
(* Theorems about KeyframeQueue for every queue size and every number of   *)
(* packets.  The inductive invariant is QueueInv: LiveEdge makes the packet*)
(* a normal put appends the successor of the one before it, and            *)
(* RecoveringEmpty makes the keyframe that ends a recovery the first.      *)
(***************************************************************************)
EXTENDS KeyframeQueue, SequenceTheorems, TLAPS

LEMMA InitQueueInv == Init => QueueInv
<1> SUFFICES ASSUME Init PROVE QueueInv
  OBVIOUS
<1>1. /\ arrived \in Seq(Kinds) /\ Len(arrived) = 0
      /\ queue \in Seq(1 .. Len(arrived)) /\ Len(queue) = 0
  BY EmptySeq DEF Init
<1> QED
  <2>1. TypeOK
    <3>1. recovering \in BOOLEAN
      BY DEF Init
    <3>2. last = 0 /\ dropped = 0 /\ got = 0
      BY DEF Init
    <3> QED
      BY <1>1, <3>1, <3>2, MaxSizeAssumption DEF TypeOK
  <2>2. ChainIntact /\ InOrder
    BY <1>1 DEF ChainIntact, InOrder
  <2>3. RecoveringEmpty /\ LiveEdge /\ NoSilentLoss
    BY <1>1 DEF Init, RecoveringEmpty, LiveEdge, NoSilentLoss, Newest
  <2> QED
    BY <2>1, <2>2, <2>3 DEF QueueInv

(* A one-element sequence.                                                 *)
LEMMA Singleton ==
  ASSUME NEW S, NEW e \in S
  PROVE  <<e>> \in Seq(S) /\ Len(<<e>>) = 1 /\ <<e>>[1] = e
  OBVIOUS

(* A put that leaves nothing of the old queue keeps the invariant: what is *)
(* queued then is the new packet alone if it is a keyframe, else nothing.  *)
LEMMA FreshQueue ==
  ASSUME QueueInv, NEW kind \in Kinds, Offer(kind),
         queue' = IF kind = "key" THEN <<Len(arrived')>> ELSE <<>>,
         recovering' = (kind # "key"),
         dropped' \in Nat,
         NoSilentLoss'
  PROVE  QueueInv'
<1>1. /\ arrived' = Append(arrived, kind)
      /\ arrived \in Seq(Kinds)
      /\ last' = last /\ got' = got
  BY DEF Offer, QueueInv, TypeOK
<1>2. /\ arrived' \in Seq(Kinds)
      /\ Len(arrived') = Len(arrived) + 1
      /\ arrived'[Len(arrived')] = kind
      /\ Len(arrived) \in Nat
  BY <1>1, AppendProperties
<1>3. last' \in 0 .. Len(arrived) /\ got' \in Nat
  BY <1>1 DEF QueueInv, TypeOK
<1>4. CASE kind = "key"
  <2>1. queue' = <<Len(arrived')>> /\ recovering' = FALSE
    BY <1>4
  <2>2. /\ queue' \in Seq(1 .. Len(arrived'))
        /\ Len(queue') = 1 /\ queue'[1] = Len(arrived')
    <3>1. Len(arrived') \in 1 .. Len(arrived')
      BY <1>2
    <3> QED
      BY <2>1, <3>1, Singleton
  <2>3. TypeOK'
    BY <1>2, <1>3, <2>1, <2>2, MaxSizeAssumption DEF TypeOK
  <2>4. ChainIntact' /\ InOrder'
    BY <1>2, <1>3, <1>4, <2>2 DEF ChainIntact, InOrder, IsKey, Predecessor
  <2>5. LiveEdge' /\ RecoveringEmpty'
    BY <2>1, <2>2 DEF LiveEdge, Newest, RecoveringEmpty
  <2> QED
    BY <2>3, <2>4, <2>5 DEF QueueInv
<1>5. CASE kind # "key"
  <2>1. queue' = <<>> /\ recovering' = TRUE
    BY <1>5
  <2>2. queue' \in Seq(1 .. Len(arrived')) /\ Len(queue') = 0
    BY <2>1, EmptySeq
  <2>3. TypeOK'
    BY <1>2, <1>3, <2>1, <2>2, MaxSizeAssumption DEF TypeOK
  <2>4. ChainIntact' /\ InOrder' /\ LiveEdge' /\ RecoveringEmpty'
    BY <2>1, <2>2 DEF ChainIntact, InOrder, LiveEdge, RecoveringEmpty
  <2> QED
    BY <2>3, <2>4 DEF QueueInv
<1> QED
  BY <1>4, <1>5

(* Putting the next packet while the queue recovers keeps the invariant.   *)
LEMMA RecoveringStep ==
  ASSUME QueueInv, NEW kind \in Kinds, PutRecovering(kind)
  PROVE  QueueInv'
<1>1. /\ queue = <<>> /\ Offer(kind)
      /\ dropped \in Nat /\ got \in Nat
      /\ arrived \in Seq(Kinds)
  BY DEF QueueInv, TypeOK, RecoveringEmpty, PutRecovering
<1>2. /\ Len(arrived) \in Nat /\ Len(arrived') = Len(arrived) + 1
      /\ got' = got
  BY <1>1, AppendProperties DEF Offer
<1>3. Len(arrived) <= got + dropped
  BY <1>1 DEF QueueInv, NoSilentLoss
<1>4. CASE kind = "key"
  <2>1. queue' = <<Len(arrived')>> /\ recovering' = FALSE /\ dropped' = dropped
    BY <1>1, <1>4 DEF PutRecovering
  <2>2. Len(queue') = 1
    BY <2>1
  <2>3. NoSilentLoss'
    BY <1>1, <1>2, <1>3, <2>1, <2>2 DEF NoSilentLoss
  <2> QED
    BY <1>1, <1>4, <2>1, <2>3, FreshQueue
<1>5. CASE kind # "key"
  <2>1. queue' = <<>> /\ recovering' = TRUE /\ dropped' = dropped + 1
    BY <1>1, <1>5 DEF PutRecovering
  <2>2. Len(queue') = 0
    BY <2>1
  <2>3. NoSilentLoss'
    BY <1>1, <1>2, <1>3, <2>1, <2>2 DEF NoSilentLoss
  <2>4. /\ recovering' = (kind # "key")
        /\ queue' = IF kind = "key" THEN <<Len(arrived')>> ELSE <<>>
    BY <1>5, <2>1
  <2>5. dropped' \in Nat
    BY <1>1, <2>1
  <2> QED
    BY <1>1, <2>3, <2>4, <2>5, FreshQueue
<1> QED
  BY <1>4, <1>5

(* An overflow keeps the invariant, whether a keyframe or a delta hits it. *)
LEMMA OverflowStep ==
  ASSUME QueueInv, NEW kind \in Kinds, PutOverflow(kind)
  PROVE  QueueInv'
<1>1. /\ Offer(kind)
      /\ dropped \in Nat /\ got \in Nat /\ Len(queue) \in Nat
      /\ Len(arrived') = Len(arrived) + 1
      /\ got' = got
      /\ dropped' = dropped + Len(queue) + 1
      /\ queue' = IF kind = "key" THEN <<Len(arrived')>> ELSE <<>>
      /\ recovering' = (kind # "key")
  BY DEF QueueInv, TypeOK, PutOverflow, Offer
<1>2. Len(queue') \in Nat
  BY <1>1
<1>3. Len(arrived') <= got' + Len(queue') + dropped'
  BY <1>1, <1>2 DEF QueueInv, TypeOK, NoSilentLoss
<1> QED
  BY <1>1, <1>3, FreshQueue DEF NoSilentLoss

(* A put with room keeps the invariant: the packet follows the newest one. *)
LEMMA NormalStep ==
  ASSUME QueueInv, NEW kind \in Kinds, PutNormal(kind)
  PROVE  QueueInv'
<1>1. /\ arrived' = Append(arrived, kind)
      /\ arrived \in Seq(Kinds) /\ queue \in Seq(1 .. Len(arrived))
      /\ ~recovering /\ recovering' = FALSE
      /\ last' = last /\ got' = got /\ dropped' = dropped
      /\ last \in 0 .. Len(arrived) /\ dropped \in Nat /\ got \in Nat
  BY DEF QueueInv, TypeOK, PutNormal, Offer
<1>2. /\ arrived' \in Seq(Kinds)
      /\ Len(arrived) \in Nat /\ Len(arrived') = Len(arrived) + 1
      /\ \A p \in 1 .. Len(arrived) : arrived'[p] = arrived[p]
  BY <1>1, AppendProperties
<1>3. /\ queue \in Seq(1 .. Len(arrived')) /\ Len(arrived') \in 1 .. Len(arrived')
      /\ queue' = Append(queue, Len(arrived'))
  <2>1. 1 .. Len(arrived) \subseteq 1 .. Len(arrived')
    BY <1>2
  <2> QED
    BY <1>1, <1>2, <2>1, SeqMonotonic DEF PutNormal
<1>4. /\ queue' \in Seq(1 .. Len(arrived'))
      /\ Len(queue) \in Nat /\ Len(queue') = Len(queue) + 1
      /\ \A i \in 1 .. Len(queue) : queue'[i] = queue[i]
      /\ queue'[Len(queue')] = Len(arrived')
  BY <1>3, AppendProperties
<1>5. TypeOK'
  <2>1. Len(queue') <= MaxSize
    BY <1>4, MaxSizeAssumption DEF PutNormal, Full, QueueInv, TypeOK
  <2>2. recovering' \in BOOLEAN
    BY <1>1
  <2>3. last' \in 0 .. Len(arrived') /\ dropped' \in Nat /\ got' \in Nat
    BY <1>1, <1>2
  <2> QED
    BY <1>2, <1>4, <2>1, <2>2, <2>3 DEF TypeOK
<1>6. \A i \in 1 .. Len(queue) :
        /\ queue[i] \in 1 .. Len(arrived)
        /\ Predecessor(queue', last', i) = Predecessor(queue, last, i)
        /\ arrived'[queue'[i]] = arrived[queue[i]]
  <2> TAKE i \in 1 .. Len(queue)
  <2>1. queue[i] \in 1 .. Len(arrived)
    BY <1>1, ElementOfSeq
  <2>2. arrived'[queue'[i]] = arrived[queue[i]]
    BY <1>2, <1>4, <2>1
  <2>3. Predecessor(queue', last', i) = Predecessor(queue, last, i)
    <3>1. i # 1 => i - 1 \in 1 .. Len(queue)
      BY <1>4
    <3>2. last' = last
      BY <1>1
    <3> QED
      BY <1>4, <3>1, <3>2 DEF Predecessor
  <2> QED
    BY <2>1, <2>2, <2>3
<1>7. Predecessor(queue', last', Len(queue')) = Len(arrived)
  <2>1. Newest = Len(arrived)
    BY <1>1 DEF QueueInv, LiveEdge
  <2>2. CASE queue = <<>>
    BY <1>1, <1>4, <2>1, <2>2 DEF Newest, Predecessor
  <2>3. CASE queue # <<>>
    <3>1. Len(queue) \in 1 .. Len(queue)
      BY <1>1, <1>4, <2>3, EmptySeq
    <3> QED
      BY <1>4, <2>1, <2>3, <3>1 DEF Newest, Predecessor
  <2> QED
    BY <2>2, <2>3
<1>8. ASSUME NEW i \in 1 .. Len(queue')
      PROVE  /\ (arrived'[queue'[i]] = "key" \/ queue'[i] = Predecessor(queue', last', i) + 1)
             /\ Predecessor(queue', last', i) < queue'[i]
  <2>1. CASE i \in 1 .. Len(queue)
    BY <1>4, <1>6, <2>1 DEF QueueInv, ChainIntact, InOrder, IsKey
  <2>2. CASE i = Len(queue')
    BY <1>2, <1>4, <1>7, <2>2
  <2> QED
    BY <1>4, <2>1, <2>2
<1>9. ChainIntact' /\ InOrder'
  BY <1>8 DEF ChainIntact, InOrder, IsKey
<1>10. LiveEdge' /\ RecoveringEmpty' /\ NoSilentLoss'
  BY <1>1, <1>2, <1>4
  DEF LiveEdge, Newest, RecoveringEmpty, QueueInv, NoSilentLoss
<1> QED
  BY <1>5, <1>9, <1>10 DEF QueueInv

(* Taking the head keeps the invariant: it is the predecessor of the rest. *)
LEMMA GetStep ==
  ASSUME QueueInv, Get
  PROVE  QueueInv'
<1>1. /\ queue \in Seq(1 .. Len(arrived)) /\ queue # <<>>
      /\ Len(queue) <= MaxSize /\ arrived \in Seq(Kinds)
      /\ last' = Head(queue) /\ queue' = Tail(queue)
      /\ arrived' = arrived /\ got' = got + 1
      /\ dropped' = dropped /\ recovering' = recovering
      /\ got \in Nat /\ dropped \in Nat /\ recovering \in BOOLEAN
  BY DEF QueueInv, TypeOK, Get
<1>2. /\ queue' \in Seq(1 .. Len(arrived))
      /\ Len(queue) \in Nat /\ Len(queue') \in Nat
      /\ Len(queue') = Len(queue) - 1
      /\ \A i \in 1 .. Len(queue') : queue'[i] = queue[i + 1]
      /\ last' = queue[1] /\ last' \in 1 .. Len(arrived)
  BY <1>1, HeadTailProperties
<1>3. TypeOK'
  BY <1>1, <1>2, MaxSizeAssumption DEF TypeOK
<1>4. ASSUME NEW i \in 1 .. Len(queue')
      PROVE  /\ queue'[i] = queue[i + 1] /\ i + 1 \in 1 .. Len(queue)
             /\ Predecessor(queue', last', i) = Predecessor(queue, last, i + 1)
  BY <1>2 DEF Predecessor
<1>5. ChainIntact' /\ InOrder'
  BY <1>1, <1>4 DEF ChainIntact, InOrder, QueueInv, IsKey
<1>6. Newest' = Newest
  <2>1. CASE Len(queue') = 0
    <3>1. queue' = <<>> /\ Len(queue) = 1
      BY <1>2, <2>1, EmptySeq
    <3> QED
      BY <1>1, <1>2, <3>1 DEF Newest
  <2>2. CASE Len(queue') # 0
    <3>1. queue' # <<>> /\ Len(queue') \in 1 .. Len(queue')
      BY <1>2, <2>2, EmptySeq
    <3> QED
      BY <1>1, <1>2, <3>1 DEF Newest
  <2> QED
    BY <2>1, <2>2
<1>7. ~recovering
  BY <1>1 DEF QueueInv, RecoveringEmpty
<1>8. LiveEdge' /\ RecoveringEmpty' /\ NoSilentLoss'
  BY <1>1, <1>2, <1>6, <1>7
  DEF QueueInv, LiveEdge, RecoveringEmpty, NoSilentLoss
<1> QED
  BY <1>3, <1>5, <1>8 DEF QueueInv

(* The queue of the next session is as the first one was.                  *)
LEMMA NewQueueStep == NewQueue => QueueInv'
<1>1. NewQueue => Init'
  BY DEF NewQueue, Init
<1>2. Init' => QueueInv'
  BY InitQueueInv, PTL
<1> QED
  BY <1>1, <1>2

(* A step that changes nothing keeps the invariant.                        *)
LEMMA QueueStutter == QueueInv /\ UNCHANGED vars => QueueInv'
  BY DEF QueueInv, TypeOK, ChainIntact, InOrder, RecoveringEmpty, LiveEdge,
         NoSilentLoss, Newest, Predecessor, IsKey, vars

(* QueueInv holds in every reachable state of the queue.                   *)
THEOREM QueueInvariant == Spec => []QueueInv
<1>1. QueueInv /\ [Next]_vars => QueueInv'
  BY RecoveringStep, OverflowStep, NormalStep, GetStep, NewQueueStep, QueueStutter
  DEF Next, Put
<1> QED
  BY InitQueueInv, <1>1, PTL DEF Spec

(* The queue never exceeds maxsize and every variable keeps its type.      *)
THEOREM QueueTypeOK == Spec => []TypeOK
<1>1. QueueInv => TypeOK
  BY DEF QueueInv
<1> QED
  BY QueueInvariant, <1>1, PTL

(* No overflow of the queue ever poisons the decoder's reference chain.    *)
THEOREM QueueChainIntact == Spec => []ChainIntact
<1>1. QueueInv => ChainIntact
  BY DEF QueueInv
<1> QED
  BY QueueInvariant, <1>1, PTL

(* Outside a recovery nothing newer than the queue's tail was discarded.   *)
THEOREM QueueLiveEdge == Spec => []LiveEdge
<1>1. QueueInv => LiveEdge
  BY DEF QueueInv
<1> QED
  BY QueueInvariant, <1>1, PTL

(* dropped_total never understates the number of packets lost.             *)
THEOREM QueueNoSilentLoss == Spec => []NoSilentLoss
<1>1. QueueInv => NoSilentLoss
  BY DEF QueueInv
<1> QED
  BY QueueInvariant, <1>1, PTL

(* The queue implements GopStream: it delivers an ordered selection of the *)
(* packets in which a delta only follows the packet it was predicted from. *)
THEOREM QueueImplementsGopStream == Spec => ImplementsGopStream
<1>1. Init => Gop!Init
  BY DEF Init, Gop!Init
<1>2. ASSUME QueueInv, [Next]_vars
      PROVE  [Gop!Next]_Gop!vars
  <2>1. ASSUME NEW kind \in Kinds, Put(kind)
        PROVE  Gop!Arrive(kind)
    BY <2>1 DEF Put, PutRecovering, PutOverflow, PutNormal, Offer, Gop!Arrive, Kinds, Gop!Kinds
  <2>2. CASE Get
    <3>1. queue # <<>> /\ last' = queue[1] /\ arrived' = arrived
      BY <1>2, <2>2 DEF Get, QueueInv, TypeOK
    <3>2. queue[1] \in 1 .. Len(arrived) /\ 1 \in 1 .. Len(queue)
      BY <1>2, <3>1 DEF QueueInv, TypeOK
    <3>3. last < queue[1] /\ Gop!Follows(queue[1], last)
      BY <1>2, <3>2 DEF QueueInv, InOrder, ChainIntact, Predecessor, IsKey, Gop!Follows
    <3>4. Gop!Deliver(queue[1])
      BY <3>1, <3>3 DEF Gop!Deliver
    <3> QED
      BY <3>2, <3>4 DEF Gop!Next
  <2>3. CASE NewQueue
    BY <2>3 DEF NewQueue, Gop!Restart, Gop!Next
  <2>4. CASE UNCHANGED vars
    BY <2>4 DEF vars, Gop!vars
  <2> QED
    BY <1>2, <2>1, <2>2, <2>3, <2>4 DEF Next, Gop!Next, Kinds, Gop!Kinds
<1> QED
  BY <1>1, <1>2, QueueInvariant, PTL DEF Spec, ImplementsGopStream, Gop!Spec
=============================================================================
