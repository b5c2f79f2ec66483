------------------------- MODULE StreamServer_proofs -------------------------
(***************************************************************************)
(* For any number of clients, listeners, frames and queued jobs: whatever  *)
(* late events of replaced connections are still in the serial queue, the  *)
(* HELLO comes first, frames stay in order, and one send is in flight.     *)
(***************************************************************************)
EXTENDS StreamServer, TLAPS

-----------------------------------------------------------------------------
(* The inductive invariant.  It is stated of the jobs in the queue: whether*)
(* there is one of the kinds ops with the argument arg, and whether no two *)
(* of these kinds have the same argument.                                  *)

Ops == ConnOps \cup {"stop", "video", "listenerFailed", "listenerReady",
                     "listenerCancelled"}
JobRecords == [op : Ops, arg : Nat]

Among(s, ops, arg) == \E i \in 1 .. Len(s) : s[i].op \in ops /\ s[i].arg = arg
Once(s, ops) ==
    \A i, j \in 1 .. Len(s) :
        s[i].op \in ops /\ s[j].op \in ops /\ s[i].arg = s[j].arg => i = j
FramesInOrder(s) ==
    \A i, j \in 1 .. Len(s) :
        i < j /\ s[i].op = "video" /\ s[j].op = "video" => s[i].arg < s[j].arg

Offers == {"accept"}
Readies == {"ready"}
Ends == {"sent", "sendError"}
Videos == {"video"}

(* The jobs are of connections and frames there are, and accept, ready and *)
(* the completion of a send are queued once.                               *)
JobsInv ==
    /\ jobs \in Seq(JobRecords)
    /\ \A c : Among(jobs, ConnOps, c) => c \in Conns
    /\ \A n : Among(jobs, Videos, n) => n \in 1 .. Len(frames)
    /\ Once(jobs, Offers) /\ Once(jobs, Readies) /\ Once(jobs, Ends)
    /\ FramesInOrder(jobs)

(* How far a connection is, for the framework and in the queue, and what   *)
(* was sent on it.                                                         *)
Life(c) ==
    /\ Among(jobs, Offers, c) => phase[c] = "offered"
    /\ Among(jobs, Readies, c) => phase[c] \in {"ready", "over"} /\ wire[c] = <<>>
    /\ phase[c] \in {"new", "offered"} => connection # c
    /\ phase[c] \in {"new", "offered", "started"} => wire[c] = <<>>
    /\ wire[c] = <<>> => unsent[c] = 0 /\ ~Among(jobs, Ends, c)
    /\ unsent[c] \in {0, 1}
    /\ Among(jobs, Ends, c) => unsent[c] = 0
LifeInv == \A c \in Conns : Life(c)

(* What the server believes of its connection is true.                     *)
CurrentInv ==
    \A c \in Conns : connection = c =>
        /\ connectionReady <=> wire[c] # <<>>
        /\ sendInFlight <=> unsent[c] = 1 \/ Among(jobs, Ends, c)

(* The frames on the wire are older than the pending one, and both are     *)
(* older than those in the queue.                                          *)
OrderInv ==
    /\ \A c \in Conns : \A i \in 1 .. Len(wire[c]) :
           /\ wire[c][i] <= Len(frames)
           /\ connection = c /\ pending # 0 => wire[c][i] < pending
           /\ \A n : Among(jobs, Videos, n) => wire[c][i] < n
    /\ \A n : Among(jobs, Videos, n) => pending < n

-----------------------------------------------------------------------------
(* A queue, when a job is appended and when the oldest is taken.           *)

LEMMA OneMore ==
  ASSUME NEW s \in Seq(JobRecords), NEW op \in Ops, NEW arg \in Nat
  PROVE  LET t == Append(s, Job(op, arg)) IN
         /\ t \in Seq(JobRecords)
         /\ Len(t) = Len(s) + 1 /\ Len(s) \in Nat
         /\ \A i \in 1 .. Len(s) : t[i] = s[i]
         /\ t[Len(s) + 1].op = op /\ t[Len(s) + 1].arg = arg
<1>1. /\ Job(op, arg) \in JobRecords
      /\ Job(op, arg).op = op /\ Job(op, arg).arg = arg
  BY DEF JobRecords, Job
<1> QED
  BY <1>1

LEMMA OneLess ==
  ASSUME NEW s \in Seq(JobRecords), s # <<>>
  PROVE  /\ Head(s) \in JobRecords /\ Head(s) = s[1]
         /\ Tail(s) \in Seq(JobRecords)
         /\ Len(s) \in Nat /\ Len(s) > 0 /\ Len(Tail(s)) = Len(s) - 1
         /\ \A i \in 1 .. Len(Tail(s)) : Tail(s)[i] = s[i + 1]
  OBVIOUS

LEMMA AppendAmong ==
  ASSUME NEW s \in Seq(JobRecords), NEW op \in Ops, NEW arg \in Nat,
         NEW ops, NEW a
  PROVE  Among(Append(s, Job(op, arg)), ops, a)
            <=> Among(s, ops, a) \/ (op \in ops /\ a = arg)
<1> DEFINE t == Append(s, Job(op, arg))
<1>1. /\ Len(t) = Len(s) + 1 /\ Len(s) \in Nat
      /\ \A i \in 1 .. Len(s) : t[i] = s[i]
      /\ t[Len(s) + 1].op = op /\ t[Len(s) + 1].arg = arg
  BY OneMore
<1> HIDE DEF t
<1>2. \A i \in 1 .. Len(t) : i \in 1 .. Len(s) \/ i = Len(s) + 1
  BY <1>1
<1>3. Len(s) + 1 \in 1 .. Len(t) /\ \A i \in 1 .. Len(s) : i \in 1 .. Len(t)
  BY <1>1
<1>4. Among(t, ops, a) <=> Among(s, ops, a) \/ (op \in ops /\ a = arg)
  BY <1>1, <1>2, <1>3, Zenon DEF Among
<1> QED
  BY <1>4 DEF t

LEMMA AppendOnce ==
  ASSUME NEW s \in Seq(JobRecords), NEW op \in Ops, NEW arg \in Nat,
         NEW ops, Once(s, ops), op \in ops => ~Among(s, ops, arg)
  PROVE  Once(Append(s, Job(op, arg)), ops)
<1> DEFINE t == Append(s, Job(op, arg))
<1>1. /\ Len(t) = Len(s) + 1 /\ Len(s) \in Nat
      /\ \A i \in 1 .. Len(s) : t[i] = s[i]
      /\ t[Len(s) + 1].op = op /\ t[Len(s) + 1].arg = arg
  BY OneMore
<1> HIDE DEF t
<1>2. \A i \in 1 .. Len(t) : i \in 1 .. Len(s) \/ i = Len(s) + 1
  BY <1>1
<1>3. Once(t, ops)
  BY <1>1, <1>2, Zenon DEF Among, Once
<1> QED
  BY <1>3 DEF t

LEMMA AppendFrame ==
  ASSUME NEW s \in Seq(JobRecords), NEW op \in Ops, NEW arg \in Nat,
         FramesInOrder(s),
         op = "video" => \A n \in Nat : Among(s, Videos, n) => n < arg
  PROVE  FramesInOrder(Append(s, Job(op, arg)))
<1> DEFINE t == Append(s, Job(op, arg))
<1>1. /\ Len(t) = Len(s) + 1 /\ Len(s) \in Nat
      /\ \A i \in 1 .. Len(s) : t[i] = s[i]
      /\ t[Len(s) + 1].op = op /\ t[Len(s) + 1].arg = arg
  BY OneMore
<1> HIDE DEF t
<1>2. ASSUME NEW i \in 1 .. Len(t), NEW j \in 1 .. Len(t), i < j,
             t[i].op = "video", t[j].op = "video"
      PROVE  t[i].arg < t[j].arg
  <2>1. i \in 1 .. Len(s)
    BY <1>1, <1>2
  <2>2. CASE j \in 1 .. Len(s)
    BY <1>1, <1>2, <2>1, <2>2 DEF FramesInOrder
  <2>3. CASE j = Len(s) + 1
    <3>1. s[i] \in JobRecords
      BY <2>1
    <3>2. s[i].arg \in Nat /\ s[i].op = "video" /\ op = "video"
      BY <1>1, <1>2, <2>1, <2>3, <3>1 DEF JobRecords
    <3>3. Among(s, Videos, s[i].arg)
      BY <2>1, <3>2 DEF Among, Videos
    <3> QED
      BY <1>1, <2>1, <2>3, <3>2, <3>3
  <2> QED
    BY <1>1, <2>2, <2>3
<1> QED
  BY <1>2 DEF FramesInOrder, t

LEMMA TailAmong ==
  ASSUME NEW s \in Seq(JobRecords), s # <<>>, NEW ops, NEW a
  PROVE  /\ Among(Tail(s), ops, a) => Among(s, ops, a)
         /\ Among(s, ops, a) => \/ Among(Tail(s), ops, a)
                                \/ Head(s).op \in ops /\ Head(s).arg = a
<1> DEFINE t == Tail(s)
<1>1. /\ Head(s) = s[1] /\ Len(s) \in Nat /\ Len(s) > 0 /\ Len(t) = Len(s) - 1
      /\ \A i \in 1 .. Len(t) : t[i] = s[i + 1]
  BY OneLess
<1> HIDE DEF t
<1>2. Among(t, ops, a) => Among(s, ops, a)
  <2> SUFFICES ASSUME NEW i \in 1 .. Len(t), t[i].op \in ops, t[i].arg = a
               PROVE  Among(s, ops, a)
    BY DEF Among
  <2>1. i + 1 \in 1 .. Len(s) /\ t[i] = s[i + 1]
    BY <1>1
  <2> QED
    BY <2>1 DEF Among
<1>3. ASSUME Among(s, ops, a)
      PROVE  Among(t, ops, a) \/ (Head(s).op \in ops /\ Head(s).arg = a)
  <2>1. PICK i \in 1 .. Len(s) : s[i].op \in ops /\ s[i].arg = a
    BY <1>3 DEF Among
  <2>2. CASE i = 1
    BY <1>1, <2>1, <2>2
  <2>3. CASE i # 1
    <3>1. i - 1 \in 1 .. Len(t) /\ t[i - 1] = s[(i - 1) + 1] /\ (i - 1) + 1 = i
      BY <1>1, <2>3
    <3> QED
      BY <2>1, <3>1 DEF Among
  <2> QED
    BY <2>2, <2>3
<1> QED
  BY <1>2, <1>3 DEF t

LEMMA TailOnce ==
  ASSUME NEW s \in Seq(JobRecords), s # <<>>, NEW ops, Once(s, ops)
  PROVE  /\ Once(Tail(s), ops)
         /\ Head(s).op \in ops => ~Among(Tail(s), ops, Head(s).arg)
<1> DEFINE t == Tail(s)
<1>1. /\ Head(s) = s[1] /\ Len(s) \in Nat /\ Len(s) > 0 /\ Len(t) = Len(s) - 1
      /\ \A i \in 1 .. Len(t) : t[i] = s[i + 1]
  BY OneLess
<1> HIDE DEF t
<1>2. 1 \in 1 .. Len(s) /\ \A i \in 1 .. Len(t) : i + 1 \in 1 .. Len(s) /\ i + 1 # 1
  BY <1>1
<1>3. \A i, j \in 1 .. Len(t) : i + 1 = j + 1 => i = j
  BY <1>1
<1>4. Once(t, ops)
  BY <1>1, <1>2, <1>3 DEF Once
<1>5. ~(Head(s).op \in ops /\ Among(t, ops, Head(s).arg))
  BY <1>1, <1>2 DEF Once, Among
<1> QED
  BY <1>4, <1>5 DEF t

LEMMA TailFrames ==
  ASSUME NEW s \in Seq(JobRecords), s # <<>>, FramesInOrder(s)
  PROVE  /\ FramesInOrder(Tail(s))
         /\ Head(s).op = "video" =>
              \A n : Among(Tail(s), Videos, n) => Head(s).arg < n
<1> DEFINE t == Tail(s)
<1>1. /\ Head(s) = s[1] /\ Len(s) \in Nat /\ Len(s) > 0 /\ Len(t) = Len(s) - 1
      /\ \A i \in 1 .. Len(t) : t[i] = s[i + 1]
  BY OneLess
<1> HIDE DEF t
<1>2. 1 \in 1 .. Len(s) /\ \A i \in 1 .. Len(t) : i + 1 \in 1 .. Len(s) /\ 1 < i + 1
  BY <1>1
<1>3. \A i, j \in 1 .. Len(t) : i < j => i + 1 < j + 1
  BY <1>1
<1>4. FramesInOrder(t)
  BY <1>1, <1>2, <1>3 DEF FramesInOrder
<1>5. ASSUME Head(s).op = "video", NEW n, Among(t, Videos, n)
      PROVE  Head(s).arg < n
  <2>1. PICK i \in 1 .. Len(t) : t[i].op = "video" /\ t[i].arg = n
    BY <1>5 DEF Among, Videos
  <2> QED
    BY <1>1, <1>2, <1>5, <2>1 DEF FramesInOrder
<1> QED
  BY <1>4, <1>5 DEF t

-----------------------------------------------------------------------------
(* The kinds of jobs.                                                      *)
LEMMA Kind ==
  ASSUME NEW op
  PROVE  /\ op \in Offers <=> op = "accept"
         /\ op \in Readies <=> op = "ready"
         /\ op \in Ends <=> op \in {"sent", "sendError"}
         /\ op \in Videos <=> op = "video"
         /\ op \in ConnOps => op # "video" /\ op \in Ops
         /\ op = "video" => op \notin ConnOps /\ op \in Ops
  BY DEF Offers, Readies, Ends, Videos, ConnOps, Ops

(* What a new job changes.                                                 *)
Queued(op, arg) ==
    \A a : /\ Among(jobs', Offers, a) <=> Among(jobs, Offers, a) \/ (op = "accept" /\ a = arg)
           /\ Among(jobs', Readies, a) <=> Among(jobs, Readies, a) \/ (op = "ready" /\ a = arg)
           /\ Among(jobs', Ends, a) <=> Among(jobs, Ends, a) \/ (op \in {"sent", "sendError"} /\ a = arg)
           /\ Among(jobs', Videos, a) <=> Among(jobs, Videos, a) \/ (op = "video" /\ a = arg)
           /\ Among(jobs', ConnOps, a) <=> Among(jobs, ConnOps, a) \/ (op \in ConnOps /\ a = arg)

LEMMA QueuedJob ==
  ASSUME jobs \in Seq(JobRecords), NEW op \in Ops, NEW arg \in Nat, Async(Job(op, arg))
  PROVE  Queued(op, arg)
<1> SUFFICES ASSUME NEW a
             PROVE  \A ops : Among(jobs', ops, a)
                                <=> Among(jobs, ops, a) \/ (op \in ops /\ a = arg)
  BY Kind DEF Queued
<1> QED
  BY AppendAmong DEF Async

(* A call or an event leaves the queue in order.                           *)
LEMMA QueuedInv ==
  ASSUME JobsInv, NEW op \in Ops, NEW arg \in Nat, Async(Job(op, arg)),
         frames \in Seq(Kinds), frames' \in Seq(Kinds), Len(frames') >= Len(frames),
         op \in ConnOps => arg \in Conns,
         op = "video" => arg = Len(frames) + 1 /\ arg = Len(frames'),
         op = "accept" => ~Among(jobs, Offers, arg),
         op = "ready" => ~Among(jobs, Readies, arg),
         op \in {"sent", "sendError"} => ~Among(jobs, Ends, arg)
  PROVE  JobsInv' /\ Queued(op, arg)
<1>1. Queued(op, arg)
  BY QueuedJob DEF JobsInv
<1>2. jobs' \in Seq(JobRecords)
  BY OneMore DEF JobsInv, Async
<1>3. \A c : Among(jobs', ConnOps, c) => c \in Conns
  BY <1>1, Zenon DEF JobsInv, Queued
<1>4. \A n : Among(jobs', Videos, n) => n \in 1 .. Len(frames')
  <2>1. Len(frames) \in Nat /\ Len(frames') \in Nat
    OBVIOUS
  <2>2. \A n : Among(jobs', Videos, n) =>
            n \in 1 .. Len(frames) \/ (op = "video" /\ n = arg)
    BY <1>1, Zenon DEF JobsInv, Queued
  <2> QED
    BY <2>1, <2>2
<1>5. Once(jobs', Offers) /\ Once(jobs', Readies) /\ Once(jobs', Ends)
  BY AppendOnce, Kind DEF JobsInv, Async
<1>6. FramesInOrder(jobs')
  <2>1. op = "video" => \A n \in Nat : Among(jobs, Videos, n) => n < arg
    <3>1. Len(frames) \in Nat
      OBVIOUS
    <3>2. \A n : Among(jobs, Videos, n) => n \in 1 .. Len(frames)
      BY DEF JobsInv
    <3> QED
      BY <3>1, <3>2
  <2> QED
    BY <2>1, AppendFrame DEF JobsInv, Async
<1> QED
  BY <1>1, <1>2, <1>3, <1>4, <1>5, <1>6, Zenon DEF JobsInv

(* What is left of the queue when the oldest job is taken.                 *)
Taken(op, arg) ==
    \A a : /\ Among(jobs', Offers, a) <=> Among(jobs, Offers, a) /\ ~(op = "accept" /\ a = arg)
           /\ Among(jobs', Readies, a) <=> Among(jobs, Readies, a) /\ ~(op = "ready" /\ a = arg)
           /\ Among(jobs', Ends, a)
                <=> Among(jobs, Ends, a) /\ ~(op \in {"sent", "sendError"} /\ a = arg)
           /\ Among(jobs', Videos, a) => Among(jobs, Videos, a)
           /\ Among(jobs', Videos, a) /\ op = "video" => arg < a

LEMMA TakenJob ==
  ASSUME JobsInv, jobs # <<>>, jobs' = Tail(jobs), frames' = frames,
         NEW op, NEW arg, op = Head(jobs).op, arg = Head(jobs).arg
  PROVE  /\ JobsInv' /\ Taken(op, arg)
         /\ op \in Ops /\ arg \in Nat
         /\ op \in ConnOps => arg \in Conns
         /\ op = "video" => arg \in 1 .. Len(frames)
         /\ op = "accept" => Among(jobs, Offers, arg)
         /\ op = "ready" => Among(jobs, Readies, arg)
         /\ op \in {"sent", "sendError"} => Among(jobs, Ends, arg)
         /\ op = "video" => Among(jobs, Videos, arg)
<1>1. /\ jobs \in Seq(JobRecords)
      /\ Once(jobs, Offers) /\ Once(jobs, Readies) /\ Once(jobs, Ends)
      /\ FramesInOrder(jobs)
  BY DEF JobsInv
<1>2. /\ Head(jobs) \in JobRecords /\ Head(jobs) = jobs[1] /\ 1 \in 1 .. Len(jobs)
      /\ jobs' \in Seq(JobRecords)
  BY <1>1, OneLess
<1>3. op \in Ops /\ arg \in Nat
  BY <1>2 DEF JobRecords
<1>4. \A ops : op \in ops => Among(jobs, ops, arg)
  BY <1>2, Zenon DEF Among
<1>5. \A ops, a : /\ Among(jobs', ops, a) => Among(jobs, ops, a)
                  /\ Among(jobs, ops, a) => Among(jobs', ops, a) \/ (op \in ops /\ arg = a)
  BY <1>1, TailAmong
<1>6. \A ops : Once(jobs, ops) => /\ Once(jobs', ops)
                                  /\ op \in ops => ~Among(jobs', ops, arg)
  BY <1>1, TailOnce
<1>7. /\ FramesInOrder(jobs')
      /\ op = "video" => \A n : Among(jobs', Videos, n) => arg < n
  BY <1>1, TailFrames
<1>8. Taken(op, arg)
  BY <1>1, <1>5, <1>6, <1>7, Kind, Zenon DEF Taken
<1>9. JobsInv'
  BY <1>1, <1>2, <1>5, <1>6, <1>7, Zenon DEF JobsInv
<1>10. /\ op \in ConnOps => arg \in Conns
       /\ op = "video" => arg \in 1 .. Len(frames)
  BY <1>4, Kind, Zenon DEF JobsInv
<1> QED
  BY <1>3, <1>4, <1>8, <1>9, <1>10, Kind, Zenon

-----------------------------------------------------------------------------
(* The invariant, and that it holds at the start.                          *)
ServerInv ==
    /\ TypeOK /\ Len(frames) <= MaxFrames
    /\ JobsInv /\ LifeInv /\ CurrentInv /\ OrderInv
    /\ HelloFirst /\ WireInOrder
    /\ PendingHasSend /\ ClientIsOwned /\ ControlNotMixed

LEMMA InitServerInv == Init => ServerInv
<1> SUFFICES ASSUME Init PROVE ServerInv
  OBVIOUS
<1>1. \A ops, a : ~Among(jobs, ops, a)
  BY DEF Init, Among
<1>2. /\ frames = <<>> /\ Len(frames) = 0 /\ frames \in Seq(Kinds)
      /\ 0 <= MaxFrames /\ MaxFrames \in Nat
  BY ServerAssumption DEF Init
<1>3. TypeOK
  <2>1. \A c \in Conns : wire[c] = <<>> /\ wire[c] \in Seq(0 .. MaxFrames)
    BY DEF Init
  <2>2. wire \in [Conns -> Seq(0 .. MaxFrames)]
    BY <2>1 DEF Init
  <2>3. /\ phase \in [Conns -> {"new", "offered", "started", "ready", "over"}]
        /\ unsent \in [Conns -> Nat] /\ receiving \in [Conns -> BOOLEAN]
    BY DEF Init
  <2>4. listeners \in [created : 0 .. MaxListeners,
                       starting : SUBSET (1 .. MaxListeners),
                       live : SUBSET (1 .. MaxListeners),
                       cancelled : SUBSET (1 .. MaxListeners)]
    BY ServerAssumption DEF Init
  <2>5. \A i \in 1 .. Len(jobs) : jobs[i].arg \in Nat
    BY DEF Init
  <2>6. /\ listener \in 0 .. MaxListeners /\ connection \in 0 .. MaxConns
        /\ controlBuffer \in 0 .. MaxConns
    BY ServerAssumption DEF Init
  <2>8. /\ connectionReady \in BOOLEAN /\ sendInFlight \in BOOLEAN
        /\ connectionReady => connection # 0
        /\ keyRequested \in BOOLEAN
    BY Zenon DEF Init
  <2>7. pending \in 0 .. Len(frames)
    BY <1>2 DEF Init
  <2> QED
    BY <1>2, <2>2, <2>3, <2>4, <2>5, <2>6, <2>7, <2>8,
       Zenon DEF TypeOK
<1>4. JobsInv
  BY <1>1 DEF Init, JobsInv, Once, FramesInOrder
<1>5. LifeInv /\ CurrentInv /\ OrderInv
  BY <1>1 DEF Init, LifeInv, Life, CurrentInv, OrderInv, Conns
<1>6. HelloFirst /\ WireInOrder
  BY DEF Init, HelloFirst, WireInOrder
<1>7. PendingHasSend /\ ClientIsOwned /\ ControlNotMixed
  BY DEF Init, PendingHasSend, ClientIsOwned, ControlNotMixed
<1> QED
  BY <1>2, <1>3, <1>4, <1>5, <1>6, <1>7 DEF ServerInv

-----------------------------------------------------------------------------
(* A packet is handed to the framework.                                    *)
LEMMA SendEffect ==
  ASSUME TypeOK, connection \in Conns, NEW packet \in 0 .. MaxFrames, Send(packet)
  PROVE  LET s == wire[connection]  t == wire'[connection] IN
         /\ wire' \in [Conns -> Seq(0 .. MaxFrames)] /\ unsent' \in [Conns -> Nat]
         /\ unsent'[connection] = unsent[connection] + 1
         /\ \A d \in Conns : d # connection =>
               wire'[d] = wire[d] /\ unsent'[d] = unsent[d]
         /\ Len(s) \in Nat /\ Len(t) = Len(s) + 1 /\ t # <<>>
         /\ \A i \in 1 .. Len(s) : t[i] = s[i] /\ s[i] \in Nat
         /\ t[Len(s) + 1] = packet
<1> DEFINE s == wire[connection]
           t == wire'[connection]
<1>1. /\ wire \in [Conns -> Seq(0 .. MaxFrames)] /\ unsent \in [Conns -> Nat]
      /\ wire' = [wire EXCEPT ![connection] = Append(s, packet)]
      /\ unsent' = [unsent EXCEPT ![connection] = @ + 1]
  BY DEF TypeOK, Send
<1>2. s \in Seq(0 .. MaxFrames) /\ Append(s, packet) \in Seq(0 .. MaxFrames)
  BY <1>1
<1>3. t = Append(s, packet)
  BY <1>1
<1>4. wire' \in [Conns -> Seq(0 .. MaxFrames)] /\ unsent' \in [Conns -> Nat]
  BY <1>1, <1>2
<1>5. \A d \in Conns : d # connection =>
            wire'[d] = wire[d] /\ unsent'[d] = unsent[d]
  BY <1>1
<1>6. unsent'[connection] = unsent[connection] + 1
  BY <1>1
<1>7. /\ Len(s) \in Nat /\ Len(t) = Len(s) + 1 /\ t # <<>>
      /\ \A i \in 1 .. Len(s) : t[i] = s[i] /\ s[i] \in Nat
      /\ t[Len(s) + 1] = packet
  <2> HIDE DEF s, t
  <2> QED
    BY <1>2, <1>3, ServerAssumption
<1> QED
  BY <1>4, <1>5, <1>6, <1>7

(* The HELLO on a new wire, a newer frame on another.                      *)
LEMMA SendInOrder ==
  ASSUME TypeOK, connection \in Conns, NEW packet \in 0 .. MaxFrames, Send(packet),
         HelloFirst, WireInOrder,
         packet = Hello <=> wire[connection] = <<>>,
         \A i \in 1 .. Len(wire[connection]) : wire[connection][i] < packet
  PROVE  HelloFirst' /\ WireInOrder'
<1> DEFINE s == wire[connection]
           t == wire'[connection]
<1>1. /\ \A d \in Conns : d # connection => wire'[d] = wire[d]
      /\ Len(s) \in Nat /\ Len(t) = Len(s) + 1
      /\ \A i \in 1 .. Len(s) : t[i] = s[i] /\ s[i] \in Nat
      /\ t[Len(s) + 1] = packet
  BY SendEffect
<1>2. /\ \A i \in 1 .. Len(s) : s[i] = 0 <=> i = 1
      /\ \A i, j \in 1 .. Len(s) : i < j => s[i] < s[j]
      /\ \A i \in 1 .. Len(s) : s[i] < packet
      /\ packet = 0 <=> Len(s) = 0
  <2>1. s \in Seq(0 .. MaxFrames)
    BY DEF TypeOK
  <2>2. s = <<>> <=> Len(s) = 0
    BY <2>1
  <2> QED
    BY <2>2 DEF HelloFirst, WireInOrder, Hello
<1>3. /\ \A i \in 1 .. Len(t) : t[i] = 0 <=> i = 1
      /\ \A i, j \in 1 .. Len(t) : i < j => t[i] < t[j]
  <2> HIDE DEF s, t
  <2> QED
    BY <1>1, <1>2
<1>4. \A d \in Conns : \/ d = connection
                       \/ /\ \A i \in 1 .. Len(wire'[d]) : wire'[d][i] = 0 <=> i = 1
                          /\ \A i, j \in 1 .. Len(wire'[d]) :
                                i < j => wire'[d][i] < wire'[d][j]
  BY <1>1 DEF HelloFirst, WireInOrder, Hello
<1>5. \A d \in Conns : /\ \A i \in 1 .. Len(wire'[d]) : wire'[d][i] = 0 <=> i = 1
                       /\ \A i, j \in 1 .. Len(wire'[d]) :
                             i < j => wire'[d][i] < wire'[d][j]
  BY <1>3, <1>4, Zenon
<1> QED
  BY <1>5 DEF HelloFirst, WireInOrder, Hello

-----------------------------------------------------------------------------
(* Calls and events.  They append a job, and change neither the state of   *)
(* the server nor what was sent.                                           *)
Phases == {"new", "offered", "started", "ready", "over"}
Listeners == [created : 0 .. MaxListeners,
              starting : SUBSET (1 .. MaxListeners),
              live : SUBSET (1 .. MaxListeners),
              cancelled : SUBSET (1 .. MaxListeners)]

LEMMA ArgsAreNat ==
  ASSUME NEW s \in Seq(JobRecords)
  PROVE  \A i \in 1 .. Len(s) : s[i].arg \in Nat
<1> SUFFICES ASSUME NEW i \in 1 .. Len(s) PROVE s[i].arg \in Nat
  OBVIOUS
<1>1. s[i] \in JobRecords
  OBVIOUS
<1> QED
  BY <1>1 DEF JobRecords

LEMMA Appended ==
  ASSUME ServerInv, NEW op \in Ops, NEW arg \in Nat, JobsInv', Queued(op, arg),
         UNCHANGED <<listener, stateVars, wire>>, keyRequested' \in BOOLEAN,
         frames' \in Seq(Kinds), Len(frames') >= Len(frames),
         Len(frames') <= MaxFrames,
         op = "video" => arg = Len(frames) + 1,
         listeners' \in Listeners, phase' \in [Conns -> Phases],
         unsent' \in [Conns -> Nat], receiving' \in [Conns -> BOOLEAN],
         LifeInv', CurrentInv', ClientIsOwned'
  PROVE  ServerInv'
<1>1. Len(frames) \in Nat /\ Len(frames') \in Nat /\ frames \in Seq(Kinds)
  BY DEF ServerInv, TypeOK
<1>2. TypeOK'
  <2>1. (\A i \in 1 .. Len(jobs) : jobs[i].arg \in Nat)'
    BY ArgsAreNat DEF JobsInv
  <2>2. pending' \in 0 .. Len(frames')
    BY <1>1 DEF ServerInv, TypeOK, stateVars
  <2>3. /\ (listener \in 0 .. MaxListeners /\ connection \in 0 .. MaxConns)'
        /\ (connectionReady \in BOOLEAN /\ sendInFlight \in BOOLEAN)'
        /\ (connectionReady => connection # 0)'
        /\ (controlBuffer \in 0 .. MaxConns)'
        /\ (wire \in [Conns -> Seq(0 .. MaxFrames)])'
    BY DEF ServerInv, TypeOK, stateVars
  <2> QED
    BY <2>1, <2>2, <2>3, Zenon DEF TypeOK, Listeners, Phases
<1>3. HelloFirst' /\ WireInOrder' /\ PendingHasSend' /\ ControlNotMixed'
  BY Zenon DEF ServerInv, HelloFirst, WireInOrder, PendingHasSend, ControlNotMixed,
            stateVars
<1>4. OrderInv'
  <2>1. /\ wire' = wire /\ connection' = connection /\ pending' = pending
        /\ pending \in 0 .. Len(frames) /\ wire \in [Conns -> Seq(0 .. MaxFrames)]
    BY DEF ServerInv, TypeOK, stateVars
  <2>2. \A n : Among(jobs', Videos, n) => Among(jobs, Videos, n) \/ n = Len(frames) + 1
    BY Zenon DEF Queued
  <2>3. \A c \in Conns : \A i \in 1 .. Len(wire[c]) :
            /\ wire[c][i] \in Nat /\ wire[c][i] <= Len(frames)
            /\ connection = c /\ pending # 0 => wire[c][i] < pending
            /\ \A n : Among(jobs, Videos, n) => wire[c][i] < n
    BY <2>1, ServerAssumption DEF ServerInv, OrderInv
  <2>4. \A n : Among(jobs, Videos, n) => pending < n
    BY DEF ServerInv, OrderInv
  <2>5. ASSUME NEW c \in Conns, NEW i \in 1 .. Len(wire[c])
        PROVE  /\ wire[c][i] <= Len(frames')
               /\ connection = c /\ pending # 0 => wire[c][i] < pending
               /\ \A n : Among(jobs', Videos, n) => wire[c][i] < n
    BY <1>1, <2>2, <2>3
  <2>6. \A n : Among(jobs', Videos, n) => pending < n
    BY <1>1, <2>1, <2>2, <2>4
  <2> QED
    BY <2>1, <2>5, <2>6, Zenon DEF OrderInv
<1> QED
  BY <1>2, <1>3, <1>4, Zenon DEF ServerInv

(* An event of another kind says nothing about how far a connection is.    *)
LEMMA LifeKept ==
  ASSUME ServerInv, NEW op, NEW arg, Queued(op, arg),
         op \notin {"accept", "ready", "sent", "sendError"},
         UNCHANGED <<stateVars, phase, unsent, wire>>
  PROVE  LifeInv' /\ CurrentInv' /\ ClientIsOwned'
<1>1. /\ connection' = connection /\ connectionReady' = connectionReady
      /\ sendInFlight' = sendInFlight /\ phase' = phase /\ unsent' = unsent
      /\ wire' = wire
  BY DEF stateVars
<1>2. \A a : /\ Among(jobs', Offers, a) <=> Among(jobs, Offers, a)
             /\ Among(jobs', Readies, a) <=> Among(jobs, Readies, a)
             /\ Among(jobs', Ends, a) <=> Among(jobs, Ends, a)
  <2>1. op # "accept" /\ op # "ready" /\ op \notin {"sent", "sendError"}
    OBVIOUS
  <2> QED
    BY <2>1, Zenon DEF Queued
<1>3. LifeInv /\ CurrentInv /\ ClientIsOwned
  BY DEF ServerInv
<1>4. LifeInv'
  BY <1>1, <1>2, <1>3, Zenon DEF LifeInv, Life
<1>5. CurrentInv'
  BY <1>1, <1>2, <1>3, Zenon DEF CurrentInv
<1>6. ClientIsOwned'
  BY <1>1, <1>3, Zenon DEF ClientIsOwned
<1> QED
  BY <1>4, <1>5, <1>6

(* The types an event depends on.                                          *)
LEMMA EventTypes ==
  ASSUME ServerInv
  PROVE  /\ frames \in Seq(Kinds) /\ Len(frames) \in Nat /\ Len(frames) <= MaxFrames
         /\ keyRequested \in BOOLEAN /\ listeners \in Listeners
         /\ phase \in [Conns -> Phases] /\ unsent \in [Conns -> Nat]
         /\ receiving \in [Conns -> BOOLEAN]
         /\ Conns \subseteq Nat
<1>1. TypeOK /\ Len(frames) <= MaxFrames
  BY DEF ServerInv
<1>2. /\ frames \in Seq(Kinds) /\ keyRequested \in BOOLEAN /\ listeners \in Listeners
      /\ phase \in [Conns -> Phases] /\ unsent \in [Conns -> Nat]
      /\ receiving \in [Conns -> BOOLEAN]
  BY <1>1, Zenon DEF TypeOK, Listeners, Phases
<1>3. Len(frames) \in Nat
  BY <1>2
<1>4. Conns \subseteq Nat
  BY ServerAssumption DEF Conns
<1> QED
  BY <1>1, <1>2, <1>3, <1>4

LEMMA StopStep == ServerInv /\ Stop => ServerInv'
<1> SUFFICES ASSUME ServerInv, Stop PROVE ServerInv'
  OBVIOUS
<1>1. /\ Async(Job("stop", 0)) /\ "stop" \in Ops /\ 0 \in Nat
      /\ UNCHANGED <<listener, stateVars, wire>> /\ keyRequested' = keyRequested
      /\ frames' = frames /\ listeners' = listeners /\ phase' = phase
      /\ unsent' = unsent /\ receiving' = receiving
  BY DEF Stop, Ops, encoderVars, frameworkVars
<1>2. JobsInv' /\ Queued("stop", 0)
  BY <1>1, QueuedInv, EventTypes DEF ServerInv, ConnOps
<1>3. LifeInv' /\ CurrentInv' /\ ClientIsOwned'
  BY <1>1, <1>2, LifeKept
<1>4. /\ frames' \in Seq(Kinds) /\ Len(frames') >= Len(frames)
      /\ Len(frames') <= MaxFrames /\ keyRequested' \in BOOLEAN
      /\ listeners' \in Listeners /\ phase' \in [Conns -> Phases]
      /\ unsent' \in [Conns -> Nat] /\ receiving' \in [Conns -> BOOLEAN]
  BY <1>1, EventTypes
<1> QED
  BY <1>1, <1>2, <1>3, <1>4, Appended

LEMMA OutputStep ==
  ASSUME ServerInv, NEW kind \in Kinds, Output(kind) PROVE ServerInv'
<1>1. /\ Async(Job("video", Len(frames'))) /\ frames' = Append(frames, kind)
      /\ Len(frames) < MaxFrames
      /\ UNCHANGED <<listener, stateVars, wire>>
      /\ listeners' = listeners /\ phase' = phase
      /\ unsent' = unsent /\ receiving' = receiving
  BY DEF Output, frameworkVars
<1>2. /\ frames' \in Seq(Kinds) /\ Len(frames') = Len(frames) + 1
      /\ Len(frames') \in Nat /\ Len(frames') >= Len(frames) /\ Len(frames') <= MaxFrames
  BY <1>1, EventTypes, ServerAssumption
<1>3. keyRequested' \in BOOLEAN
  BY Zenon DEF Output
<1>4. "video" \in Ops /\ "video" \notin ConnOps
  BY DEF Ops, ConnOps
<1>5. JobsInv' /\ Queued("video", Len(frames'))
  BY <1>1, <1>2, <1>4, QueuedInv, EventTypes DEF ServerInv
<1>6. LifeInv' /\ CurrentInv' /\ ClientIsOwned'
  BY <1>1, <1>5, LifeKept
<1> QED
  BY <1>1, <1>2, <1>3, <1>4, <1>5, <1>6, EventTypes, Appended

LEMMA ListenerFailsStep ==
  ASSUME ServerInv, NEW l \in 1 .. MaxListeners, ListenerFails(l),
         UNCHANGED <<phase, unsent, receiving>>
  PROVE  ServerInv'
<1>1. /\ Async(Job("listenerFailed", l)) /\ l \in Nat
      /\ "listenerFailed" \in Ops /\ "listenerFailed" \notin ConnOps
      /\ UNCHANGED <<listener, stateVars, wire>> /\ keyRequested' = keyRequested
      /\ frames' = frames
  BY ServerAssumption DEF ListenerFails, Event, Ops, ConnOps, encoderVars
<1>2. listeners' \in Listeners
  BY EventTypes DEF ListenerFails, Listeners
<1>3. JobsInv' /\ Queued("listenerFailed", l)
  BY <1>1, QueuedInv, EventTypes DEF ServerInv
<1>4. LifeInv' /\ CurrentInv' /\ ClientIsOwned'
  BY <1>1, <1>3, LifeKept
<1> QED
  BY <1>1, <1>2, <1>3, <1>4, EventTypes, Appended

LEMMA ReceivesStep ==
  ASSUME ServerInv, NEW c \in Conns, Receives(c), UNCHANGED listeners
  PROVE  ServerInv'
<1>1. PICK op \in {"half", "line", "badLine", "closed", "failed"} : Event(op, c)
  BY DEF Receives
<1>2. /\ Async(Job(op, c)) /\ c \in Nat /\ op \in Ops
      /\ op \notin {"accept", "ready", "sent", "sendError"} /\ op # "video"
      /\ UNCHANGED <<listener, stateVars, wire>> /\ keyRequested' = keyRequested
      /\ frames' = frames /\ phase' = phase /\ unsent' = unsent
  BY <1>1, EventTypes DEF Receives, Event, Ops, ConnOps, encoderVars
<1>3. receiving' \in [Conns -> BOOLEAN]
  BY EventTypes DEF Receives
<1>4. JobsInv' /\ Queued(op, c)
  BY <1>2, QueuedInv, EventTypes DEF ServerInv
<1>5. LifeInv' /\ CurrentInv' /\ ClientIsOwned'
  BY <1>2, <1>4, LifeKept
<1> QED
  BY <1>2, <1>3, <1>4, <1>5, EventTypes, Appended

(* The events that say how far a connection is.                            *)
LEMMA ConnectsStep ==
  ASSUME ServerInv, NEW c \in Conns, Connects(c), UNCHANGED listeners
  PROVE  ServerInv'
<1>1. /\ Async(Job("accept", c)) /\ c \in Nat /\ "accept" \in Ops
      /\ "accept" # "video" /\ "accept" # "ready"
      /\ "accept" \notin {"sent", "sendError"}
      /\ UNCHANGED <<listener, stateVars, wire>> /\ keyRequested' = keyRequested
      /\ frames' = frames /\ unsent' = unsent /\ receiving' = receiving
      /\ phase[c] = "new" /\ phase' = [phase EXCEPT ![c] = "offered"]
  BY EventTypes DEF Connects, Event, Ops, ConnOps, encoderVars
<1>2. ~Among(jobs, Offers, c) /\ ~Among(jobs, Readies, c)
  BY <1>1 DEF ServerInv, LifeInv, Life
<1>3. JobsInv' /\ Queued("accept", c)
  BY <1>1, <1>2, QueuedInv, EventTypes DEF ServerInv
<1>4. /\ phase' \in [Conns -> Phases] /\ phase'[c] = "offered"
      /\ \A d \in Conns : d # c => phase'[d] = phase[d]
  BY <1>1, EventTypes DEF Phases
<1>5. /\ connection' = connection /\ connectionReady' = connectionReady
      /\ sendInFlight' = sendInFlight /\ wire' = wire
  BY <1>1 DEF stateVars
<1>6. LifeInv'
  <2> SUFFICES ASSUME NEW d \in Conns PROVE Life(d)'
    BY Zenon DEF LifeInv
  <2>1. /\ Among(jobs', Offers, d) <=> Among(jobs, Offers, d) \/ d = c
        /\ Among(jobs', Readies, d) <=> Among(jobs, Readies, d)
        /\ Among(jobs', Ends, d) <=> Among(jobs, Ends, d)
    BY <1>1, <1>3, Zenon DEF Queued
  <2> QED
    BY <1>1, <1>2, <1>4, <1>5, <2>1 DEF ServerInv, LifeInv, Life
<1>7. CurrentInv'
  <2>1. \A d : Among(jobs', Ends, d) <=> Among(jobs, Ends, d)
    BY <1>1, <1>3, Zenon DEF Queued
  <2> QED
    BY <1>1, <1>5, <2>1, Zenon DEF ServerInv, CurrentInv
<1>8. ClientIsOwned'
  BY <1>4, <1>5 DEF ServerInv, ClientIsOwned
<1> QED
  BY <1>1, <1>3, <1>4, <1>6, <1>7, <1>8, EventTypes, Appended

LEMMA GetsReadyStep ==
  ASSUME ServerInv, NEW c \in Conns, GetsReady(c), UNCHANGED listeners
  PROVE  ServerInv'
<1>1. /\ Async(Job("ready", c)) /\ c \in Nat /\ "ready" \in Ops
      /\ "ready" # "video" /\ "ready" # "accept"
      /\ "ready" \notin {"sent", "sendError"}
      /\ UNCHANGED <<listener, stateVars, wire>> /\ keyRequested' = keyRequested
      /\ frames' = frames /\ unsent' = unsent /\ receiving' = receiving
      /\ phase[c] = "started" /\ phase' = [phase EXCEPT ![c] = "ready"]
  BY EventTypes DEF GetsReady, Event, Ops, ConnOps, encoderVars
<1>2. ~Among(jobs, Offers, c) /\ ~Among(jobs, Readies, c) /\ wire[c] = <<>>
  BY <1>1 DEF ServerInv, LifeInv, Life
<1>3. JobsInv' /\ Queued("ready", c)
  BY <1>1, <1>2, QueuedInv, EventTypes DEF ServerInv
<1>4. /\ phase' \in [Conns -> Phases] /\ phase'[c] = "ready"
      /\ \A d \in Conns : d # c => phase'[d] = phase[d]
  BY <1>1, EventTypes DEF Phases
<1>5. /\ connection' = connection /\ connectionReady' = connectionReady
      /\ sendInFlight' = sendInFlight /\ wire' = wire
  BY <1>1 DEF stateVars
<1>6. LifeInv'
  <2> SUFFICES ASSUME NEW d \in Conns PROVE Life(d)'
    BY Zenon DEF LifeInv
  <2>1. /\ Among(jobs', Offers, d) <=> Among(jobs, Offers, d)
        /\ Among(jobs', Readies, d) <=> Among(jobs, Readies, d) \/ d = c
        /\ Among(jobs', Ends, d) <=> Among(jobs, Ends, d)
    BY <1>1, <1>3, Zenon DEF Queued
  <2> QED
    BY <1>1, <1>2, <1>4, <1>5, <2>1 DEF ServerInv, LifeInv, Life
<1>7. CurrentInv'
  <2>1. \A d : Among(jobs', Ends, d) <=> Among(jobs, Ends, d)
    BY <1>1, <1>3, Zenon DEF Queued
  <2> QED
    BY <1>1, <1>5, <2>1, Zenon DEF ServerInv, CurrentInv
<1>8. ClientIsOwned'
  BY <1>1, <1>4, <1>5 DEF ServerInv, ClientIsOwned
<1> QED
  BY <1>1, <1>3, <1>4, <1>6, <1>7, <1>8, EventTypes, Appended

LEMMA FailsStep ==
  ASSUME ServerInv, NEW c \in Conns, Fails(c), UNCHANGED listeners
  PROVE  ServerInv'
<1>1. /\ Async(Job("failed", c)) /\ c \in Nat /\ "failed" \in Ops
      /\ "failed" # "video" /\ "failed" # "accept" /\ "failed" # "ready"
      /\ "failed" \notin {"sent", "sendError"}
      /\ UNCHANGED <<listener, stateVars, wire>> /\ keyRequested' = keyRequested
      /\ frames' = frames /\ unsent' = unsent /\ receiving' = receiving
      /\ phase[c] \in {"started", "ready"} /\ phase' = [phase EXCEPT ![c] = "over"]
  BY EventTypes DEF Fails, Event, Ops, ConnOps, encoderVars
<1>2. ~Among(jobs, Offers, c)
  BY <1>1 DEF ServerInv, LifeInv, Life
<1>3. JobsInv' /\ Queued("failed", c)
  BY <1>1, QueuedInv, EventTypes DEF ServerInv
<1>4. /\ phase' \in [Conns -> Phases] /\ phase'[c] = "over"
      /\ \A d \in Conns : d # c => phase'[d] = phase[d]
  BY <1>1, EventTypes DEF Phases
<1>5. /\ connection' = connection /\ connectionReady' = connectionReady
      /\ sendInFlight' = sendInFlight /\ wire' = wire
  BY <1>1 DEF stateVars
<1>6. LifeInv'
  <2> SUFFICES ASSUME NEW d \in Conns PROVE Life(d)'
    BY Zenon DEF LifeInv
  <2>1. /\ Among(jobs', Offers, d) <=> Among(jobs, Offers, d)
        /\ Among(jobs', Readies, d) <=> Among(jobs, Readies, d)
        /\ Among(jobs', Ends, d) <=> Among(jobs, Ends, d)
    BY <1>1, <1>3, Zenon DEF Queued
  <2> QED
    BY <1>1, <1>2, <1>4, <1>5, <2>1 DEF ServerInv, LifeInv, Life
<1>7. CurrentInv'
  <2>1. \A d : Among(jobs', Ends, d) <=> Among(jobs, Ends, d)
    BY <1>1, <1>3, Zenon DEF Queued
  <2> QED
    BY <1>1, <1>5, <2>1, Zenon DEF ServerInv, CurrentInv
<1>8. ClientIsOwned'
  BY <1>1, <1>4, <1>5 DEF ServerInv, ClientIsOwned
<1> QED
  BY <1>1, <1>3, <1>4, <1>6, <1>7, <1>8, EventTypes, Appended

LEMMA CompletesStep ==
  ASSUME ServerInv, NEW c \in Conns, Completes(c), UNCHANGED listeners
  PROVE  ServerInv'
<1>1. PICK op \in {"sent", "sendError"} : Event(op, c)
  BY DEF Completes
<1>2. /\ Async(Job(op, c)) /\ c \in Nat /\ op \in Ops
      /\ op # "video" /\ op # "accept" /\ op # "ready"
      /\ UNCHANGED <<listener, stateVars, wire>> /\ keyRequested' = keyRequested
      /\ frames' = frames /\ phase' = phase /\ receiving' = receiving
  BY <1>1, EventTypes DEF Completes, Event, Ops, ConnOps, encoderVars
<1>3. /\ unsent[c] = 1 /\ unsent'[c] = 0 /\ unsent' \in [Conns -> Nat]
      /\ \A d \in Conns : d # c => unsent'[d] = unsent[d]
  BY EventTypes DEF Completes, ServerInv, LifeInv, Life
<1>4. ~Among(jobs, Ends, c) /\ wire[c] # <<>>
  BY <1>3 DEF ServerInv, LifeInv, Life
<1>5. JobsInv' /\ Queued(op, c)
  BY <1>2, <1>4, QueuedInv, EventTypes DEF ServerInv
<1>6. /\ connection' = connection /\ connectionReady' = connectionReady
      /\ sendInFlight' = sendInFlight /\ wire' = wire
  BY <1>2 DEF stateVars
<1>7. \A d : /\ Among(jobs', Offers, d) <=> Among(jobs, Offers, d)
             /\ Among(jobs', Readies, d) <=> Among(jobs, Readies, d)
             /\ Among(jobs', Ends, d) <=> Among(jobs, Ends, d) \/ d = c
  BY <1>2, <1>5, Zenon DEF Queued
<1>8. LifeInv'
  <2> SUFFICES ASSUME NEW d \in Conns PROVE Life(d)'
    BY Zenon DEF LifeInv
  <2> QED
    BY <1>2, <1>3, <1>4, <1>6, <1>7 DEF ServerInv, LifeInv, Life
<1>9. CurrentInv'
  BY <1>3, <1>4, <1>6, <1>7 DEF ServerInv, CurrentInv
<1>10. ClientIsOwned'
  BY <1>2, <1>6, Zenon DEF ServerInv, ClientIsOwned
<1> QED
  BY <1>2, <1>3, <1>5, <1>8, <1>9, <1>10, EventTypes, Appended

(* What only the listeners, or the flag of the encoder, change.            *)
LEMMA ServerKept ==
  ASSUME ServerInv, UNCHANGED <<jobs, stateVars, frames, frameworkVars>>,
         listener' \in 0 .. MaxListeners, listeners' \in Listeners,
         keyRequested' \in BOOLEAN
  PROVE  ServerInv'
<1>1. /\ jobs' = jobs /\ frames' = frames
      /\ connection' = connection /\ connectionReady' = connectionReady
      /\ sendInFlight' = sendInFlight /\ pending' = pending
      /\ controlBuffer' = controlBuffer
      /\ phase' = phase /\ unsent' = unsent /\ receiving' = receiving /\ wire' = wire
  BY DEF stateVars, frameworkVars
<1>2. TypeOK'
  BY <1>1, Zenon DEF ServerInv, TypeOK, Listeners
<1>3. Len(frames') <= MaxFrames /\ JobsInv'
  BY <1>1, Zenon DEF ServerInv, JobsInv
<1>4. LifeInv' /\ CurrentInv' /\ OrderInv'
  BY <1>1, Zenon DEF ServerInv, LifeInv, Life, CurrentInv, OrderInv
<1>5. HelloFirst' /\ WireInOrder' /\ PendingHasSend' /\ ClientIsOwned' /\ ControlNotMixed'
  BY <1>1, Zenon DEF ServerInv, HelloFirst, WireInOrder, PendingHasSend,
                     ClientIsOwned, ControlNotMixed
<1> QED
  BY <1>2, <1>3, <1>4, <1>5, Zenon DEF ServerInv

LEMMA StartStep == ServerInv /\ Start => ServerInv'
<1> SUFFICES ASSUME ServerInv, Start PROVE ServerInv'
  OBVIOUS
<1>1. /\ UNCHANGED <<jobs, stateVars, frames, frameworkVars>>
      /\ keyRequested' = keyRequested
      /\ listeners.created < MaxListeners /\ listener' = listeners.created + 1
      /\ listeners' = [listeners EXCEPT !.created = listener',
                                        !.starting = @ \cup {listener'},
                                        !.live = @ \cup {listener'}]
  BY DEF Start, encoderVars
<1>2. listener' \in 0 .. MaxListeners /\ listener' \in 1 .. MaxListeners
  BY <1>1, EventTypes, ServerAssumption DEF Listeners
<1>3. listeners' \in Listeners
  BY <1>1, <1>2, EventTypes DEF Listeners
<1> QED
  BY <1>1, <1>2, <1>3, EventTypes, ServerKept

LEMMA EncodeFailsStep == ServerInv /\ EncodeFails => ServerInv'
<1> SUFFICES ASSUME ServerInv, EncodeFails PROVE ServerInv'
  OBVIOUS
<1>1. /\ UNCHANGED <<jobs, stateVars, frames, frameworkVars>>
      /\ listener' = listener /\ listeners' = listeners /\ keyRequested' = FALSE
  BY DEF EncodeFails
<1>2. listener \in 0 .. MaxListeners
  BY DEF ServerInv, TypeOK
<1> QED
  BY <1>1, <1>2, EventTypes, ServerKept

-----------------------------------------------------------------------------
(* Jobs.  The types, when the oldest job was run.                          *)
LEMMA RunTypes ==
  ASSUME ServerInv, JobsInv', frames' = frames,
         listener' \in 0 .. MaxListeners, listeners' \in Listeners,
         keyRequested' \in BOOLEAN, connection' \in 0 .. MaxConns,
         connectionReady' \in BOOLEAN, sendInFlight' \in BOOLEAN,
         connectionReady' => connection' # 0,
         pending' \in 0 .. Len(frames), controlBuffer' \in 0 .. MaxConns,
         phase' \in [Conns -> Phases], unsent' \in [Conns -> Nat],
         receiving' \in [Conns -> BOOLEAN],
         wire' \in [Conns -> Seq(0 .. MaxFrames)]
  PROVE  TypeOK' /\ Len(frames') <= MaxFrames
<1>1. (\A i \in 1 .. Len(jobs) : jobs[i].arg \in Nat)'
  BY ArgsAreNat DEF JobsInv
<1>2. frames \in Seq(Kinds) /\ Len(frames) <= MaxFrames
  BY EventTypes
<1> QED
  BY <1>1, <1>2, Zenon DEF TypeOK, Listeners, Phases

(* The types a job depends on.                                             *)
LEMMA JobTypes ==
  ASSUME ServerInv
  PROVE  /\ listener \in 0 .. MaxListeners /\ connection \in 0 .. MaxConns
         /\ connectionReady \in BOOLEAN /\ sendInFlight \in BOOLEAN
         /\ connectionReady => connection # 0
         /\ pending \in 0 .. Len(frames) /\ controlBuffer \in 0 .. MaxConns
         /\ wire \in [Conns -> Seq(0 .. MaxFrames)]
         /\ 0 \in 0 .. MaxConns /\ Conns \subseteq 0 .. MaxConns
         /\ \A c \in 0 .. MaxConns : c # 0 => c \in Conns
         /\ 0 \notin Conns
<1>1. TypeOK
  BY DEF ServerInv
<1>2. /\ 0 \in 0 .. MaxConns /\ Conns \subseteq 0 .. MaxConns
      /\ \A c \in 0 .. MaxConns : c # 0 => c \in Conns
      /\ 0 \notin Conns
  BY ServerAssumption DEF Conns
<1> QED
  BY <1>1, <1>2, Zenon DEF TypeOK

(* A job that does nothing to the video: it was discarded, or read a       *)
(* control line.                                                           *)
LEMMA QuietJob ==
  ASSUME ServerInv, JobsInv', NEW op, NEW arg, Taken(op, arg), frames' = frames,
         op \in {"sent", "sendError"} => arg # connection,
         UNCHANGED <<listener, listeners, keyRequested>>,
         UNCHANGED <<connection, connectionReady, sendInFlight, pending>>,
         UNCHANGED <<phase, unsent, wire>>,
         controlBuffer' \in {0, connection}, receiving' \in [Conns -> BOOLEAN]
  PROVE  ServerInv'
<1>1. /\ listener' = listener /\ listeners' = listeners /\ keyRequested' = keyRequested
      /\ connection' = connection /\ connectionReady' = connectionReady
      /\ sendInFlight' = sendInFlight /\ pending' = pending
      /\ phase' = phase /\ unsent' = unsent /\ wire' = wire
  OBVIOUS
<1>2. \A a : /\ Among(jobs', Offers, a) => Among(jobs, Offers, a)
             /\ Among(jobs', Readies, a) => Among(jobs, Readies, a)
             /\ Among(jobs', Ends, a) => Among(jobs, Ends, a)
             /\ Among(jobs', Videos, a) => Among(jobs, Videos, a)
  BY Zenon DEF Taken
<1>3. controlBuffer' \in 0 .. MaxConns
  BY JobTypes
<1>4. TypeOK' /\ Len(frames') <= MaxFrames
  BY <1>1, <1>3, JobTypes, EventTypes, RunTypes
<1>5. LifeInv'
  <2> SUFFICES ASSUME NEW d \in Conns PROVE Life(d)'
    BY Zenon DEF LifeInv
  <2> QED
    BY <1>1, <1>2, Zenon DEF ServerInv, LifeInv, Life
<1>6. CurrentInv'
  <2>1. Among(jobs', Ends, connection) <=> Among(jobs, Ends, connection)
    BY Zenon DEF Taken
  <2> QED
    BY <1>1, <2>1 DEF ServerInv, CurrentInv
<1>7. OrderInv'
  BY <1>1, <1>2, Zenon DEF ServerInv, OrderInv
<1>8. HelloFirst' /\ WireInOrder' /\ PendingHasSend' /\ ClientIsOwned'
  BY <1>1 DEF ServerInv, HelloFirst, WireInOrder, PendingHasSend, ClientIsOwned
<1>9. ControlNotMixed'
  BY <1>1, Zenon DEF ControlNotMixed
<1> QED
  BY <1>4, <1>5, <1>6, <1>7, <1>8, <1>9, Zenon DEF ServerInv

(* A frame that has to wait.                                               *)
LEMMA HoldJob ==
  ASSUME ServerInv, JobsInv', NEW n \in 1 .. Len(frames), Taken("video", n),
         Among(jobs, Videos, n), frames' = frames,
         connectionReady, sendInFlight, pending' \in {n, pending},
         UNCHANGED <<listener, listeners, keyRequested>>,
         UNCHANGED <<connection, connectionReady, sendInFlight, controlBuffer>>,
         UNCHANGED frameworkVars
  PROVE  ServerInv'
<1>1. /\ listener' = listener /\ listeners' = listeners /\ keyRequested' = keyRequested
      /\ connection' = connection /\ connectionReady' = connectionReady
      /\ sendInFlight' = sendInFlight /\ controlBuffer' = controlBuffer
      /\ phase' = phase /\ unsent' = unsent /\ wire' = wire /\ receiving' = receiving
  BY DEF frameworkVars
<1>2. \A a : /\ Among(jobs', Offers, a) <=> Among(jobs, Offers, a)
             /\ Among(jobs', Readies, a) <=> Among(jobs, Readies, a)
             /\ Among(jobs', Ends, a) <=> Among(jobs, Ends, a)
             /\ Among(jobs', Videos, a) => Among(jobs, Videos, a) /\ n < a
  <2>1. "video" # "accept" /\ "video" # "ready" /\ "video" \notin {"sent", "sendError"}
    OBVIOUS
  <2> QED
    BY <2>1, Zenon DEF Taken
<1>3. pending' \in 0 .. Len(frames)
  BY EventTypes, JobTypes
<1>4. TypeOK' /\ Len(frames') <= MaxFrames
  BY <1>1, <1>3, JobTypes, EventTypes, RunTypes
<1>5. LifeInv'
  <2> SUFFICES ASSUME NEW d \in Conns PROVE Life(d)'
    BY Zenon DEF LifeInv
  <2> QED
    BY <1>1, <1>2, Zenon DEF ServerInv, LifeInv, Life
<1>6. CurrentInv'
  BY <1>1, <1>2 DEF ServerInv, CurrentInv
<1>7. OrderInv'
  <2>1. \A c \in Conns : \A i \in 1 .. Len(wire[c]) :
            /\ wire[c][i] <= Len(frames) /\ wire[c][i] < n
            /\ connection = c /\ pending # 0 => wire[c][i] < pending
            /\ \A a : Among(jobs, Videos, a) => wire[c][i] < a
    BY Zenon DEF ServerInv, OrderInv
  <2>2. \A a : Among(jobs, Videos, a) => pending < a
    BY Zenon DEF ServerInv, OrderInv
  <2>3. CASE pending' = n
    BY <1>1, <1>2, <2>1, <2>3, Zenon DEF OrderInv
  <2>4. CASE pending' = pending
    BY <1>1, <1>2, <2>1, <2>2, <2>4, Zenon DEF OrderInv
  <2> QED
    BY <2>3, <2>4
<1>8. HelloFirst' /\ WireInOrder' /\ PendingHasSend' /\ ClientIsOwned' /\ ControlNotMixed'
  BY <1>1 DEF ServerInv, HelloFirst, WireInOrder, PendingHasSend,
                     ClientIsOwned, ControlNotMixed
<1> QED
  BY <1>4, <1>5, <1>6, <1>7, <1>8, Zenon DEF ServerInv

(* A send completed with nothing waiting.                                  *)
LEMMA IdleJob ==
  ASSUME ServerInv, JobsInv', NEW c \in Conns, Taken("sent", c),
         Among(jobs, Ends, c), frames' = frames, connection = c,
         pending = 0, sendInFlight' = FALSE,
         UNCHANGED <<listener, listeners, keyRequested>>,
         UNCHANGED <<connection, connectionReady, pending, controlBuffer>>,
         UNCHANGED frameworkVars
  PROVE  ServerInv'
<1>1. /\ listener' = listener /\ listeners' = listeners /\ keyRequested' = keyRequested
      /\ connection' = connection /\ connectionReady' = connectionReady
      /\ pending' = 0 /\ controlBuffer' = controlBuffer
      /\ phase' = phase /\ unsent' = unsent /\ wire' = wire /\ receiving' = receiving
  BY DEF frameworkVars
<1>2. /\ ~Among(jobs', Ends, c)
      /\ \A a : /\ Among(jobs', Offers, a) => Among(jobs, Offers, a)
                /\ Among(jobs', Readies, a) => Among(jobs, Readies, a)
                /\ Among(jobs', Ends, a) => Among(jobs, Ends, a)
                /\ Among(jobs', Videos, a) => Among(jobs, Videos, a)
  <2>1. "sent" \in {"sent", "sendError"}
    OBVIOUS
  <2> QED
    BY <2>1, Zenon DEF Taken
<1>3. TypeOK' /\ Len(frames') <= MaxFrames
  BY <1>1, JobTypes, EventTypes, RunTypes
<1>4. LifeInv'
  <2> SUFFICES ASSUME NEW d \in Conns PROVE Life(d)'
    BY Zenon DEF LifeInv
  <2> QED
    BY <1>1, <1>2, Zenon DEF ServerInv, LifeInv, Life
<1>5. CurrentInv'
  <2>1. unsent[c] # 1
    BY DEF ServerInv, LifeInv, Life
  <2> QED
    BY <1>1, <1>2, <2>1 DEF ServerInv, CurrentInv
<1>6. OrderInv'
  BY <1>1, <1>2, Zenon DEF ServerInv, OrderInv
<1>7. HelloFirst' /\ WireInOrder' /\ PendingHasSend' /\ ClientIsOwned' /\ ControlNotMixed'
  BY <1>1, Zenon DEF ServerInv, HelloFirst, WireInOrder, PendingHasSend,
                     ClientIsOwned, ControlNotMixed
<1> QED
  BY <1>3, <1>4, <1>5, <1>6, <1>7, Zenon DEF ServerInv

(* The connection is dropped, or replaced by a new one.                    *)
LEMMA ForgetJob ==
  ASSUME ServerInv, JobsInv', NEW op, NEW arg, Taken(op, arg), frames' = frames,
         NEW x \in 0 .. MaxConns, Forget(x),
         listener' \in 0 .. MaxListeners, listeners' \in Listeners,
         UNCHANGED <<keyRequested, unsent, receiving, wire>>,
         phase' \in [Conns -> Phases],
         \A d \in Conns : /\ d # x /\ d = connection => phase'[d] = "over"
                          /\ d # x /\ d # connection => phase'[d] = phase[d],
         x \in Conns => /\ op = "accept" /\ arg = x /\ Among(jobs, Offers, x)
                        /\ phase'[x] = "started"
  PROVE  ServerInv'
<1>1. /\ connection' = x /\ connectionReady' = FALSE /\ sendInFlight' = FALSE
      /\ pending' = 0 /\ controlBuffer' = 0
      /\ keyRequested' = keyRequested
      /\ unsent' = unsent /\ receiving' = receiving /\ wire' = wire
  BY DEF Forget
<1>2. \A a : /\ Among(jobs', Offers, a) => Among(jobs, Offers, a)
             /\ Among(jobs', Readies, a) => Among(jobs, Readies, a)
             /\ Among(jobs', Ends, a) => Among(jobs, Ends, a)
             /\ Among(jobs', Videos, a) => Among(jobs, Videos, a)
  BY Zenon DEF Taken
<1>3. x \in Conns => ~Among(jobs', Offers, x)
  BY Zenon DEF Taken
<1>4. x \in Conns => /\ phase[x] = "offered" /\ wire[x] = <<>>
                     /\ unsent[x] = 0 /\ ~Among(jobs, Ends, x)
                     /\ ~Among(jobs, Readies, x)
  BY DEF ServerInv, LifeInv, Life
<1>5. TypeOK' /\ Len(frames') <= MaxFrames
  <2>1. pending' \in 0 .. Len(frames) /\ controlBuffer' \in 0 .. MaxConns
    BY <1>1, JobTypes, EventTypes
  <2> QED
    BY <1>1, <2>1, JobTypes, EventTypes, RunTypes
<1>6. LifeInv'
  <2> SUFFICES ASSUME NEW d \in Conns PROVE Life(d)'
    BY Zenon DEF LifeInv
  <2>1. CASE d = x
    BY <1>1, <1>2, <1>3, <1>4, <2>1 DEF Life
  <2>2. CASE d # x /\ d = connection
    <3>1. phase'[d] = "over" /\ ~Among(jobs, Offers, d) /\ Life(d)
      BY <2>2 DEF ServerInv, LifeInv, Life
    <3> QED
      BY <1>1, <1>2, <2>2, <3>1 DEF Life
  <2>3. CASE d # x /\ d # connection
    <3>1. phase'[d] = phase[d] /\ Life(d)
      BY <2>3 DEF ServerInv, LifeInv
    <3> QED
      BY <1>1, <1>2, <2>3, <3>1 DEF Life
  <2> QED
    BY <2>1, <2>2, <2>3
<1>7. CurrentInv'
  BY <1>1, <1>2, <1>4 DEF CurrentInv
<1>8. OrderInv'
  <2>1. \A n : Among(jobs', Videos, n) => 0 < n
    BY EventTypes DEF JobsInv
  <2> QED
    BY <1>1, <1>2, <2>1, Zenon DEF ServerInv, OrderInv
<1>9. HelloFirst' /\ WireInOrder'
  BY <1>1, Zenon DEF ServerInv, HelloFirst, WireInOrder
<1>10. PendingHasSend' /\ ControlNotMixed'
  BY <1>1 DEF PendingHasSend, ControlNotMixed
<1>11. ClientIsOwned'
  <2> SUFFICES ASSUME NEW d \in Conns, phase'[d] \in {"started", "ready"}, d # x
               PROVE  FALSE
    BY <1>1 DEF ClientIsOwned
  <2>1. d # connection /\ phase'[d] = phase[d]
    OBVIOUS
  <2> QED
    BY <2>1 DEF ServerInv, ClientIsOwned
<1> QED
  BY <1>5, <1>6, <1>7, <1>8, <1>9, <1>10, <1>11, Zenon DEF ServerInv

(* A packet is sent: the HELLO on a wire that is ready, or a frame on one  *)
(* with nothing in flight.                                                 *)
LEMMA SendJob ==
  ASSUME ServerInv, JobsInv', NEW op, NEW arg, Taken(op, arg), frames' = frames,
         connection \in Conns, NEW packet \in 0 .. Len(frames), Send(packet),
         connectionReady' = TRUE, pending' = 0, keyRequested' \in BOOLEAN,
         UNCHANGED <<listener, listeners, connection, controlBuffer, phase>>,
         receiving' \in [Conns -> BOOLEAN],
         phase[connection] \in {"ready", "over"},
         unsent[connection] = 0, ~Among(jobs', Ends, connection),
         ~Among(jobs', Readies, connection),
         packet = Hello <=> wire[connection] = <<>>,
         \A i \in 1 .. Len(wire[connection]) : wire[connection][i] < packet,
         \A n : Among(jobs', Videos, n) => packet < n
  PROVE  ServerInv'
<1> DEFINE c == connection
<1>1. /\ listener' = listener /\ listeners' = listeners /\ connection' = c
      /\ controlBuffer' = controlBuffer /\ phase' = phase /\ sendInFlight' = TRUE
  BY DEF Send
<1>2. packet \in 0 .. MaxFrames
  BY EventTypes, ServerAssumption
<1>3. /\ wire' \in [Conns -> Seq(0 .. MaxFrames)] /\ unsent' \in [Conns -> Nat]
      /\ unsent'[c] = 1
      /\ \A d \in Conns : d # c => wire'[d] = wire[d] /\ unsent'[d] = unsent[d]
      /\ Len(wire[c]) \in Nat /\ Len(wire'[c]) = Len(wire[c]) + 1 /\ wire'[c] # <<>>
      /\ \A i \in 1 .. Len(wire[c]) : wire'[c][i] = wire[c][i]
      /\ wire'[c][Len(wire[c]) + 1] = packet
  BY <1>2, SendEffect DEF ServerInv
<1>4. HelloFirst' /\ WireInOrder'
  BY <1>2, SendInOrder DEF ServerInv
<1> HIDE DEF c
<1>5. \A a : /\ Among(jobs', Offers, a) => Among(jobs, Offers, a)
             /\ Among(jobs', Readies, a) => Among(jobs, Readies, a)
             /\ Among(jobs', Ends, a) => Among(jobs, Ends, a)
             /\ Among(jobs', Videos, a) => Among(jobs, Videos, a)
  BY Zenon DEF Taken
<1>6. c = connection /\ c \in Conns
  BY DEF c
<1>7. TypeOK' /\ Len(frames') <= MaxFrames
  <2>1. pending' \in 0 .. Len(frames) /\ connection # 0
    BY <1>6, JobTypes, EventTypes
  <2> QED
    BY <1>1, <1>3, <1>6, <2>1, JobTypes, EventTypes, RunTypes
<1>8. LifeInv'
  <2> SUFFICES ASSUME NEW d \in Conns PROVE Life(d)'
    BY Zenon DEF LifeInv
  <2>1. Life(d)
    BY DEF ServerInv, LifeInv
  <2>2. CASE d = c
    <3>1. ~Among(jobs, Offers, d)
      BY <1>6, <2>1, <2>2 DEF Life
    <3> QED
      BY <1>1, <1>3, <1>5, <1>6, <2>2, <3>1 DEF Life
  <2>3. CASE d # c
    BY <1>1, <1>3, <1>5, <1>6, <2>1, <2>3 DEF Life
  <2> QED
    BY <2>2, <2>3
<1>9. CurrentInv'
  BY <1>1, <1>3, <1>6 DEF CurrentInv
<1>10. OrderInv'
  <2>1. \A d \in Conns : \A i \in 1 .. Len(wire[d]) :
            /\ wire[d][i] <= Len(frames)
            /\ \A n : Among(jobs', Videos, n) => wire[d][i] < n
    BY <1>5, Zenon DEF ServerInv, OrderInv
  <2>2. \A i \in 1 .. Len(wire'[c]) : i \in 1 .. Len(wire[c]) \/ i = Len(wire[c]) + 1
    BY <1>3
  <2>3. packet <= Len(frames)
    BY EventTypes
  <2>4. \A i \in 1 .. Len(wire'[c]) :
            /\ wire'[c][i] <= Len(frames)
            /\ \A n : Among(jobs', Videos, n) => wire'[c][i] < n
    BY <1>3, <1>6, <2>1, <2>2, <2>3, Zenon
  <2>5. \A n : Among(jobs', Videos, n) => 0 < n
    BY EventTypes DEF JobsInv
  <2>6. \A d \in Conns : d = c \/ wire'[d] = wire[d]
    BY <1>3
  <2>7. \A d \in Conns : \A i \in 1 .. Len(wire'[d]) :
            /\ wire'[d][i] <= Len(frames')
            /\ \A n : Among(jobs', Videos, n) => wire'[d][i] < n
    BY <2>1, <2>4, <2>6, Zenon
  <2> QED
    BY <2>5, <2>7, Zenon DEF OrderInv
<1>11. PendingHasSend'
  BY DEF PendingHasSend
<1>12. ClientIsOwned' /\ ControlNotMixed'
  BY <1>1, <1>6, Zenon DEF ServerInv, ClientIsOwned, ControlNotMixed
<1> QED
  BY <1>4, <1>7, <1>8, <1>9, <1>10, <1>11, <1>12, Zenon DEF ServerInv

-----------------------------------------------------------------------------
(* The jobs, one by one.  In each the oldest job was job.                  *)
Oldest(op, arg) ==
    /\ ServerInv /\ jobs # <<>> /\ jobs' = Tail(jobs) /\ frames' = frames
    /\ op = Head(jobs).op /\ arg = Head(jobs).arg

LEMMA OldestTaken ==
  ASSUME NEW op, NEW arg, Oldest(op, arg)
  PROVE  /\ ServerInv /\ frames' = frames
         /\ JobsInv' /\ Taken(op, arg)
         /\ op \in Ops /\ arg \in Nat
         /\ op \in ConnOps => arg \in Conns
         /\ op = "video" => arg \in 1 .. Len(frames)
         /\ op = "accept" => Among(jobs, Offers, arg)
         /\ op = "ready" => Among(jobs, Readies, arg)
         /\ op \in {"sent", "sendError"} => Among(jobs, Ends, arg)
         /\ op = "video" => Among(jobs, Videos, arg)
  BY TakenJob DEF Oldest, ServerInv

LEMMA EnqueueStep ==
  ASSUME NEW n, Oldest("video", n), Enqueue(n) PROVE ServerInv'
<1>1. /\ ServerInv /\ frames' = frames /\ JobsInv' /\ Taken("video", n)
      /\ n \in 1 .. Len(frames) /\ Among(jobs, Videos, n)
  BY OldestTaken
<1>2. /\ listener' = listener /\ listeners' = listeners /\ keyRequested' = keyRequested
      /\ connection' = connection /\ connectionReady' = connectionReady
      /\ controlBuffer' = controlBuffer /\ phase' = phase /\ receiving' = receiving
  BY DEF Enqueue
<1>3. CASE ~connectionReady
  <2>1. /\ pending' = pending /\ sendInFlight' = sendInFlight
        /\ unsent' = unsent /\ wire' = wire
    BY <1>3 DEF Enqueue
  <2>2. controlBuffer' \in {0, connection} /\ receiving' \in [Conns -> BOOLEAN]
    BY <1>1, <1>2, EventTypes DEF ServerInv, ControlNotMixed
  <2>3. "video" \notin {"sent", "sendError"}
    OBVIOUS
  <2> QED
    BY <1>1, <1>2, <2>1, <2>2, <2>3, QuietJob
<1>4. CASE connectionReady /\ sendInFlight
  <2>1. /\ pending' \in {n, pending} /\ sendInFlight' = sendInFlight
        /\ unsent' = unsent /\ wire' = wire
    BY <1>4 DEF Enqueue, Hold
  <2> QED
    BY <1>1, <1>2, <1>4, <2>1, HoldJob DEF frameworkVars
<1>5. CASE connectionReady /\ ~sendInFlight
  <2>1. Send(n) /\ pending' = pending
    BY <1>5 DEF Enqueue
  <2>2. connection \in Conns /\ pending = 0 /\ n \in 0 .. Len(frames) /\ n # 0
    BY <1>1, <1>5, JobTypes, EventTypes DEF ServerInv, PendingHasSend
  <2>3. wire[connection] # <<>> /\ ~Among(jobs, Ends, connection) /\ unsent[connection] # 1
    BY <1>1, <1>5, <2>2 DEF ServerInv, CurrentInv
  <2>4. /\ unsent[connection] = 0 /\ ~Among(jobs, Readies, connection)
        /\ phase[connection] \in {"ready", "over"}
    <3>1. Life(connection) /\ phase[connection] \in Phases
      BY <1>1, <2>2, EventTypes DEF ServerInv, LifeInv
    <3> QED
      BY <2>3, <3>1 DEF Life, Phases
  <2>5. \A i \in 1 .. Len(wire[connection]) : wire[connection][i] < n
    BY <1>1, <2>2 DEF ServerInv, OrderInv
  <2>6. \A a : /\ Among(jobs', Readies, a) => Among(jobs, Readies, a)
               /\ Among(jobs', Ends, a) => Among(jobs, Ends, a)
               /\ Among(jobs', Videos, a) => n < a
    BY <1>1, Zenon DEF Taken
  <2>7. n = Hello <=> wire[connection] = <<>>
    BY <2>2, <2>3 DEF Hello
  <2>8. /\ keyRequested' \in BOOLEAN /\ receiving' \in [Conns -> BOOLEAN]
        /\ connectionReady' = TRUE /\ pending' = 0
    BY <1>1, <1>2, <1>5, <2>1, <2>2, EventTypes, JobTypes
  <2> QED
    BY <1>1, <1>2, <2>1, <2>2, <2>3, <2>4, <2>5, <2>6, <2>7, <2>8, SendJob
<1> QED
  BY <1>3, <1>4, <1>5

LEMMA AcceptStep ==
  ASSUME NEW c \in Conns, Oldest("accept", c), Accept(c) PROVE ServerInv'
<1>1. /\ ServerInv /\ frames' = frames /\ JobsInv' /\ Taken("accept", c)
      /\ Among(jobs, Offers, c)
  BY OldestTaken
<1>2. /\ Forget(c) /\ listener' = listener /\ listeners' = listeners
      /\ UNCHANGED <<keyRequested, unsent, receiving, wire>>
      /\ phase' = [Cancel(phase) EXCEPT ![c] = "started"]
  BY DEF Accept
<1>3. /\ phase' \in [Conns -> Phases] /\ phase'[c] = "started"
      /\ \A d \in Conns : /\ d # c /\ d = connection => phase'[d] = "over"
                          /\ d # c /\ d # connection => phase'[d] = phase[d]
  BY <1>1, <1>2, EventTypes, JobTypes DEF Cancel, Phases
<1>4. c \in 0 .. MaxConns
  BY <1>1, JobTypes
<1> QED
  BY <1>1, <1>2, <1>3, <1>4, JobTypes, EventTypes, ForgetJob

LEMMA DropStep ==
  ASSUME NEW op, NEW arg, Oldest(op, arg), Disconnect \/ StopLocked
  PROVE  ServerInv'
<1>1. /\ ServerInv /\ frames' = frames /\ JobsInv' /\ Taken(op, arg)
  BY OldestTaken
<1>2. /\ Forget(0) /\ phase' = Cancel(phase)
      /\ UNCHANGED <<keyRequested, unsent, receiving, wire>>
  BY DEF Disconnect, StopLocked
<1>3. listener' \in 0 .. MaxListeners /\ listeners' \in Listeners
  <2>1. listener \in 0 .. MaxListeners /\ listeners \in Listeners
        /\ (listener # 0 => listener \in 1 .. MaxListeners)
        /\ 0 \in 0 .. MaxListeners
    BY <1>1, JobTypes, EventTypes, ServerAssumption
  <2>2. CASE Disconnect
    BY <2>1, <2>2 DEF Disconnect
  <2>3. CASE StopLocked
    BY <2>1, <2>3 DEF StopLocked, Listeners
  <2> QED
    BY <2>2, <2>3
<1>4. /\ phase' \in [Conns -> Phases]
      /\ \A d \in Conns : /\ d = connection => phase'[d] = "over"
                          /\ d # connection => phase'[d] = phase[d]
  BY <1>1, <1>2, EventTypes, JobTypes DEF Cancel, Phases
<1>5. 0 \in 0 .. MaxConns /\ 0 \notin Conns
  BY <1>1, JobTypes
<1> QED
  BY <1>1, <1>2, <1>3, <1>4, <1>5, ForgetJob

LEMMA ReadyStep ==
  ASSUME NEW c \in Conns, Oldest("ready", c), connection = c, Ready,
         UNCHANGED <<listener, connection, pending, controlBuffer, listeners, phase>>
  PROVE  ServerInv'
<1>1. /\ ServerInv /\ frames' = frames /\ JobsInv' /\ Taken("ready", c)
      /\ Among(jobs, Readies, c)
  BY OldestTaken
<1>2. /\ Send(Hello) /\ connectionReady' = TRUE /\ keyRequested' = TRUE
      /\ receiving' \in [Conns -> BOOLEAN]
  BY <1>1, EventTypes DEF Ready
<1>3. /\ phase[c] \in {"ready", "over"} /\ wire[c] = <<>> /\ unsent[c] = 0
      /\ ~Among(jobs, Ends, c)
  BY <1>1 DEF ServerInv, LifeInv, Life
<1>4. pending' = 0
  BY <1>1, <1>3 DEF ServerInv, CurrentInv, PendingHasSend
<1>5. /\ ~Among(jobs', Ends, c) /\ ~Among(jobs', Readies, c)
  BY <1>1, <1>3, Zenon DEF Taken
<1>6. /\ Hello = Hello <=> wire[c] = <<>>
      /\ \A i \in 1 .. Len(wire[c]) : wire[c][i] < Hello
  BY <1>3
<1>7. Hello \in 0 .. Len(frames) /\ \A n : Among(jobs', Videos, n) => Hello < n
  BY <1>1, EventTypes DEF JobsInv, Hello
<1> QED
  BY <1>1, <1>2, <1>3, <1>4, <1>5, <1>6, <1>7, SendJob

LEMMA SentStep ==
  ASSUME NEW c \in Conns, Oldest("sent", c), connection = c, Sent,
         UNCHANGED <<listener, connection, connectionReady, controlBuffer,
                     keyRequested, listeners, phase, receiving>>
  PROVE  ServerInv'
<1>1. /\ ServerInv /\ frames' = frames /\ JobsInv' /\ Taken("sent", c)
      /\ Among(jobs, Ends, c)
  BY OldestTaken
<1>2. CASE pending = 0
  <2>1. sendInFlight' = FALSE /\ pending' = pending /\ unsent' = unsent /\ wire' = wire
    BY <1>2 DEF Sent
  <2> QED
    BY <1>1, <1>2, <2>1, IdleJob DEF frameworkVars
<1>3. CASE pending # 0
  <2>1. pending' = 0 /\ Send(pending)
    BY <1>3 DEF Sent
  <2>2. pending \in 0 .. Len(frames) /\ connectionReady' = TRUE
    BY <1>1, <1>3, JobTypes DEF ServerInv, PendingHasSend
  <2>3. wire[c] # <<>> /\ unsent[c] = 0
    BY <1>1 DEF ServerInv, LifeInv, Life
  <2>4. phase[c] \in {"ready", "over"} /\ ~Among(jobs, Readies, c)
    <3>1. Life(c) /\ phase[c] \in Phases
      BY <1>1, EventTypes DEF ServerInv, LifeInv
    <3> QED
      BY <2>3, <3>1 DEF Life, Phases
  <2>5. ~Among(jobs', Ends, c) /\ ~Among(jobs', Readies, c)
    <3>1. "sent" \in {"sent", "sendError"}
      OBVIOUS
    <3> QED
      BY <1>1, <2>4, <3>1, Zenon DEF Taken
  <2>6. /\ \A i \in 1 .. Len(wire[c]) : wire[c][i] < pending
        /\ \A n : Among(jobs, Videos, n) => pending < n
    BY <1>1, <1>3, Zenon DEF ServerInv, OrderInv
  <2>7. \A n : Among(jobs', Videos, n) => pending < n
    BY <1>1, <2>6, Zenon DEF Taken
  <2>8. pending = Hello <=> wire[c] = <<>>
    BY <1>3, <2>3 DEF Hello
  <2>9. keyRequested' \in BOOLEAN /\ receiving' \in [Conns -> BOOLEAN]
    BY <1>1, EventTypes
  <2> QED
    BY <1>1, <2>1, <2>2, <2>3, <2>4, <2>5, <2>6, <2>7, <2>8, <2>9, SendJob
<1> QED
  BY <1>2, <1>3

LEMMA RunJobStep == ServerInv /\ RunJob => ServerInv'
<1> SUFFICES ASSUME ServerInv, RunJob PROVE ServerInv'
  OBVIOUS
<1> DEFINE op == Head(jobs).op
           arg == Head(jobs).arg
<1>1. Oldest(op, arg)
  BY DEF RunJob, Oldest
<1>2. /\ \/ op = "video" /\ Enqueue(arg)
         \/ op \in ConnOps /\ ConnJob(op, arg)
         \/ ListenerJob(op)
      /\ frames' = frames
  BY DEF RunJob
<1> HIDE DEF op, arg
<1>3. /\ JobsInv' /\ Taken(op, arg)
      /\ op \in ConnOps => arg \in Conns
  BY <1>1, OldestTaken
(* A job that is void, or that reads a control line.                       *)
<1>4. ASSUME op \in {"sent", "sendError"} => arg # connection,
             UNCHANGED <<listener, listeners, keyRequested>>,
             UNCHANGED <<connection, connectionReady, sendInFlight, pending>>,
             UNCHANGED <<phase, unsent, wire>>,
             controlBuffer' \in {0, connection}, receiving' \in [Conns -> BOOLEAN]
      PROVE  ServerInv'
  BY <1>2, <1>3, <1>4, QuietJob
<1>5. controlBuffer \in {0, connection} /\ receiving \in [Conns -> BOOLEAN]
  BY EventTypes DEF ServerInv, ControlNotMixed
<1>6. CASE op = "video" /\ Enqueue(arg)
  BY <1>1, <1>6, EnqueueStep
<1>7. CASE op \in ConnOps /\ ConnJob(op, arg)
  <2>1. arg \in Conns
    BY <1>3, <1>7
  <2>2. CASE op = "accept" /\ Accept(arg)
    BY <1>1, <2>1, <2>2, AcceptStep
  <2>3. CASE /\ op # "accept" /\ ~Current(arg)
             /\ UNCHANGED <<listener, stateVars, keyRequested, listeners, frameworkVars>>
    <3>1. arg # connection
      BY <2>3 DEF Current
    <3> QED
      BY <1>4, <1>5, <2>3, <3>1 DEF stateVars, frameworkVars
  <2>4. CASE /\ op = "ready" /\ Current(arg) /\ Ready
             /\ UNCHANGED <<listener, connection, pending, controlBuffer, listeners, phase>>
    BY <1>1, <2>1, <2>4, ReadyStep DEF Current
  <2>5. CASE op \in {"failed", "sendError", "closed"} /\ Current(arg) /\ Disconnect
    BY <1>1, <2>5, DropStep
  <2>6. CASE /\ op = "sent" /\ Current(arg) /\ Sent
             /\ UNCHANGED <<listener, connection, connectionReady, controlBuffer,
                            keyRequested, listeners, phase, receiving>>
    BY <1>1, <2>1, <2>6, SentStep DEF Current
  <2>7. CASE /\ op \in {"half", "line", "badLine"} /\ Current(arg)
             /\ controlBuffer' = IF op = "half" THEN arg ELSE 0
             /\ receiving' = [receiving EXCEPT ![arg] = TRUE]
             /\ UNCHANGED <<listener, connection, connectionReady, sendInFlight,
                            pending, keyRequested, listeners, phase, unsent, wire>>
    <3>1. controlBuffer' \in {0, connection} /\ op \notin {"sent", "sendError"}
      BY <2>7 DEF Current
    <3>2. receiving' \in [Conns -> BOOLEAN]
      BY <1>5, <2>7
    <3> QED
      BY <1>4, <2>7, <3>1, <3>2
  <2> QED
    BY <1>7, <2>2, <2>3, <2>4, <2>5, <2>6, <2>7, Zenon DEF ConnJob
<1>8. CASE ListenerJob(op)
  <2>1. CASE StopLocked
    BY <1>1, <2>1, DropStep
  <2>2. CASE /\ op \in {"listenerReady", "listenerCancelled"}
             /\ UNCHANGED <<listener, stateVars, keyRequested, listeners, frameworkVars>>
    <3>1. op \notin {"sent", "sendError"}
      BY <2>2
    <3> QED
      BY <1>4, <1>5, <2>2, <3>1 DEF stateVars, frameworkVars
  <2> QED
    BY <1>8, <2>1, <2>2, Zenon DEF ListenerJob
<1> QED
  BY <1>2, <1>6, <1>7, <1>8, Zenon

LEMMA FrameworkStep == ServerInv /\ Framework => ServerInv'
<1> SUFFICES ASSUME ServerInv, Framework PROVE ServerInv'
  OBVIOUS
<1>1. CASE /\ \E c \in Conns : \/ Connects(c) \/ GetsReady(c) \/ Fails(c)
                               \/ Completes(c) \/ Receives(c)
           /\ UNCHANGED listeners
  BY <1>1, ConnectsStep, GetsReadyStep, FailsStep, CompletesStep, ReceivesStep
<1>2. CASE /\ \E l \in 1 .. MaxListeners : ListenerFails(l)
           /\ UNCHANGED <<phase, unsent, receiving>>
  BY <1>2, ListenerFailsStep
<1> QED
  BY <1>1, <1>2 DEF Framework

(* A step that changes nothing.                                            *)
LEMMA StutterStep == ServerInv /\ UNCHANGED vars => ServerInv'
<1> SUFFICES ASSUME ServerInv, UNCHANGED vars PROVE ServerInv'
  OBVIOUS
<1>1. /\ UNCHANGED <<jobs, stateVars, frames, frameworkVars>>
      /\ listener' = listener /\ listeners' = listeners /\ keyRequested' = keyRequested
  BY DEF vars, encoderVars
<1> QED
  BY <1>1, JobTypes, EventTypes, ServerKept

LEMMA ServerStep == ServerInv /\ [Next]_vars => ServerInv'
<1> SUFFICES ASSUME ServerInv, [Next]_vars PROVE ServerInv'
  OBVIOUS
<1>1. CASE Start
  BY <1>1, StartStep
<1>2. CASE Stop
  BY <1>2, StopStep
<1>3. ASSUME NEW kind \in Kinds, Output(kind) PROVE ServerInv'
  BY <1>3, OutputStep
<1>4. CASE EncodeFails
  BY <1>4, EncodeFailsStep
<1>5. CASE Framework
  BY <1>5, FrameworkStep
<1>6. CASE RunJob
  BY <1>6, RunJobStep
<1>7. CASE UNCHANGED vars
  BY <1>7, StutterStep
<1> QED
  BY <1>1, <1>2, <1>3, <1>4, <1>5, <1>6, <1>7, Zenon DEF Next

(* The invariant holds for any number of clients, listeners, frames and    *)
(* jobs, with the events of replaced connections as late as they may be.   *)
THEOREM ServerInvariant == Spec => []ServerInv
  BY InitServerInv, ServerStep, PTL DEF Spec

-----------------------------------------------------------------------------
(* What follows from it.                                                   *)

(* Type correctness of the server.                                         *)
THEOREM ServerTypeOK == Spec => []TypeOK
<1>1. ServerInv => TypeOK
  BY Zenon DEF ServerInv
<1> QED
  BY <1>1, ServerInvariant, PTL

(* HELLO is the first packet of every connection, and the only one.        *)
THEOREM ServerHelloFirst == Spec => []HelloFirst
<1>1. ServerInv => HelloFirst
  BY Zenon DEF ServerInv
<1> QED
  BY <1>1, ServerInvariant, PTL

(* Frames go out in order, none twice.                                     *)
THEOREM ServerWireInOrder == Spec => []WireInOrder
<1>1. ServerInv => WireInOrder
  BY Zenon DEF ServerInv
<1> QED
  BY <1>1, ServerInvariant, PTL

(* A pending frame has a send in flight, whose completion sends it.        *)
THEOREM ServerPendingHasSend == Spec => []PendingHasSend
<1>1. ServerInv => PendingHasSend
  BY Zenon DEF ServerInv
<1> QED
  BY <1>1, ServerInvariant, PTL

(* No client is forgotten, accepted after stop or replaced.                *)
THEOREM ServerClientIsOwned == Spec => []ClientIsOwned
<1>1. ServerInv => ClientIsOwned
  BY Zenon DEF ServerInv
<1> QED
  BY <1>1, ServerInvariant, PTL

(* No control command is put together from the bytes of two clients.       *)
THEOREM ServerControlNotMixed == Spec => []ControlNotMixed
<1>1. ServerInv => ControlNotMixed
  BY Zenon DEF ServerInv
<1> QED
  BY <1>1, ServerInvariant, PTL

(* One send of the current connection is with the framework, or its        *)
(* completion is queued, exactly while the flag says so.                   *)
THEOREM ServerOneSendInFlight == Spec => []OneSendInFlight
<1>1. ServerInv => OneSendInFlight
  <2> SUFFICES ASSUME ServerInv, connection # 0
               PROVE  /\ sendInFlight <=> \/ unsent[connection] = 1
                                          \/ Completions(connection) # {}
                      /\ unsent[connection]
                            + (IF Completions(connection) = {} THEN 0 ELSE 1) <= 1
    BY DEF OneSendInFlight
  <2>1. connection \in Conns
    BY JobTypes
  <2>2. Completions(connection) # {} <=> Among(jobs, Ends, connection)
    BY DEF Completions, Among, Ends
  <2>3. sendInFlight <=> unsent[connection] = 1 \/ Among(jobs, Ends, connection)
    BY <2>1 DEF ServerInv, CurrentInv
  <2>4. /\ unsent[connection] \in {0, 1}
        /\ Among(jobs, Ends, connection) => unsent[connection] = 0
    BY <2>1 DEF ServerInv, LifeInv, Life
  <2> QED
    BY <2>2, <2>3, <2>4
<1> QED
  BY <1>1, ServerInvariant, PTL
=============================================================================
