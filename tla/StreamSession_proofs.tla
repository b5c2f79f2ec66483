------------------------ MODULE StreamSession_proofs ------------------------
(***************************************************************************)
(* For every size of the queue, of the buffer and of receive_times, and    *)
(* however the callbacks of the loop interleave with the socket, the timer *)
(* and the GUI: no session stalls, the decoder is not poisoned, frames are *)
(* shown in order, and the session leaves nothing behind.                  *)
(***************************************************************************)
EXTENDS StreamSession, SequenceTheorems, FiniteSetTheorems, NaturalsInduction,
        WellFoundedInduction, TLAPS

-----------------------------------------------------------------------------
(* The inductive invariant.                                                *)

NetInv == /\ inbuf \in Seq(Items) /\ Len(inbuf) <= BufferSize + 1
          /\ Ended \/ Len(inbuf) <= BufferSize
          /\ sent \in 0 .. MaxArrivals /\ lost \in BOOLEAN

Stages == {"none", "run", "drain", "hello", "wait", "gather", "closing", "done"}
Has(s, h) == \E i \in 1 .. Len(s) : s[i] = h
Distinct(s) ==
    \A i, j \in 1 .. Len(s) : s[i] = s[j] /\ s[i] # "notify" => i = j

(* A task is scheduled once, and only while it is active.                  *)
LoopInv ==
    /\ current \in Handles \cup {"none"} /\ ready \in Seq(Handles)
    /\ pc \in [Tasks -> Stages]
    /\ pc["main"] \in {"hello", "wait", "gather", "closing", "done"}
    /\ \A t \in Workers : pc[t] \in {"none", "run", "drain", "done"}
    /\ \A t \in Workers : pc[t] = "drain" => t = "control"
    /\ result \in [Workers -> Results]
    /\ Distinct(ready)
    /\ Has(ready, current) => current = "notify"
    /\ \A t \in Tasks : Scheduled(t) => Active(t)

(* The queue holds the newest packets without a hole, and begins with a    *)
(* keyframe or the successor of the packet taken last.                     *)
PacketsInv ==
    /\ arrived \in Seq(Kinds) /\ queue \in Seq(Nat) /\ Len(queue) <= MaxSize
    /\ recovering \in BOOLEAN
    /\ dropped \in Nat /\ got \in Nat /\ last \in Nat
    /\ last + Len(queue) <= Len(arrived)
    /\ \A i \in 1 .. Len(queue) : queue[i] = Len(arrived) - Len(queue) + i
    /\ recovering => queue = <<>>
    /\ \/ recovering
       \/ last + Len(queue) = Len(arrived)
       \/ queue # <<>> /\ Q!IsKey(queue[1])

DecoderInv ==
    /\ codec \in 0 .. Len(arrived) /\ synced \in BOOLEAN
    /\ synced => codec = last /\ codec # 0
    /\ stamped \subseteq 1 .. Len(arrived) /\ Cardinality(stamped) <= StampLimit
    /\ StampsCoverQueue

DisplayInv == /\ mailbox \in 0 .. last /\ shown \in 0 .. last
              /\ mailbox # 0 => shown < mailbox

ControlInv == /\ version \in 0 .. MaxVersion /\ unsent \in BOOLEAN
              /\ written \in -1 .. MaxVersion /\ line \in -1 .. MaxVersion

(* How far run_socket is, and what _run has opened and closed.             *)
PhaseInv ==
    /\ preview \in {"none", "open", "closed"} /\ sink \in {"none", "open", "closed"}
    /\ verdict \in Results /\ outcome \in Results
    /\ outcome = "none" <=> pc["main"] \in {"hello", "wait", "gather"}
    /\ pc["main"] = "hello" => /\ \A t \in Workers : pc[t] = "none"
                               /\ preview = "none" /\ sink = "none"
    /\ pc["main"] \in {"wait", "gather"} => preview = "open"
    /\ pc["main"] = "wait" => \A t \in Workers : pc[t] # "none"
    /\ pc["main"] = "gather" => verdict # "none" /\ (Scheduled("main") => AllDone)
    /\ outcome # "none" => AllDone
    /\ outcome \notin {"none", "raise"} => preview # "open" /\ sink # "open"
    /\ preview = "closed" => outcome # "none" /\ (sink = "open" => outcome = "raise")

(* A task waits only for what is not there, a task that is over is about to*)
(* be noticed, and one that is cancelled to end.                           *)
WakeInv ==
    /\ pc["main"] = "hello" => (Suspended("main") => inbuf = <<>> /\ ~lost)
    /\ pc["main"] = "wait" =>
         /\ Suspended("ingest") => inbuf = <<>> /\ ~lost
         /\ Suspended("decode") => queue = <<>>
         /\ Suspended("present") => mailbox = 0
         /\ pc["control"] = "drain" => (Suspended("control") => unsent)
         /\ WaitOver => Scheduled("notify") \/ Scheduled("main")
    /\ pc["main"] = "gather" =>
         /\ \A t \in Workers : ~Suspended(t)
         /\ AllDone => Scheduled("notify") \/ Scheduled("main")
    /\ pc["main"] = "closing" => (Suspended("main") => unsent)

SessionInv == /\ NetInv /\ LoopInv /\ PacketsInv /\ DecoderInv /\ DisplayInv
              /\ ControlInv /\ PhaseInv /\ WakeInv

-----------------------------------------------------------------------------
(* The ready queue.                                                        *)

(* What is appended is in the queue, behind what was.                      *)
LEMMA ConcatHas ==
  ASSUME NEW T, NEW s \in Seq(T), NEW u \in Seq(T)
  PROVE  /\ s \o u \in Seq(T)
         /\ \A h : Has(s \o u, h) <=> Has(s, h) \/ Has(u, h)
<1>1. /\ s \o u \in Seq(T) /\ Len(s) \in Nat /\ Len(u) \in Nat
      /\ Len(s \o u) = Len(s) + Len(u)
      /\ \A i \in 1 .. Len(s) : (s \o u)[i] = s[i]
      /\ \A i \in 1 .. Len(u) : (s \o u)[Len(s) + i] = u[i]
  BY ConcatProperties, LenProperties
<1>2. ASSUME NEW h, Has(s, h) PROVE Has(s \o u, h)
  <2>1. PICK i \in 1 .. Len(s) : s[i] = h
    BY <1>2 DEF Has
  <2> QED
    BY <1>1, <2>1 DEF Has
<1>3. ASSUME NEW h, Has(u, h) PROVE Has(s \o u, h)
  <2>1. PICK i \in 1 .. Len(u) : u[i] = h
    BY <1>3 DEF Has
  <2>2. Len(s) + i \in 1 .. Len(s \o u) /\ (s \o u)[Len(s) + i] = h
    BY <1>1, <2>1
  <2> QED
    BY <2>2 DEF Has
<1>4. ASSUME NEW h, Has(s \o u, h) PROVE Has(s, h) \/ Has(u, h)
  <2>1. PICK i \in 1 .. Len(s \o u) : (s \o u)[i] = h
    BY <1>4 DEF Has
  <2>2. CASE i \in 1 .. Len(s)
    BY <1>1, <2>1, <2>2 DEF Has
  <2>3. CASE i \notin 1 .. Len(s)
    <3>1. i - Len(s) \in 1 .. Len(u) /\ Len(s) + (i - Len(s)) = i
      BY <1>1, <2>3
    <3>2. u[i - Len(s)] = h
      BY <1>1, <2>1, <3>1
    <3> QED
      BY <3>1, <3>2 DEF Has
  <2> QED
    BY <2>2, <2>3
<1> QED
  BY <1>1, <1>2, <1>3, <1>4

LEMMA ConcatDistinct ==
  ASSUME NEW T, NEW s \in Seq(T), NEW u \in Seq(T), Distinct(s), Distinct(u),
         \A h : Has(s, h) /\ Has(u, h) => h = "notify"
  PROVE  Distinct(s \o u)
<1>1. /\ Len(s) \in Nat /\ Len(u) \in Nat
      /\ Len(s \o u) = Len(s) + Len(u)
      /\ \A i \in 1 .. Len(s) : (s \o u)[i] = s[i]
      /\ \A i \in 1 .. Len(u) : (s \o u)[Len(s) + i] = u[i]
  BY ConcatProperties, LenProperties
<1>2. \A i \in 1 .. Len(s \o u) : i \notin 1 .. Len(s) =>
         /\ i - Len(s) \in 1 .. Len(u) /\ Len(s) + (i - Len(s)) = i
         /\ (s \o u)[i] = u[i - Len(s)]
  <2> SUFFICES ASSUME NEW i \in 1 .. Len(s \o u), i \notin 1 .. Len(s)
               PROVE  /\ i - Len(s) \in 1 .. Len(u) /\ Len(s) + (i - Len(s)) = i
                      /\ (s \o u)[i] = u[i - Len(s)]
    OBVIOUS
  <2>1. i - Len(s) \in 1 .. Len(u) /\ Len(s) + (i - Len(s)) = i
    BY <1>1
  <2> QED
    BY <1>1, <2>1
<1> SUFFICES ASSUME NEW i \in 1 .. Len(s \o u), NEW j \in 1 .. Len(s \o u),
                    (s \o u)[i] = (s \o u)[j], (s \o u)[i] # "notify"
             PROVE  i = j
  BY DEF Distinct
<1>3. CASE i \in 1 .. Len(s) /\ j \in 1 .. Len(s)
  BY <1>1, <1>3 DEF Distinct
<1>4. CASE i \notin 1 .. Len(s) /\ j \notin 1 .. Len(s)
  <2>1. i - Len(s) = j - Len(s)
    BY <1>2, <1>4 DEF Distinct
  <2> QED
    BY <1>1, <2>1
<1>5. CASE i \in 1 .. Len(s) /\ j \notin 1 .. Len(s)
  <2>1. Has(s, (s \o u)[i]) /\ Has(u, (s \o u)[j])
    BY <1>1, <1>2, <1>5 DEF Has
  <2> QED
    BY <2>1
<1>6. CASE j \in 1 .. Len(s) /\ i \notin 1 .. Len(s)
  <2>1. Has(s, (s \o u)[j]) /\ Has(u, (s \o u)[i])
    BY <1>1, <1>2, <1>6 DEF Has
  <2> QED
    BY <2>1
<1> QED
  BY <1>3, <1>4, <1>5, <1>6

(* The head leaves it.                                                     *)
LEMMA TailHas ==
  ASSUME NEW T, NEW s \in Seq(T), s # <<>>, Distinct(s)
  PROVE  /\ Tail(s) \in Seq(T) /\ Head(s) \in T /\ Distinct(Tail(s))
         /\ \A h : Has(s, h) <=> Head(s) = h \/ Has(Tail(s), h)
         /\ Has(Tail(s), Head(s)) => Head(s) = "notify"
<1>1. /\ Tail(s) \in Seq(T) /\ Head(s) \in T /\ Head(s) = s[1]
      /\ Len(s) \in Nat \ {0} /\ Len(Tail(s)) = Len(s) - 1
      /\ \A i \in 1 .. Len(s) - 1 : Tail(s)[i] = s[i + 1]
  BY HeadTailProperties, LenProperties
<1>2. \A i \in 1 .. Len(Tail(s)) : i + 1 \in 1 .. Len(s) /\ Tail(s)[i] = s[i + 1]
  BY <1>1
<1>3. ASSUME NEW h, Has(s, h), Head(s) # h PROVE Has(Tail(s), h)
  <2>1. PICK i \in 1 .. Len(s) : s[i] = h
    BY <1>3 DEF Has
  <2>2. i - 1 \in 1 .. Len(Tail(s)) /\ Tail(s)[i - 1] = h
    BY <1>1, <1>3, <2>1
  <2> QED
    BY <2>2 DEF Has
<1>4. ASSUME NEW h, Has(Tail(s), h) PROVE Has(s, h)
  BY <1>2, <1>4 DEF Has
<1>5. Has(s, Head(s))
  BY <1>1 DEF Has
<1>6. Distinct(Tail(s))
  <2> SUFFICES ASSUME NEW i \in 1 .. Len(Tail(s)), NEW j \in 1 .. Len(Tail(s)),
                      Tail(s)[i] = Tail(s)[j], Tail(s)[i] # "notify"
               PROVE  i = j
    BY DEF Distinct
  <2>1. i + 1 = j + 1
    BY <1>2 DEF Distinct
  <2> QED
    BY <1>1, <2>1
<1>7. ASSUME Has(Tail(s), Head(s)), Head(s) # "notify" PROVE FALSE
  <2>1. PICK i \in 1 .. Len(Tail(s)) : Tail(s)[i] = Head(s)
    BY <1>7 DEF Has
  <2>2. i + 1 = 1
    BY <1>1, <1>2, <1>7, <2>1 DEF Distinct
  <2> QED
    BY <1>1, <2>2
<1> QED
  BY <1>1, <1>3, <1>4, <1>5, <1>6, <1>7

LEMMA One ==
  ASSUME NEW T, NEW x \in T
  PROVE  /\ <<x>> \in Seq(T) /\ Distinct(<<x>>) /\ <<>> \in Seq(T) /\ Distinct(<<>>)
         /\ \A h : (Has(<<x>>, h) <=> x = h) /\ ~Has(<<>>, h)
<1>1. /\ <<x>> \in Seq(T) /\ Len(<<x>>) = 1 /\ <<x>>[1] = x
      /\ <<>> \in Seq(T) /\ Len(<<>>) = 0
  BY EmptySeq
<1> QED
  BY <1>1 DEF Has, Distinct

LEMMA Elements ==
  ASSUME NEW T, NEW s \in Seq(T), NEW h, Has(s, h)
  PROVE  h \in T
  BY ElementOfSeq DEF Has

LEMMA Names ==
  /\ Tasks \subseteq Handles /\ Workers \subseteq Tasks /\ "main" \in Tasks
  /\ "notify" \in Handles \ Tasks /\ "none" \notin Handles /\ "main" \notin Workers
  /\ Handles = Tasks \cup {"notify"} /\ Tasks = Workers \cup {"main"}
  BY DEF Tasks, Workers, Handles

(* A wake-up is a queue of the task, if it is suspended.                   *)
LEMMA WakeIs ==
  ASSUME NEW t \in Tasks
  PROVE  /\ Wake(t) \in Seq(Handles) /\ Distinct(Wake(t))
         /\ \A h : Has(Wake(t), h) <=> h = t /\ Suspended(t)
<1>1. t \in Handles
  BY Names
<1>2. CASE Suspended(t)
  BY <1>1, <1>2, One DEF Wake
<1>3. CASE ~Suspended(t)
  BY <1>1, <1>3, One DEF Wake
<1> QED
  BY <1>2, <1>3

LEMMA ScheduledIs == \A h : Scheduled(h) <=> current = h \/ Has(ready, h)
  BY DEF Scheduled, Has

(* The queue grows by tasks that are not scheduled, and by callbacks.      *)
LEMMA ReadyGrows ==
  ASSUME LoopInv, NEW u \in Seq(Handles), Distinct(u),
         \A h \in Tasks : Has(u, h) => ~Has(ready, h) /\ h # current',
         ready' = ready \o u, current' \in {current, "none"}
  PROVE  /\ ready' \in Seq(Handles) /\ Distinct(ready')
         /\ current' \in Handles \cup {"none"}
         /\ Has(ready', current') => current' = "notify"
         /\ \A h : Has(ready', h) <=> Has(ready, h) \/ Has(u, h)
<1>1. /\ ready \in Seq(Handles) /\ Distinct(ready)
      /\ current \in Handles \cup {"none"}
      /\ Has(ready, current) => current = "notify"
  BY DEF LoopInv
<1>2. /\ ready' \in Seq(Handles)
      /\ \A h : Has(ready', h) <=> Has(ready, h) \/ Has(u, h)
  BY <1>1, ConcatHas
<1>3. \A h : Has(ready, h) /\ Has(u, h) => h = "notify"
  BY <1>1, Elements, Names
<1>4. Distinct(ready')
  BY <1>1, <1>3, ConcatDistinct
<1>5. Has(ready', current') => current' = "notify"
  <2> SUFFICES ASSUME Has(ready', current') PROVE current' = "notify"
    OBVIOUS
  <2>1. current' \in Handles
    BY <1>2, Elements
  <2>2. current' = current
    BY <2>1, Names
  <2> QED
    BY <1>1, <1>2, <2>1, <2>2, Names
<1> QED
  BY <1>1, <1>2, <1>4, <1>5

(* The running task goes on.                                               *)
LEMMA Continues ==
  ASSUME LoopInv, Continue
  PROVE  /\ LoopInv' /\ pc' = pc
         /\ \A h : Scheduled(h)' <=> Scheduled(h)
<1>1. ready' = ready /\ current' = current /\ pc' = pc /\ result' = result
  BY DEF Continue, loopVars
<1>2. \A h : Scheduled(h)' <=> Scheduled(h)
  BY <1>1, ScheduledIs DEF Scheduled
<1>3. LoopInv'
  BY <1>1, <1>2 DEF LoopInv, Active
<1> QED
  BY <1>1, <1>2, <1>3

(* The running task is suspended.                                          *)
LEMMA Suspends ==
  ASSUME LoopInv, NEW t \in Tasks, current = t, Suspend
  PROVE  /\ LoopInv' /\ pc' = pc
         /\ \A h \in Handles : Scheduled(h)' <=> Scheduled(h) /\ h # t
<1>1. /\ ready' = ready /\ current' = "none" /\ pc' = pc /\ result' = result
      /\ ready \in Seq(Handles)
  BY DEF Suspend, LoopInv
<1>2. \A h \in Handles : Scheduled(h)' <=> Has(ready, h)
  BY <1>1, Names DEF Scheduled, Has
<1>3. t # "notify" /\ "none" \notin Handles
  BY Names
<1>4. \A h \in Handles : Scheduled(h)' <=> Scheduled(h) /\ h # t
  BY <1>2, <1>3, ScheduledIs DEF LoopInv
<1>5. ~Has(ready, "none")
  BY <1>1, <1>3, Elements
<1>6. \A h \in Tasks : Scheduled(h)' => Active(h)'
  BY <1>1, <1>4, Names DEF LoopInv, Active
<1>7. LoopInv'
  BY <1>1, <1>5, <1>6 DEF LoopInv
<1> QED
  BY <1>1, <1>4, <1>7

(* The running worker is over, and its done callback is queued.            *)
LEMMA Finishes ==
  ASSUME LoopInv, NEW t \in Workers, current = t, NEW how \in Results,
         Finish(t, how)
  PROVE  /\ LoopInv' /\ pc' = [pc EXCEPT ![t] = "done"]
         /\ Scheduled("notify")'
         /\ \A h \in Tasks : Scheduled(h)' <=> Scheduled(h) /\ h # t
<1>1. /\ ready' = Append(ready, "notify") /\ current' = "none"
      /\ pc' = [pc EXCEPT ![t] = "done"]
      /\ result' = [result EXCEPT ![t] = how]
      /\ ready \in Seq(Handles) /\ "notify" \in Handles
  BY Names DEF Finish, LoopInv
<1>2. /\ <<"notify">> \in Seq(Handles) /\ Distinct(<<"notify">>)
      /\ \A h : Has(<<"notify">>, h) <=> h = "notify"
      /\ ready' = ready \o <<"notify">>
  BY <1>1, One, AppendIsConcat
<1>3. /\ ready' \in Seq(Handles) /\ Distinct(ready')
      /\ Has(ready', current') => current' = "notify"
      /\ \A h : Has(ready', h) <=> Has(ready, h) \/ h = "notify"
  BY <1>1, <1>2, ReadyGrows, Names
<1>4. \A h : Scheduled(h)' <=> current' = h \/ Has(ready', h)
  BY DEF Scheduled, Has
<1>5. Scheduled("notify")'
  BY <1>3, <1>4
<1>6. \A h \in Tasks : Scheduled(h)' <=> Scheduled(h) /\ h # t
  BY <1>1, <1>3, <1>4, ScheduledIs, Names DEF LoopInv
<1>7. \A h \in Tasks : Scheduled(h)' => Active(h)'
  BY <1>1, <1>6 DEF LoopInv, Active
<1>8. /\ pc' \in [Tasks -> Stages] /\ pc'["main"] = pc["main"]
      /\ \A u \in Workers : pc'[u] \in {"none", "run", "drain", "done"}
      /\ \A u \in Workers : pc'[u] = "drain" => u = "control"
  BY <1>1, Names DEF LoopInv, Stages
<1>9. result' \in [Workers -> Results]
  BY <1>1 DEF LoopInv
<1> QED
  BY <1>1, <1>3, <1>5, <1>6, <1>7, <1>8, <1>9 DEF LoopInv

(* The control task enters or leaves the wait of drain, and is suspended.  *)
LEMMA Moves ==
  ASSUME LoopInv, current = "control", NEW stage \in {"run", "drain"},
         pc' = [pc EXCEPT !["control"] = stage], current' = "none",
         UNCHANGED <<ready, result>>
  PROVE  /\ LoopInv' /\ pc'["control"] = stage
         /\ \A t \in Tasks \ {"control"} : pc'[t] = pc[t]
         /\ \A h \in Handles : Scheduled(h)' <=> Scheduled(h) /\ h # "control"
<1>1. /\ ready' = ready /\ result' = result /\ ready \in Seq(Handles)
      /\ "control" \in Workers /\ "control" \in Tasks /\ "control" # "main"
  BY Names DEF LoopInv, Workers
<1>2. /\ pc' \in [Tasks -> Stages] /\ pc'["control"] = stage
      /\ \A t \in Tasks \ {"control"} : pc'[t] = pc[t]
  BY <1>1 DEF LoopInv, Stages
<1>3. /\ pc'["main"] = pc["main"]
      /\ \A t \in Workers : pc'[t] \in {"none", "run", "drain", "done"}
      /\ \A t \in Workers : pc'[t] = "drain" => t = "control"
  BY <1>1, <1>2, Names DEF LoopInv
<1>4. \A h \in Handles : Scheduled(h)' <=> Has(ready, h)
  BY <1>1, Names DEF Scheduled, Has
<1>5. \A h \in Handles : Scheduled(h)' <=> Scheduled(h) /\ h # "control"
  BY <1>1, <1>4, ScheduledIs, Names DEF LoopInv
<1>6. ~Has(ready, "none")
  BY <1>1, Elements, Names
<1>7. \A h \in Tasks : Scheduled(h)' => Active(h)'
  BY <1>2, <1>5, Names DEF LoopInv, Active
<1>8. LoopInv'
  BY <1>1, <1>2, <1>3, <1>6, <1>7 DEF LoopInv
<1> QED
  BY <1>2, <1>5, <1>8

(* Tasks that are suspended are woken.                                     *)
LEMMA WakesAll ==
  ASSUME LoopInv, NEW u \in Seq(Handles), Distinct(u), ready' = ready \o u,
         \A h : Has(u, h) => h \in Tasks /\ Suspended(h),
         UNCHANGED <<current, pc, result>>
  PROVE  /\ LoopInv' /\ pc' = pc
         /\ \A h : Scheduled(h)' <=> Scheduled(h) \/ Has(u, h)
<1>1. current' = current /\ pc' = pc /\ result' = result
  OBVIOUS
<1>2. \A h \in Tasks : Has(u, h) => ~Has(ready, h) /\ h # current'
  BY <1>1, ScheduledIs DEF Suspended
<1>3. /\ ready' \in Seq(Handles) /\ Distinct(ready')
      /\ Has(ready', current') => current' = "notify"
      /\ \A h : Has(ready', h) <=> Has(ready, h) \/ Has(u, h)
  BY <1>1, <1>2, ReadyGrows
<1>4. \A h : Scheduled(h)' <=> current' = h \/ Has(ready', h)
  BY DEF Scheduled, Has
<1>5. \A h : Scheduled(h)' <=> Scheduled(h) \/ Has(u, h)
  BY <1>1, <1>3, <1>4, ScheduledIs
<1>6. \A h \in Tasks : Scheduled(h)' => Active(h)'
  BY <1>1, <1>5 DEF LoopInv, Active, Suspended
<1> QED
  BY <1>1, <1>3, <1>5, <1>6 DEF LoopInv

(* A task is woken.                                                        *)
LEMMA Wakes ==
  ASSUME LoopInv, NEW t \in Tasks, ready' = ready \o Wake(t),
         UNCHANGED <<current, pc, result>>
  PROVE  /\ LoopInv' /\ pc' = pc
         /\ \A h : Scheduled(h)' <=> Scheduled(h) \/ (h = t /\ Active(t))
<1>1. current' = current /\ pc' = pc /\ result' = result
  OBVIOUS
<1>2. /\ Wake(t) \in Seq(Handles) /\ Distinct(Wake(t))
      /\ \A h : Has(Wake(t), h) <=> h = t /\ Suspended(t)
  BY WakeIs
<1>3. /\ LoopInv' /\ pc' = pc
      /\ \A h : Scheduled(h)' <=> Scheduled(h) \/ (h = t /\ Suspended(t))
  BY <1>2, WakesAll
<1> QED
  BY <1>3 DEF Suspended

(* The oldest callback runs.                                               *)
LEMMA Dispatches ==
  ASSUME LoopInv, Dispatch, UNCHANGED <<pc, result>>
  PROVE  /\ LoopInv' /\ pc' = pc
         /\ \A h \in Handles : Scheduled(h)' <=> Scheduled(h)
<1>1. /\ pc' = pc /\ result' = result /\ current = "none"
      /\ ready # <<>> /\ current' = Head(ready) /\ ready' = Tail(ready)
      /\ ready \in Seq(Handles) /\ Distinct(ready)
  BY DEF Dispatch, LoopInv
<1>2. /\ ready' \in Seq(Handles) /\ current' \in Handles /\ Distinct(ready')
      /\ \A h : Has(ready, h) <=> current' = h \/ Has(ready', h)
      /\ Has(ready', current') => current' = "notify"
  BY <1>1, TailHas
<1>3. \A h : Scheduled(h)' <=> current' = h \/ Has(ready', h)
  BY DEF Scheduled, Has
<1>4. \A h \in Handles : Scheduled(h)' <=> Scheduled(h)
  BY <1>1, <1>2, <1>3, ScheduledIs, Names
<1>5. \A h \in Tasks : Scheduled(h)' => Active(h)'
  BY <1>1, <1>4, Names DEF LoopInv, Active
<1> QED
  BY <1>1, <1>2, <1>4, <1>5 DEF LoopInv

(* A completion is noticed.                                                *)
LEMMA Notifies ==
  ASSUME LoopInv, Notify, UNCHANGED <<pc, result>>
  PROVE  /\ LoopInv' /\ pc' = pc
         /\ \A h \in Tasks : Scheduled(h)' <=>
               \/ Scheduled(h)
               \/ /\ h = "main"
                  /\ \/ pc["main"] = "wait" /\ WaitOver
                     \/ pc["main"] = "gather" /\ AllDone
<1> DEFINE wakes == \/ pc["main"] = "wait" /\ WaitOver
                    \/ pc["main"] = "gather" /\ AllDone
           u == IF wakes THEN Wake("main") ELSE <<>>
<1>1. /\ pc' = pc /\ result' = result /\ current = "notify" /\ current' = "none"
      /\ ready' = ready \o u
  BY DEF Notify
<1>2. /\ u \in Seq(Handles) /\ Distinct(u)
      /\ \A h : Has(u, h) <=> wakes /\ h = "main" /\ Suspended("main")
  BY WakeIs, One, Names
<1>3. \A h \in Tasks : Has(u, h) => ~Has(ready, h) /\ h # current
  BY <1>2, ScheduledIs DEF Suspended
<1> HIDE DEF u, wakes
<1>4. /\ ready' \in Seq(Handles) /\ Distinct(ready')
      /\ Has(ready', current') => current' = "notify"
      /\ \A h : Has(ready', h) <=> Has(ready, h) \/ Has(u, h)
  BY <1>1, <1>2, <1>3, ReadyGrows
<1>5. \A h : Scheduled(h)' <=> current' = h \/ Has(ready', h)
  BY DEF Scheduled, Has
<1>6. wakes => Active("main")
  BY DEF wakes, Active
<1>7. \A h \in Tasks : Scheduled(h)' <=> Scheduled(h) \/ (h = "main" /\ wakes)
  BY <1>1, <1>2, <1>4, <1>5, <1>6, ScheduledIs, Names DEF Suspended
<1>8. \A h \in Tasks : Scheduled(h)' => Active(h)'
  BY <1>1, <1>6, <1>7 DEF LoopInv, Active
<1>9. LoopInv'
  BY <1>1, <1>4, <1>8 DEF LoopInv
<1> QED
  BY <1>1, <1>7, <1>9 DEF wakes

-----------------------------------------------------------------------------
(* The encoded queue.                                                      *)

LEMMA ArrivalEffect ==
  ASSUME PacketsInv, NEW kind \in Kinds, Q!Offer(kind)
  PROVE  /\ arrived' \in Seq(Kinds) /\ Len(arrived) \in Nat
         /\ Len(arrived') = Len(arrived) + 1
         /\ \A p \in 1 .. Len(arrived) : arrived'[p] = arrived[p]
         /\ arrived'[Len(arrived')] = kind
         /\ last' = last /\ got' = got
  BY AppendProperties, LenProperties DEF Q!Offer, PacketsInv

(* A put keeps the order and lets only the new packet in.                  *)
LEMMA PutStep ==
  ASSUME PacketsInv, NEW kind \in Kinds, Q!Put(kind)
  PROVE  /\ PacketsInv' /\ last' = last
         /\ Len(arrived') = Len(arrived) + 1
         /\ \A i \in 1 .. Len(queue') :
               queue'[i] = Len(arrived') \/ \E j \in 1 .. Len(queue) : queue'[i] = queue[j]
<1>1. Q!Offer(kind)
  BY DEF Q!Put, Q!PutRecovering, Q!PutOverflow, Q!PutNormal
<1>2. /\ arrived' \in Seq(Kinds) /\ Len(arrived) \in Nat
      /\ Len(arrived') = Len(arrived) + 1
      /\ \A p \in 1 .. Len(arrived) : arrived'[p] = arrived[p]
      /\ arrived'[Len(arrived')] = kind
      /\ last' = last /\ got' = got
  BY <1>1, ArrivalEffect
<1>3. /\ queue \in Seq(Nat) /\ Len(queue) \in Nat /\ Len(queue) <= MaxSize
      /\ recovering \in BOOLEAN /\ MaxSize \in Nat \ {0}
      /\ dropped \in Nat /\ got \in Nat /\ last \in Nat
      /\ last + Len(queue) <= Len(arrived)
      /\ \A i \in 1 .. Len(queue) : queue[i] = Len(arrived) - Len(queue) + i
      /\ recovering => queue = <<>>
  BY SessionAssumption, LenProperties DEF PacketsInv
<1>4. /\ recovering' \in BOOLEAN /\ dropped' \in Nat
  <2>1. CASE Q!PutRecovering(kind)
    <3>1. CASE kind = "key"
      BY <1>3, <2>1, <3>1 DEF Q!PutRecovering
    <3>2. CASE kind # "key"
      BY <1>3, <2>1, <3>2 DEF Q!PutRecovering
    <3> QED
      BY <3>1, <3>2
  <2>2. CASE Q!PutOverflow(kind)
    BY <1>3, <2>2 DEF Q!PutOverflow
  <2>3. CASE Q!PutNormal(kind)
    BY <1>3, <2>3 DEF Q!PutNormal
  <2> QED
    BY <2>1, <2>2, <2>3 DEF Q!Put
<1>5. CASE queue' = <<>> /\ recovering'
  BY <1>2, <1>3, <1>4, <1>5 DEF PacketsInv
<1>6. CASE queue' = <<Len(arrived')>> /\ kind = "key" /\ recovering' = FALSE
  BY <1>2, <1>3, <1>4, <1>6 DEF PacketsInv, Q!IsKey
<1>7. CASE /\ queue' = Append(queue, Len(arrived')) /\ ~recovering
           /\ recovering' = FALSE /\ Len(queue) # MaxSize
  <2>1. /\ queue' \in Seq(Nat) /\ Len(queue') = Len(queue) + 1
        /\ Len(queue') \in Nat /\ Len(arrived') \in Nat
        /\ \A i \in 1 .. Len(queue) : queue'[i] = queue[i]
        /\ queue'[Len(queue')] = Len(arrived')
    BY <1>2, <1>3, <1>7, AppendProperties
  <2>0. /\ Len(queue) \in Nat /\ Len(queue') = Len(queue) + 1 /\ last \in Nat
        /\ Len(arrived) \in Nat /\ Len(arrived') = Len(arrived) + 1 /\ last' = last
    BY <1>2, <1>3, <2>1
  <2>2. \A i \in 1 .. Len(queue') : queue'[i] = Len(arrived') - Len(queue') + i
    <3> SUFFICES ASSUME NEW i \in 1 .. Len(queue')
                 PROVE  queue'[i] = Len(arrived') - Len(queue') + i
      OBVIOUS
    <3>1. CASE i \in 1 .. Len(queue)
      <4>1. queue'[i] = Len(arrived) - Len(queue) + i
        BY <1>3, <2>1, <3>1
      <4> QED
        BY <2>0, <3>1, <4>1
    <3>2. CASE i = Len(queue')
      BY <2>0, <2>1, <3>2
    <3> QED
      BY <2>0, <3>1, <3>2
  <2>3. queue # <<>> => queue'[1] = queue[1] /\ queue[1] \in 1 .. Len(arrived) /\ queue' # <<>>
    BY <1>2, <1>3, <2>1
  <2>4. \/ last' + Len(queue') = Len(arrived')
        \/ queue' # <<>> /\ arrived'[queue'[1]] = "key"
    <3>1. CASE last + Len(queue) = Len(arrived)
      BY <2>0, <3>1
    <3>2. CASE queue # <<>> /\ Q!IsKey(queue[1])
      BY <1>2, <2>3, <3>2 DEF Q!IsKey
    <3> QED
      BY <1>7, <3>1, <3>2 DEF PacketsInv
  <2>5. \A i \in 1 .. Len(queue') :
           queue'[i] = Len(arrived') \/ \E j \in 1 .. Len(queue) : queue'[i] = queue[j]
    <3>1. \A i \in 1 .. Len(queue') : i \in 1 .. Len(queue) \/ i = Len(queue')
      BY <2>0
    <3> QED
      BY <2>1, <3>1
  <2>6. Len(queue') <= MaxSize /\ last' + Len(queue') <= Len(arrived')
    BY <1>2, <1>3, <1>7, <2>1
  <2> QED
    BY <1>2, <1>3, <1>4, <1>7, <2>1, <2>2, <2>4, <2>5, <2>6 DEF PacketsInv, Q!IsKey
<1>8. \/ queue' = <<>> /\ recovering'
      \/ queue' = <<Len(arrived')>> /\ kind = "key" /\ recovering' = FALSE
      \/ /\ queue' = Append(queue, Len(arrived')) /\ ~recovering
         /\ recovering' = FALSE /\ Len(queue) # MaxSize
  <2>1. CASE Q!PutRecovering(kind)
    <3>1. queue = <<>> /\ Append(<<>>, Len(arrived')) = <<Len(arrived')>>
      BY <1>3, <2>1 DEF Q!PutRecovering
    <3> QED
      BY <2>1, <3>1 DEF Q!PutRecovering
  <2>2. CASE Q!PutOverflow(kind)
    BY <2>2 DEF Q!PutOverflow
  <2>3. CASE Q!PutNormal(kind)
    BY <1>3, <2>3 DEF Q!PutNormal, Q!Full
  <2> QED
    BY <2>1, <2>2, <2>3 DEF Q!Put
<1> QED
  BY <1>5, <1>6, <1>7, <1>8

(* What get returns is newer than what it returned before, and a keyframe  *)
(* or the immediate successor.                                             *)
LEMMA GetStep ==
  ASSUME PacketsInv, Q!Get
  PROVE  /\ PacketsInv' /\ arrived' = arrived
         /\ last' \in 1 .. Len(arrived) /\ last < last'
         /\ Q!IsKey(last') \/ last' = last + 1
         /\ \A i \in 1 .. Len(queue') :
               /\ last' < queue'[i]
               /\ \E j \in 1 .. Len(queue) : queue'[i] = queue[j]
<1>1. /\ queue # <<>> /\ queue \in Seq(Nat) /\ Len(queue) <= MaxSize
      /\ arrived \in Seq(Kinds) /\ Len(arrived) \in Nat /\ MaxSize \in Nat
      /\ recovering' = recovering /\ dropped' = dropped /\ arrived' = arrived
      /\ recovering \in BOOLEAN /\ dropped \in Nat /\ last \in Nat
      /\ got' \in Nat /\ last' = Head(queue) /\ queue' = Tail(queue)
      /\ last + Len(queue) <= Len(arrived)
      /\ \A i \in 1 .. Len(queue) : queue[i] = Len(arrived) - Len(queue) + i
      /\ ~recovering
  BY SessionAssumption, LenProperties DEF PacketsInv, Q!Get
<1>2. /\ Len(queue) \in Nat \ {0} /\ queue' \in Seq(Nat)
      /\ Len(queue') = Len(queue) - 1 /\ last' = queue[1]
      /\ \A i \in 1 .. Len(queue') : i + 1 \in 1 .. Len(queue) /\ queue'[i] = queue[i + 1]
  BY <1>1, HeadTailProperties, LenProperties
<1>3. last' = Len(arrived) - Len(queue) + 1
  BY <1>1, <1>2
<1>4. last' \in 1 .. Len(arrived) /\ last < last' /\ last' + Len(queue') = Len(arrived)
  BY <1>1, <1>2, <1>3
<1>5. \A i \in 1 .. Len(queue') : queue'[i] = Len(arrived) - Len(queue') + i
  BY <1>1, <1>2
<1>6. Q!IsKey(last') \/ last' = last + 1
  BY <1>1, <1>2, <1>3 DEF PacketsInv
<1>7. \A i \in 1 .. Len(queue') : last' < queue'[i]
  BY <1>1, <1>2, <1>3, <1>5
<1>8. PacketsInv'
  BY <1>1, <1>2, <1>4, <1>5 DEF PacketsInv
<1> QED
  BY <1>1, <1>2, <1>4, <1>6, <1>7, <1>8

-----------------------------------------------------------------------------
(* receive_times and the decoder.                                          *)

(* The newest entries, as many as the queue can hold, survive the trimming.*)
LEMMA StampKeeps ==
  ASSUME NEW p \in Nat \ {0}, stamped \subseteq 1 .. p - 1,
         NEW x \in stamped \cup {p}, p - x < MaxSize
  PROVE  x \in Stamp(p) /\ Stamp(p) \subseteq 1 .. p
<1> DEFINE S == stamped \cup {p}
           L == {y \in S : y < x}
           H == {y \in S : y >= x}
<1>1. S \subseteq 1 .. p /\ p \in Int /\ x \in S /\ x \in Int
  BY SMT
<1>2. Stamp(p) \subseteq 1 .. p
  BY <1>1 DEF Stamp
<1>3. CASE ~(Cardinality(S) > StampLimit)
  BY <1>1, <1>2, <1>3 DEF Stamp
<1>4. CASE Cardinality(S) > StampLimit
  <2>0. \A y \in S : y \in 1 .. p /\ y \in Int
    BY <1>1
  <2> HIDE DEF S
  <2>1. IsFiniteSet(1 .. p) /\ IsFiniteSet(S)
    <3>1. IsFiniteSet(1 .. p)
      BY FS_Interval
    <3>2. S \in SUBSET (1 .. p)
      BY <1>1
    <3> QED
      BY <3>1, <3>2, FS_Subset
  <2>2. /\ IsFiniteSet(L) /\ IsFiniteSet(H)
        /\ Cardinality(L) \in Nat /\ Cardinality(H) \in Nat
        /\ Cardinality(S) \in Nat
    BY <2>1, FS_Subset, FS_CardinalityType
  <2>3. Cardinality(H) <= MaxSize
    <3>1. /\ IsFiniteSet(x .. p) /\ Cardinality(x .. p) = IF x > p THEN 0 ELSE p - x + 1
      BY <1>1, FS_Interval
    <3>2. H \in SUBSET (x .. p)
      <4>1. ASSUME NEW y \in S, y >= x PROVE y \in x .. p
        BY <1>1, <2>0, <4>1
      <4> QED
        BY <4>1
    <3>3. Cardinality(H) <= Cardinality(x .. p)
      BY <3>1, <3>2, FS_Subset
    <3>4. x <= p
      BY <1>1
    <3> HIDE DEF H
    <3> QED
      BY <1>1, <2>2, <3>1, <3>3, <3>4, SessionAssumption
  <2>4. S = L \cup H /\ L \cap H = {}
    <3>1. \A y \in S : (y < x \/ y >= x) /\ ~(y < x /\ y >= x)
      BY <1>1, <2>0
    <3> QED
      BY <3>1
  <2>5. Cardinality(S) = Cardinality(L) + Cardinality(H)
    <3>1. Cardinality(L \cup H) = Cardinality(L) + Cardinality(H) - Cardinality({})
      BY <2>2, <2>4, FS_Union
    <3>2. Cardinality({}) = 0
      BY FS_EmptySet
    <3> HIDE DEF L, H, S
    <3> QED
      BY <2>2, <2>4, <3>1, <3>2
  <2>6. ~(Cardinality(L) < StampTrim)
    <3> HIDE DEF L, H, S
    <3> QED
      BY <1>4, <2>2, <2>3, <2>5, SessionAssumption
  <2>7. x \notin Smallest(S, StampTrim)
    BY <2>6 DEF Smallest
  <2> QED
    BY <1>1, <1>2, <1>4, <2>7 DEF Stamp, S
<1> QED
  BY <1>3, <1>4

(* A set of naturals that is not empty has a least element.                *)
LEMMA Least ==
  ASSUME NEW T \in SUBSET Nat, T # {}
  PROVE  \E m \in T : \A j \in T : m <= j
<1> DEFINE R == {ss \in Nat \X Nat : ss[1] < ss[2]}
<1>1. R = OpToRel(<, Nat)
  BY DEF OpToRel
<1>2. IsWellFoundedOn(R, Nat)
  BY <1>1, NatLessThanWellFounded
<1>3. PICK m \in T : \A j \in T : ~(<<j, m>> \in R)
  <2> HIDE DEF R
  <2> QED
    BY <1>2, WFMin
<1>4. ASSUME NEW j \in T, j < m PROVE <<j, m>> \in R
  <2>1. <<j, m>> \in Nat \X Nat
    OBVIOUS
  <2> QED
    BY <1>4, <2>1
<1>5. m \in Nat /\ \A j \in T : j \in Nat
  OBVIOUS
<1>6. \A j \in T : ~(j < m)
  <2> HIDE DEF R
  <2> QED
    BY <1>3, <1>4, Zenon
<1> QED
  BY <1>5, <1>6

(* A packet more never makes receive_times larger than its limit.          *)
LEMMA StampBound ==
  ASSUME NEW p \in Nat \ {0}, stamped \subseteq 1 .. p - 1,
         Cardinality(stamped) <= StampLimit
  PROVE  Cardinality(Stamp(p)) <= StampLimit
<1> DEFINE S == stamped \cup {p}
<1>0. IsFiniteSet(stamped)
  <2>1. IsFiniteSet(1 .. p - 1) /\ stamped \in SUBSET (1 .. p - 1)
    BY FS_Interval
  <2> QED
    BY <2>1, FS_Subset
<1>1. /\ IsFiniteSet(S) /\ p \notin stamped
      /\ Cardinality(S) = Cardinality(stamped) + 1
  <2>1. p \notin stamped
    OBVIOUS
  <2> QED
    BY <1>0, <2>1, FS_AddElement
<1>2. CASE ~(Cardinality(S) > StampLimit)
  <2>1. Stamp(p) = S
    BY <1>2 DEF Stamp
  <2>2. Cardinality(S) \in Nat /\ StampLimit \in Nat
    BY <1>1, FS_CardinalityType, SessionAssumption
  <2> HIDE DEF S
  <2> QED
    BY <1>2, <2>1, <2>2
<1>3. CASE Cardinality(S) > StampLimit
  <2>1. S \in SUBSET Nat /\ S # {}
    OBVIOUS
  <2>2. Stamp(p) = S \ Smallest(S, StampTrim)
    BY <1>3 DEF Stamp
  <2> HIDE DEF S
  <2>3. PICK m \in S : \A y \in S : m <= y
    BY <2>1, Least
  <2>4. m \in Smallest(S, StampTrim)
    <3>1. {y \in S : y < m} = {}
      <4>1. \A y \in S : ~(y < m)
        BY <2>1, <2>3
      <4> QED
        BY <4>1
    <3>2. Cardinality({y \in S : y < m}) = 0
      BY <3>1, FS_EmptySet
    <3>3. 0 < StampTrim
      BY SessionAssumption
    <3> QED
      BY <3>2, <3>3 DEF Smallest
  <2>5. Stamp(p) \in SUBSET (S \ {m})
    BY <2>2, <2>4
  <2>6. IsFiniteSet(S \ {m}) /\ Cardinality(S \ {m}) = Cardinality(S) - 1
    BY <1>1, <2>3, FS_RemoveElement
  <2>7. Cardinality(Stamp(p)) <= Cardinality(S \ {m})
    BY <2>5, <2>6, FS_Subset
  <2>8. /\ Cardinality(stamped) \in Nat /\ StampLimit \in Nat
        /\ Cardinality(Stamp(p)) \in Nat
    BY <1>0, <2>5, <2>6, FS_CardinalityType, FS_Subset, SessionAssumption
  <2> QED
    BY <1>1, <2>6, <2>7, <2>8
<1> QED
  BY <1>2, <1>3

(* A packet that is queued is stamped, and so is every packet behind it.   *)
LEMMA StampStep ==
  ASSUME PacketsInv, DecoderInv, NEW kind \in Kinds, Q!Put(kind),
         stamped' = Stamp(Len(arrived) + 1), codec' = codec, synced' = synced
  PROVE  DecoderInv'
<1> DEFINE p == Len(arrived) + 1
<1>1. /\ PacketsInv' /\ last' = last /\ Len(arrived') = p
      /\ \A i \in 1 .. Len(queue') :
            queue'[i] = p \/ \E j \in 1 .. Len(queue) : queue'[i] = queue[j]
  BY PutStep
<1>2. /\ p \in Nat \ {0} /\ stamped \subseteq 1 .. p - 1 /\ p \in stamped \cup {p}
      /\ codec' \in 0 .. Len(arrived') /\ synced' \in BOOLEAN
      /\ MaxSize \in Nat \ {0}
  BY <1>1, SessionAssumption, LenProperties DEF DecoderInv, PacketsInv
<1>3. stamped' = Stamp(p)
  OBVIOUS
<1>4. \A i \in 1 .. Len(queue') : queue'[i] \in Int /\ p - queue'[i] < MaxSize
  <2> SUFFICES ASSUME NEW i \in 1 .. Len(queue')
               PROVE  queue'[i] \in Int /\ p - queue'[i] < MaxSize
    OBVIOUS
  <2>1. /\ queue'[i] = Len(arrived') - Len(queue') + i
        /\ Len(queue') \in Nat /\ Len(queue') <= MaxSize
    BY <1>1, LenProperties DEF PacketsInv
  <2> QED
    BY <1>1, <1>2, <2>1
<1>5. \A i \in 1 .. Len(queue') : queue'[i] \in stamped \cup {p}
  BY <1>1 DEF DecoderInv, StampsCoverQueue
<1> HIDE DEF p
<1>6. \A i \in 1 .. Len(queue') : queue'[i] \in Stamp(p)
  BY <1>2, <1>4, <1>5, StampKeeps
<1>7. Stamp(p) \subseteq 1 .. p
  <2>1. p - p < MaxSize
    BY <1>2
  <2> QED
    BY <1>2, <2>1, StampKeeps
<1>8. Cardinality(Stamp(p)) <= StampLimit
  BY <1>2, StampBound DEF DecoderInv
<1> QED
  BY <1>1, <1>2, <1>3, <1>6, <1>7, <1>8 DEF DecoderInv, StampsCoverQueue

(* A packet is taken with its stamp, and the codec decodes it or not.      *)
LEMMA TakeStep ==
  ASSUME PacketsInv, DecoderInv, TakesPacket,
         \/ ~synced /\ synced' = FALSE /\ codec' = codec
         \/ synced' = FALSE /\ codec' = 0
         \/ synced' \in BOOLEAN /\ codec' = last'
  PROVE  DecoderInv'
<1>1. /\ arrived' = arrived /\ last' \in 1 .. Len(arrived)
      /\ \A i \in 1 .. Len(queue') :
            /\ last' < queue'[i]
            /\ \E j \in 1 .. Len(queue) : queue'[i] = queue[j]
      /\ PacketsInv'
  BY GetStep DEF TakesPacket
<1>2. stamped' = stamped \ {last'}
  BY DEF TakesPacket
<1>3. \A i \in 1 .. Len(queue') : queue'[i] \in stamped'
  BY <1>1, <1>2 DEF DecoderInv, StampsCoverQueue
<1>4. /\ codec' \in 0 .. Len(arrived') /\ synced' \in BOOLEAN
      /\ synced' => codec' = last' /\ codec' # 0
  <2>1. codec \in 0 .. Len(arrived) /\ Len(arrived) \in Nat
    BY LenProperties DEF DecoderInv, PacketsInv
  <2>2. last' \in 0 .. Len(arrived') /\ last' # 0 /\ 0 \in 0 .. Len(arrived')
    BY <1>1, <2>1
  <2>3. CASE ~synced /\ synced' = FALSE /\ codec' = codec
    BY <1>1, <2>1, <2>3
  <2>4. CASE synced' = FALSE /\ codec' = 0
    BY <2>2, <2>4
  <2>5. CASE synced' \in BOOLEAN /\ codec' = last'
    BY <2>2, <2>5
  <2> QED
    BY <2>3, <2>4, <2>5
<1>5. stamped' \subseteq 1 .. Len(arrived')
  BY <1>1, <1>2 DEF DecoderInv
<1>6. Cardinality(stamped') <= StampLimit
  <2>1. /\ Len(arrived) \in Nat /\ stamped \in SUBSET (1 .. Len(arrived))
        /\ Cardinality(stamped) <= StampLimit /\ StampLimit \in Nat
    BY LenProperties, SessionAssumption DEF DecoderInv, PacketsInv
  <2>2. IsFiniteSet(1 .. Len(arrived))
    BY <2>1, FS_Interval
  <2>3. IsFiniteSet(stamped)
    BY <2>1, <2>2, FS_Subset
  <2>4. stamped' \in SUBSET stamped
    BY <1>2
  <2>5. IsFiniteSet(stamped') /\ Cardinality(stamped') <= Cardinality(stamped)
    BY <2>3, <2>4, FS_Subset
  <2>6. Cardinality(stamped) \in Nat /\ Cardinality(stamped') \in Nat
    BY <2>3, <2>5, FS_CardinalityType
  <2> QED
    BY <2>1, <2>5, <2>6
<1> QED
  BY <1>3, <1>4, <1>5, <1>6 DEF DecoderInv, StampsCoverQueue

-----------------------------------------------------------------------------
(* The steps of the workers.                                               *)

LEMMA ReadStep ==
  ASSUME NetInv, inbuf # <<>>, inbuf' = Tail(inbuf), sent' = sent, lost' = lost
  PROVE  NetInv'
<1>1. /\ inbuf \in Seq(Items) /\ Len(inbuf) \in Nat \ {0} /\ inbuf' \in Seq(Items)
      /\ Len(inbuf') = Len(inbuf) - 1
      /\ BufferSize \in Nat /\ Len(inbuf) <= BufferSize + 1
  BY SessionAssumption, HeadTailProperties, LenProperties DEF NetInv
<1>2. Len(inbuf') <= BufferSize /\ Len(inbuf') <= BufferSize + 1
  BY <1>1
<1> QED
  BY <1>1, <1>2 DEF NetInv

(* What a step of the worker t does to the loop: it may finish, wake other *)
(* workers, or await something; _run is woken by no worker.                *)
Runs(t) ==
    /\ LoopInv'
    /\ \A u \in Tasks \ {t} : pc'[u] = pc[u]
    /\ pc'[t] # "none"
    /\ pc'[t] = "done" => Scheduled("notify")'
    /\ Scheduled("main")' => Scheduled("main")
    /\ \A h \in Handles \ {t} : Scheduled(h) => Scheduled(h)'

LEMMA RunsOn ==
  ASSUME LoopInv, NEW t \in Workers, current = t
  PROVE  /\ Continue => Runs(t) /\ Scheduled(t)' /\ pc' = pc
         /\ Suspend => Runs(t) /\ pc' = pc
         /\ \A how \in Results : Finish(t, how) => Runs(t) /\ pc'[t] = "done"
         /\ \A w \in Workers :
               /\ ready' = ready \o Wake(w)
               /\ UNCHANGED <<current, pc, result>>
               => Runs(t) /\ Scheduled(t)' /\ pc' = pc /\ ~Suspended(w)'
<1>1. t \in Tasks /\ Scheduled(t) /\ t # "main" /\ pc[t] \notin {"none", "done"}
  BY Names DEF Scheduled, LoopInv, Active
<1>2. ASSUME Continue PROVE Runs(t) /\ Scheduled(t)' /\ pc' = pc
  BY <1>1, <1>2, Continues DEF Runs
<1>3. ASSUME Suspend PROVE Runs(t) /\ pc' = pc
  BY <1>1, <1>3, Suspends, Names DEF Runs
<1>4. ASSUME NEW how \in Results, Finish(t, how) PROVE Runs(t) /\ pc'[t] = "done"
  <2>1. /\ LoopInv' /\ pc' = [pc EXCEPT ![t] = "done"] /\ Scheduled("notify")'
        /\ \A h \in Tasks : Scheduled(h)' <=> Scheduled(h) /\ h # t
    BY <1>4, Finishes
  <2>2. pc'[t] = "done" /\ \A u \in Tasks \ {t} : pc'[u] = pc[u]
    BY <1>1, <2>1 DEF LoopInv
  <2> QED
    BY <1>1, <2>1, <2>2, Names DEF Runs
<1>5. ASSUME NEW w \in Workers, ready' = ready \o Wake(w),
             UNCHANGED <<current, pc, result>>
      PROVE  Runs(t) /\ Scheduled(t)' /\ pc' = pc /\ ~Suspended(w)'
  <2>1. w \in Tasks /\ w # "main"
    BY Names
  <2>2. /\ LoopInv' /\ pc' = pc
        /\ \A h : Scheduled(h)' <=> Scheduled(h) \/ (h = w /\ Active(w))
    BY <1>5, <2>1, Wakes
  <2>3. ~Suspended(w)'
    BY <2>2 DEF Suspended, Active
  <2> QED
    BY <1>1, <2>1, <2>2, <2>3 DEF Runs
<1> QED
  BY <1>2, <1>3, <1>4, <1>5

(* A worker runs in a session that streams or is being cancelled; its steps*)
(* keep the phase, and suspend no other worker.                            *)
LEMMA WorkerKeeps ==
  ASSUME LoopInv, PhaseInv, NEW t \in Workers, current = t, Runs(t),
         UNCHANGED <<outputVars, endVars>>
  PROVE  /\ PhaseInv' /\ pc'["main"] = pc["main"] /\ pc["main"] \in {"wait", "gather"}
         /\ \A w \in Workers \ {t} : Suspended(w)' => Suspended(w)
<1>1. /\ preview' = preview /\ sink' = sink /\ verdict' = verdict
      /\ outcome' = outcome /\ t \in Tasks /\ t # "main" /\ "main" \in Tasks
  BY Names DEF outputVars, endVars
<1>2. Active(t)
  BY <1>1 DEF LoopInv, Scheduled
<1>3. /\ pc'["main"] = pc["main"]
      /\ \A w \in Workers \ {t} : pc'[w] = pc[w]
      /\ pc'[t] # "none"
  BY <1>1, Names DEF Runs
<1>4. ~AllDone
  BY <1>2 DEF AllDone
<1>5. outcome = "none" /\ pc["main"] \in {"wait", "gather"}
  <2>1. outcome = "none"
    BY <1>4 DEF PhaseInv
  <2>2. pc["main"] # "hello"
    BY <1>2 DEF PhaseInv, Active
  <2> QED
    BY <2>1, <2>2 DEF PhaseInv
<1>6. \A w \in Workers \ {t} : Suspended(w)' => Suspended(w)
  BY <1>3, Names DEF Suspended, Active, Runs
<1>7. pc'["main"] = "wait" => \A w \in Workers : pc'[w] # "none"
  BY <1>3 DEF PhaseInv
<1>8. pc'["main"] = "gather" => verdict # "none" /\ ~Scheduled("main")'
  BY <1>3, <1>4 DEF PhaseInv, Runs
<1>9. PhaseInv'
  <2>1. /\ outcome' = "none" /\ pc'["main"] # "hello" /\ preview' # "closed"
        /\ preview' \in {"none", "open", "closed"}
        /\ sink' \in {"none", "open", "closed"} /\ verdict' \in Results
        /\ outcome' \in Results /\ pc'["main"] \in {"wait", "gather"}
        /\ preview' = "open"
    BY <1>1, <1>3, <1>5 DEF PhaseInv
  <2> QED
    BY <1>1, <1>7, <1>8, <2>1 DEF PhaseInv
<1> QED
  BY <1>3, <1>5, <1>6, <1>9

(* The wake-ups a worker owes when it is the only one that lost a reason to*)
(* wait.                                                                   *)
LEMMA WorkerWakes ==
  ASSUME LoopInv, PhaseInv, WakeInv, NEW t \in Workers, current = t, Runs(t),
         UNCHANGED <<outputVars, endVars>>,
         pc["main"] = "gather" => pc'[t] = "done",
         Suspended("ingest")' => \/ inbuf' = <<>> /\ ~lost'
                                 \/ t # "ingest" /\ inbuf' = inbuf /\ lost' = lost,
         Suspended("decode")' => queue' = <<>> \/ (t # "decode" /\ queue' = queue),
         Suspended("present")' => mailbox' = 0 \/ (t # "present" /\ mailbox' = mailbox),
         Suspended("control")' =>
            \/ pc'["control"] # "drain" \/ unsent'
            \/ t # "control" /\ unsent' = unsent
  PROVE  PhaseInv' /\ WakeInv'
<1>1. /\ PhaseInv' /\ pc'["main"] = pc["main"] /\ pc["main"] \in {"wait", "gather"}
      /\ \A w \in Workers \ {t} : Suspended(w)' => Suspended(w)
  BY WorkerKeeps
<1>2. pc'["main"] = "gather" =>
         /\ \A w \in Workers : ~Suspended(w)'
         /\ Scheduled("notify")'
  <2> SUFFICES ASSUME pc["main"] = "gather"
               PROVE  /\ \A w \in Workers : ~Suspended(w)'
                      /\ Scheduled("notify")'
    BY <1>1
  <2>1. pc'[t] = "done" /\ Scheduled("notify")'
    BY DEF Runs
  <2>2. ~Suspended(t)'
    BY <2>1 DEF Suspended, Active
  <2>3. \A w \in Workers : ~Suspended(w)
    BY DEF WakeInv
  <2> QED
    BY <1>1, <2>1, <2>2, <2>3
<1>3. pc'["main"] = "wait" =>
         /\ Suspended("ingest")' => inbuf' = <<>> /\ ~lost'
         /\ Suspended("decode")' => queue' = <<>>
         /\ Suspended("present")' => mailbox' = 0
         /\ pc'["control"] = "drain" => (Suspended("control")' => unsent')
         /\ WaitOver' => Scheduled("notify")' \/ Scheduled("main")'
  <2> SUFFICES ASSUME pc["main"] = "wait"
               PROVE  /\ Suspended("ingest")' => inbuf' = <<>> /\ ~lost'
                      /\ Suspended("decode")' => queue' = <<>>
                      /\ Suspended("present")' => mailbox' = 0
                      /\ pc'["control"] = "drain" => (Suspended("control")' => unsent')
                      /\ WaitOver' => Scheduled("notify")' \/ Scheduled("main")'
    BY <1>1
  <2>1. /\ "ingest" \in Workers /\ "decode" \in Workers /\ "present" \in Workers
        /\ "control" \in Workers /\ \A w \in Workers : w \in Tasks
    BY Names DEF Workers
  <2>2. Suspended("ingest")' => inbuf' = <<>> /\ ~lost'
    BY <1>1, <2>1 DEF WakeInv
  <2>3. Suspended("decode")' => queue' = <<>>
    BY <1>1, <2>1 DEF WakeInv
  <2>4. Suspended("present")' => mailbox' = 0
    BY <1>1, <2>1 DEF WakeInv
  <2>5. pc'["control"] = "drain" => (Suspended("control")' => unsent')
    BY <1>1, <2>1 DEF WakeInv, Runs
  <2>6. ASSUME NEW w \in Workers, pc'[w] = "done"
        PROVE  Scheduled("notify")' \/ Scheduled("main")'
    <3>1. CASE w = t
      BY <2>6, <3>1 DEF Runs
    <3>2. CASE w # t
      <4>1. pc[w] = "done"
        BY <2>1, <2>6, <3>2 DEF Runs
      <4>2. Scheduled("notify") \/ Scheduled("main")
        BY <4>1 DEF WakeInv, WaitOver
      <4> QED
        BY <4>2, Names DEF Runs
    <3> QED
      BY <3>1, <3>2
  <2> QED
    BY <2>2, <2>3, <2>4, <2>5, <2>6 DEF WaitOver
<1> QED
  BY <1>1, <1>2, <1>3 DEF WakeInv

LEMMA Kept ==
  /\ NetInv /\ UNCHANGED netVars => NetInv'
  /\ PacketsInv /\ UNCHANGED queueVars => PacketsInv'
  /\ DecoderInv /\ UNCHANGED <<queueVars, decoderVars>> => DecoderInv'
  /\ DisplayInv /\ UNCHANGED <<queueVars, displayVars>> => DisplayInv'
  /\ ControlInv /\ UNCHANGED controlVars => ControlInv'
<1>1. NetInv /\ UNCHANGED netVars => NetInv'
  BY DEF NetInv, netVars, Ended
<1>2. PacketsInv /\ UNCHANGED queueVars => PacketsInv'
  BY DEF PacketsInv, queueVars, Q!IsKey
<1>3. DecoderInv /\ UNCHANGED <<queueVars, decoderVars>> => DecoderInv'
  BY DEF DecoderInv, queueVars, decoderVars, StampsCoverQueue
<1>4. DisplayInv /\ UNCHANGED <<queueVars, displayVars>> => DisplayInv'
  BY DEF DisplayInv, queueVars, displayVars
<1>5. ControlInv /\ UNCHANGED controlVars => ControlInv'
  BY DEF ControlInv, controlVars
<1> QED
  BY <1>1, <1>2, <1>3, <1>4, <1>5

LEMMA IngestStep ==
  ASSUME SessionInv, current = "ingest", ~Cancelled, Ingest
  PROVE  SessionInv'
<1>1. /\ NetInv /\ LoopInv /\ PacketsInv /\ DecoderInv /\ DisplayInv
      /\ ControlInv /\ PhaseInv /\ WakeInv
      /\ "ingest" \in Workers /\ "decode" \in Workers
      /\ "os" \in Results /\ "ok" \in Results /\ "stream" \in Results
      /\ pc["main"] # "gather"
  BY DEF SessionInv, Workers, Results, Failures, Cancelled
<1>2. /\ sent' = sent /\ lost' = lost /\ codec' = codec /\ synced' = synced
      /\ UNCHANGED displayVars /\ UNCHANGED <<outputVars, endVars>>
      /\ UNCHANGED controlVars /\ mailbox' = mailbox /\ unsent' = unsent
  BY DEF Ingest, displayVars, controlVars
<1>3. ControlInv'
  BY <1>1, <1>2, Kept
<1>4. CASE IngestVideo
  <2> DEFINE kind == Head(inbuf)
  <2>1. /\ kind \in Kinds /\ Q!Put(kind) /\ inbuf # <<>> /\ inbuf' = Tail(inbuf)
        /\ stamped' = Stamp(Len(arrived) + 1)
        /\ ready' = ready \o (IF queue' = <<>> THEN <<>> ELSE Wake("decode"))
        /\ UNCHANGED <<current, pc, result>>
    BY <1>4 DEF IngestVideo, Unread
  <2> HIDE DEF kind
  <2>2. PacketsInv' /\ last' = last
    BY <1>1, <2>1, PutStep
  <2>3. DecoderInv'
    BY <1>1, <1>2, <2>1, StampStep
  <2>4. NetInv'
    BY <1>1, <1>2, <2>1, ReadStep
  <2>5. DisplayInv'
    BY <1>1, <1>2, <2>2 DEF DisplayInv, displayVars
  <2>6. Runs("ingest") /\ Scheduled("ingest")' /\ (Suspended("decode")' => queue' = <<>>)
    <3>1. CASE queue' = <<>>
      <4>1. Continue
        BY <1>1, <2>1, <3>1, ConcatEmptySeq DEF Continue, loopVars, LoopInv
      <4> QED
        BY <1>1, <3>1, <4>1, RunsOn
    <3>2. CASE queue' # <<>>
      BY <1>1, <2>1, <3>2, RunsOn
    <3> QED
      BY <3>1, <3>2
  <2>7. ~Suspended("ingest")'
    BY <2>6 DEF Suspended
  <2>8. PhaseInv' /\ WakeInv'
    BY <1>1, <1>2, <2>6, <2>7, WorkerWakes
  <2> QED
    BY <1>3, <2>2, <2>3, <2>4, <2>5, <2>6, <2>8 DEF SessionInv, Runs
<1>5. ASSUME UNCHANGED <<queueVars, stamped>>, Runs("ingest"), NetInv',
             Suspended("ingest")' => inbuf' = <<>> /\ ~lost'
      PROVE  SessionInv'
  <2>1. PacketsInv' /\ DecoderInv' /\ DisplayInv' /\ queue' = queue
    BY <1>1, <1>2, <1>5, Kept DEF decoderVars, queueVars
  <2>2. PhaseInv' /\ WakeInv'
    BY <1>1, <1>2, <1>5, <2>1, WorkerWakes
  <2> QED
    BY <1>3, <1>5, <2>1, <2>2 DEF SessionInv, Runs
<1>6. CASE IngestOther
  <2>1. Runs("ingest") /\ Scheduled("ingest")'
    BY <1>1, <1>6, RunsOn DEF IngestOther
  <2>2. NetInv'
    BY <1>1, <1>2, <1>6, ReadStep DEF IngestOther, Unread
  <2> QED
    BY <1>5, <1>6, <2>1, <2>2 DEF IngestOther, Suspended
<1>7. CASE IngestWaits
  <2>1. Runs("ingest") /\ inbuf' = <<>> /\ ~lost'
    BY <1>1, <1>2, <1>7, RunsOn DEF IngestWaits
  <2>2. NetInv'
    BY <1>1, <1>2, <1>7, Kept DEF IngestWaits, netVars
  <2> QED
    BY <1>5, <1>7, <2>1, <2>2 DEF IngestWaits
<1>8. CASE IngestEnds
  <2>1. Runs("ingest") /\ pc'["ingest"] = "done"
    BY <1>1, <1>8, RunsOn DEF IngestEnds
  <2>2. NetInv'
    BY <1>1, <1>2, <1>8, Kept DEF IngestEnds, netVars
  <2> QED
    BY <1>5, <1>8, <2>1, <2>2 DEF IngestEnds, Suspended, Active
<1> QED
  BY <1>4, <1>6, <1>7, <1>8 DEF Ingest

LEMMA DecodeStep ==
  ASSUME SessionInv, current = "decode", ~Cancelled, Decode
  PROVE  SessionInv'
<1>1. /\ NetInv /\ LoopInv /\ PacketsInv /\ DecoderInv /\ DisplayInv
      /\ ControlInv /\ PhaseInv /\ WakeInv
      /\ "decode" \in Workers /\ "present" \in Workers /\ "raise" \in Results
      /\ pc["main"] # "gather"
  BY DEF SessionInv, Workers, Results, Failures, Cancelled
<1>2. /\ UNCHANGED netVars /\ shown' = shown
      /\ UNCHANGED <<outputVars, endVars>> /\ UNCHANGED controlVars
      /\ inbuf' = inbuf /\ lost' = lost /\ unsent' = unsent
  BY DEF Decode, netVars, controlVars
<1>3. NetInv' /\ ControlInv'
  BY <1>1, <1>2, Kept
<1>4. ASSUME TakesPacket, Runs("decode"), ~Suspended("decode")',
             \/ ~synced /\ synced' = FALSE /\ codec' = codec
             \/ synced' = FALSE /\ codec' = 0
             \/ synced' \in BOOLEAN /\ codec' = last',
             \/ mailbox' = mailbox
             \/ mailbox' = last' /\ ~Suspended("present")'
      PROVE  SessionInv'
  <2>1. /\ PacketsInv' /\ DecoderInv'
        /\ last' \in Nat /\ last \in Nat /\ last < last'
    <3>1. Q!Get
      BY <1>4 DEF TakesPacket
    <3>2. last \in Nat
      BY <1>1 DEF PacketsInv
    <3>3. PacketsInv' /\ last' \in 1 .. Len(arrived) /\ last < last'
      BY <1>1, <3>1, GetStep
    <3>4. DecoderInv'
      BY <1>1, <1>4, TakeStep
    <3> QED
      BY <3>2, <3>3, <3>4
  <2>2. DisplayInv'
    BY <1>1, <1>2, <1>4, <2>1 DEF DisplayInv
  <2>3. PhaseInv' /\ WakeInv'
    BY <1>1, <1>2, <1>4, WorkerWakes
  <2> QED
    BY <1>3, <1>4, <2>1, <2>2, <2>3 DEF SessionInv, Runs
<1>5. CASE DecodeSkips
  <2>1. TakesPacket /\ ~synced /\ codec' = codec /\ synced' = FALSE /\ mailbox' = mailbox
    BY <1>1, <1>5 DEF DecodeSkips, Fed, DecoderInv
  <2>2. Runs("decode") /\ ~Suspended("decode")'
    BY <1>1, <1>5, RunsOn DEF DecodeSkips, Suspended
  <2> QED
    BY <1>4, <2>1, <2>2
<1>6. CASE DecoderUnavailable
  <2>1. TakesPacket /\ ~synced /\ codec' = codec /\ synced' = FALSE /\ mailbox' = mailbox
    BY <1>1, <1>6 DEF DecoderUnavailable, DecoderInv
  <2>2. Runs("decode") /\ ~Suspended("decode")'
    BY <1>1, <1>6, RunsOn DEF DecoderUnavailable, Suspended, Active
  <2> QED
    BY <1>4, <2>1, <2>2
<1>7. CASE DecodeFails
  <2>1. TakesPacket /\ codec' = 0 /\ synced' = FALSE /\ mailbox' = mailbox
    BY <1>7 DEF DecodeFails
  <2>2. Runs("decode") /\ ~Suspended("decode")'
    BY <1>1, <1>7, RunsOn DEF DecodeFails, Suspended
  <2> QED
    BY <1>4, <2>1, <2>2
<1>8. CASE Decodes
  <2>1. TakesPacket /\ codec' = last' /\ synced' \in BOOLEAN
    BY <1>1, <1>8 DEF Decodes, DecoderInv
  <2>2. CASE Continue /\ UNCHANGED mailbox
    <3>1. Runs("decode") /\ ~Suspended("decode")'
      BY <1>1, <2>2, RunsOn DEF Suspended
    <3> QED
      BY <1>4, <2>1, <2>2, <3>1
  <2>3. CASE /\ mailbox' = last' /\ ready' = ready \o Wake("present")
             /\ UNCHANGED <<current, pc, result>>
    <3>1. Runs("decode") /\ ~Suspended("decode")' /\ ~Suspended("present")'
      BY <1>1, <2>3, RunsOn DEF Suspended
    <3> QED
      BY <1>4, <2>1, <2>3, <3>1
  <2> QED
    BY <1>8, <2>2, <2>3 DEF Decodes
<1>9. CASE DecodeWaits
  <2>1. Runs("decode") /\ queue' = <<>> /\ mailbox' = mailbox
    BY <1>1, <1>9, RunsOn DEF DecodeWaits, queueVars
  <2>2. PacketsInv' /\ DecoderInv' /\ DisplayInv'
    BY <1>1, <1>2, <1>9, Kept DEF DecodeWaits, displayVars
  <2>3. PhaseInv' /\ WakeInv'
    BY <1>1, <1>2, <2>1, WorkerWakes
  <2> QED
    BY <1>3, <2>1, <2>2, <2>3 DEF SessionInv, Runs
<1> QED
  BY <1>5, <1>6, <1>7, <1>8, <1>9 DEF Decode

LEMMA PresentStep ==
  ASSUME SessionInv, current = "present", ~Cancelled, Present
  PROVE  SessionInv'
<1>1. /\ NetInv /\ LoopInv /\ PacketsInv /\ DecoderInv /\ DisplayInv
      /\ ControlInv /\ PhaseInv /\ WakeInv
      /\ "present" \in Workers /\ "ok" \in Results /\ "raise" \in Results
      /\ pc["main"] # "gather"
  BY DEF SessionInv, Workers, Results, Failures, Cancelled
<1>2. /\ UNCHANGED netVars /\ UNCHANGED <<outputVars, endVars>>
      /\ UNCHANGED controlVars /\ UNCHANGED <<queueVars, decoderVars>>
      /\ inbuf' = inbuf /\ lost' = lost /\ queue' = queue /\ last' = last
      /\ unsent' = unsent
  BY DEF Present, netVars, queueVars, controlVars
<1>3. NetInv' /\ ControlInv' /\ PacketsInv' /\ DecoderInv'
  BY <1>1, <1>2, Kept
<1>4. DisplayInv' /\ Runs("present") /\ (Suspended("present")' => mailbox' = 0)
  <2>1. CASE Show
    <3>1. DisplayInv'
      BY <1>1, <1>2, <2>1 DEF Show, DisplayInv, PacketsInv
    <3>2. Runs("present") /\ (Suspended("present")' => mailbox' = 0)
      <4>1. mailbox' = 0
        BY <2>1 DEF Show
      <4>2. Continue \/ \E how \in Results : Finish("present", how)
        BY <1>1, <2>1 DEF Show
      <4> QED
        BY <1>1, <4>1, <4>2, RunsOn
    <3> QED
      BY <3>1, <3>2
  <2>2. CASE PresentWaits
    BY <1>1, <1>2, <2>2, Kept, RunsOn DEF PresentWaits, displayVars
  <2> QED
    BY <2>1, <2>2 DEF Present
<1>5. PhaseInv' /\ WakeInv'
  BY <1>1, <1>2, <1>4, WorkerWakes
<1> QED
  BY <1>3, <1>4, <1>5 DEF SessionInv, Runs

(* A step of a worker that touches none of what the others wait for.       *)
LEMMA QuietStep ==
  ASSUME SessionInv, NEW t \in Workers, current = t, Runs(t), ControlInv',
         pc["main"] = "gather" => pc'[t] = "done",
         Suspended(t)' => t = "control",
         Suspended("control")' =>
            \/ pc'["control"] # "drain" \/ unsent'
            \/ t # "control" /\ unsent' = unsent,
         UNCHANGED <<netVars, queueVars, decoderVars, displayVars, outputVars,
                     endVars>>
  PROVE  SessionInv'
<1>1. /\ NetInv /\ LoopInv /\ PacketsInv /\ DecoderInv /\ DisplayInv
      /\ PhaseInv /\ WakeInv
  BY DEF SessionInv
<1>2. NetInv' /\ PacketsInv' /\ DecoderInv' /\ DisplayInv'
  BY <1>1, Kept
<1>3. /\ inbuf' = inbuf /\ lost' = lost /\ queue' = queue /\ mailbox' = mailbox
      /\ UNCHANGED <<outputVars, endVars>>
  BY DEF netVars, queueVars, displayVars
<1>4. PhaseInv' /\ WakeInv'
  <2>1. /\ Suspended("ingest")' => t # "ingest"
        /\ Suspended("decode")' => t # "decode"
        /\ Suspended("present")' => t # "present"
    OBVIOUS
  <2> QED
    BY <1>1, <1>3, <2>1, WorkerWakes
<1> QED
  BY <1>2, <1>4 DEF SessionInv, Runs

LEMMA ControlStep ==
  ASSUME SessionInv, current = "control", ~Cancelled, Control
  PROVE  SessionInv'
<1>1. /\ LoopInv /\ ControlInv /\ "control" \in Workers /\ "os" \in Results
      /\ pc["main"] # "gather"
  BY DEF SessionInv, Workers, Results, Failures, Cancelled
<1>2. /\ UNCHANGED <<netVars, queueVars, decoderVars, displayVars, outputVars, endVars>>
      /\ version' = version
  BY DEF Control
<1>3. ControlInv'
  <2>1. /\ version \in 0 .. MaxVersion /\ MaxVersion \in Nat /\ unsent \in BOOLEAN
        /\ written \in -1 .. MaxVersion /\ line \in -1 .. MaxVersion
        /\ version' \in 0 .. MaxVersion
    BY <1>1, <1>2, SessionAssumption DEF ControlInv
  <2>2. version \in -1 .. MaxVersion
    BY <2>1
  <2>3. /\ written' \in {written, version, line} /\ line' \in {line, version}
        /\ unsent' \in BOOLEAN
    BY <2>1
       DEF Control, ControlRests, ControlWrites, ControlDrains, DrainReturns,
           ControlFails
  <2>4. written' \in -1 .. MaxVersion /\ line' \in -1 .. MaxVersion
    BY <2>1, <2>2, <2>3
  <2> QED
    BY <2>1, <2>3, <2>4 DEF ControlInv
<1>4. /\ Runs("control")
      /\ Suspended("control")' => pc'["control"] # "drain" \/ unsent'
  <2>1. CASE Suspend /\ pc["control"] = "run"
    BY <1>1, <2>1, RunsOn
  <2>2. ASSUME NEW stage \in {"run", "drain"}, stage = "drain" => unsent',
               pc' = [pc EXCEPT !["control"] = stage], current' = "none",
               UNCHANGED <<ready, result>>
        PROVE  /\ Runs("control")
               /\ Suspended("control")' => pc'["control"] # "drain" \/ unsent'
    <3>1. /\ LoopInv' /\ pc'["control"] = stage
          /\ \A t \in Tasks \ {"control"} : pc'[t] = pc[t]
          /\ \A h \in Handles : Scheduled(h)' <=> Scheduled(h) /\ h # "control"
      BY <1>1, <2>2, Moves
    <3> QED
      BY <2>2, <3>1, Names DEF Runs
  <2>3. CASE Finish("control", "os")
    BY <1>1, <2>3, RunsOn
  <2>4. CASE ControlRests \/ ControlWrites
    BY <2>1, <2>4 DEF ControlRests, ControlWrites
  <2>5. CASE ControlDrains
    BY <2>2, <2>5 DEF ControlDrains
  <2>6. CASE DrainReturns
    BY <2>2, <2>6 DEF DrainReturns
  <2>7. CASE ControlFails
    BY <2>3, <2>7 DEF ControlFails
  <2> QED
    BY <2>4, <2>5, <2>6, <2>7 DEF Control
<1> QED
  BY <1>1, <1>2, <1>3, <1>4, QuietStep

LEMMA CancelStep ==
  ASSUME SessionInv, NEW t \in Workers, current = t, EndCancelled(t)
  PROVE  SessionInv'
<1>1. LoopInv /\ ControlInv /\ "cancelled" \in Results
  BY DEF SessionInv, Results
<1>2. /\ UNCHANGED <<netVars, queueVars, decoderVars, displayVars, outputVars, endVars>>
      /\ UNCHANGED controlVars /\ unsent' = unsent
  BY DEF EndCancelled, controlVars
<1>3. ControlInv'
  BY <1>1, <1>2, Kept
<1>4. Runs(t) /\ pc'[t] = "done"
  BY <1>1, RunsOn DEF EndCancelled
<1>5. ~Suspended(t)'
  BY <1>4 DEF Suspended, Active
<1> QED
  BY <1>2, <1>3, <1>4, <1>5, QuietStep

LEMMA WorkerStep == SessionInv /\ Worker => SessionInv'
<1> SUFFICES ASSUME SessionInv, Worker PROVE SessionInv'
  OBVIOUS
<1>1. PICK t \in Workers :
         /\ current = t
         /\ \/ EndCancelled(t)
            \/ ~Cancelled /\ t = "ingest" /\ Ingest
            \/ ~Cancelled /\ t = "decode" /\ Decode
            \/ ~Cancelled /\ t = "present" /\ Present
            \/ ~Cancelled /\ t = "control" /\ Control
  BY Zenon DEF Worker
<1> QED
  BY <1>1, CancelStep, IngestStep, DecodeStep, PresentStep, ControlStep

-----------------------------------------------------------------------------
(* The steps of the loop and from outside.                                 *)

(* What _run awaits has come, but for its being noticed.                   *)
Due == \/ pc["main"] = "wait" /\ WaitOver
       \/ pc["main"] = "gather" /\ AllDone

(* No task is suspended, and _run is woken in time, and not before.        *)
LEMMA LoopStepKeeps ==
  ASSUME PhaseInv, WakeInv, pc' = pc, inbuf' = inbuf, lost' = lost,
         queue' = queue, mailbox' = mailbox, unsent' = unsent,
         UNCHANGED <<outputVars, endVars>>,
         \A h \in Tasks : Scheduled(h) => Scheduled(h)',
         Scheduled("main")' => Scheduled("main") \/ pc["main"] # "gather" \/ AllDone,
         Due /\ Scheduled("notify") => Scheduled("notify")' \/ Scheduled("main")'
  PROVE  PhaseInv' /\ WakeInv'
<1>1. /\ preview' = preview /\ sink' = sink /\ verdict' = verdict
      /\ outcome' = outcome
  BY DEF outputVars, endVars
<1>2. (AllDone' <=> AllDone) /\ (WaitOver' <=> WaitOver)
  BY DEF AllDone, WaitOver, Active
<1>3. PhaseInv'
  BY <1>1, <1>2 DEF PhaseInv
<1>4. \A h \in Tasks : Suspended(h)' => Suspended(h)
  BY DEF Suspended, Active
<1>5. /\ "ingest" \in Tasks /\ "decode" \in Tasks /\ "present" \in Tasks
      /\ "control" \in Tasks /\ "main" \in Tasks /\ \A t \in Workers : t \in Tasks
  BY DEF Tasks, Workers
<1>6. WakeInv'
  <2>1. /\ pc["main"] = "wait" /\ WaitOver => Scheduled("notify")' \/ Scheduled("main")'
        /\ pc["main"] = "gather" /\ AllDone => Scheduled("notify")' \/ Scheduled("main")'
    BY <1>5 DEF WakeInv, Due
  <2> QED
    BY <1>2, <1>4, <1>5, <2>1 DEF WakeInv
<1> QED
  BY <1>3, <1>6

LEMMA SchedulingStep ==
  ASSUME SessionInv, Scheduling \/ Timer
  PROVE  SessionInv'
<1>1. /\ NetInv /\ LoopInv /\ PacketsInv /\ DecoderInv /\ DisplayInv
      /\ ControlInv /\ PhaseInv /\ WakeInv
  BY DEF SessionInv
<1>2. UNCHANGED <<netVars, pc, result, queueVars, decoderVars, displayVars,
                  outputVars, controlVars, endVars>>
  BY DEF Scheduling, Timer
<1>3. NetInv' /\ PacketsInv' /\ DecoderInv' /\ DisplayInv' /\ ControlInv'
  BY <1>1, <1>2, Kept
<1>4. /\ pc' = pc /\ result' = result /\ inbuf' = inbuf /\ lost' = lost
      /\ queue' = queue /\ mailbox' = mailbox /\ unsent' = unsent
      /\ UNCHANGED <<outputVars, endVars>>
  BY <1>2 DEF netVars, queueVars, displayVars, controlVars
<1>5. /\ LoopInv'
      /\ \A h \in Tasks : Scheduled(h) => Scheduled(h)'
      /\ Scheduled("main")' => Scheduled("main") \/ pc["main"] # "gather" \/ AllDone
      /\ Due /\ Scheduled("notify") => Scheduled("notify")' \/ Scheduled("main")'
  <2>1. CASE Dispatch
    BY <1>1, <1>4, <2>1, Dispatches, Names
  <2>2. CASE Notify
    BY <1>1, <1>4, <2>2, Notifies, Names DEF Due
  <2>3. CASE ControlTimer
    <3>1. /\ "control" \in Tasks /\ "control" # "main" /\ current' = current
          /\ ready' = Append(ready, "control") /\ Wake("control") = <<"control">>
          /\ ready \in Seq(Handles) /\ "control" \in Handles
      BY <1>1, <2>3 DEF ControlTimer, Tasks, Workers, Handles, Wake, LoopInv
    <3>2. ready' = ready \o Wake("control")
      BY <3>1, AppendIsConcat
    <3> QED
      BY <1>1, <1>4, <3>1, <3>2, Wakes
  <2> QED
    BY <2>1, <2>2, <2>3 DEF Scheduling, Timer
<1>6. PhaseInv' /\ WakeInv'
  BY <1>1, <1>4, <1>5, LoopStepKeeps
<1> QED
  BY <1>3, <1>5, <1>6 DEF SessionInv

LEMMA UpdateStep ==
  ASSUME SessionInv, Update
  PROVE  SessionInv'
<1>1. /\ NetInv /\ LoopInv /\ PacketsInv /\ DecoderInv /\ DisplayInv
      /\ ControlInv /\ PhaseInv /\ WakeInv
  BY DEF SessionInv
<1>2. /\ UNCHANGED <<netVars, loopVars, queueVars, decoderVars, displayVars,
                     outputVars, endVars>>
      /\ written' = written /\ line' = line /\ unsent' = unsent
  BY DEF Update
<1>3. NetInv' /\ PacketsInv' /\ DecoderInv' /\ DisplayInv'
  BY <1>1, <1>2, Kept
<1>4. ControlInv'
  BY <1>1, <1>2, SessionAssumption DEF Update, ControlInv
<1>5. LoopInv' /\ pc' = pc /\ \A h : Scheduled(h)' <=> Scheduled(h)
  BY <1>1, <1>2, Continues DEF Continue
<1>6. /\ inbuf' = inbuf /\ lost' = lost /\ queue' = queue /\ mailbox' = mailbox
      /\ UNCHANGED <<outputVars, endVars>>
  BY <1>2 DEF netVars, queueVars, displayVars
<1>7. PhaseInv' /\ WakeInv'
  BY <1>1, <1>2, <1>5, <1>6, LoopStepKeeps
<1> QED
  BY <1>3, <1>4, <1>5, <1>7 DEF SessionInv

LEMMA ReceiveStep ==
  ASSUME NetInv, Flush \/ Reset \/ \E item \in Items : Receive(item)
  PROVE  NetInv'
<1>1. CASE Flush \/ Reset
  BY <1>1 DEF Flush, Reset, NetInv, Ended, netVars
<1>2. ASSUME NEW item \in Items, Receive(item) PROVE NetInv'
  <2>1. /\ inbuf' = Append(inbuf, item) /\ lost' = lost /\ ~Ended
        /\ inbuf \in Seq(Items) /\ Len(inbuf) <= BufferSize
        /\ sent' = IF item = "eof" THEN sent ELSE sent + 1
        /\ item = "eof" \/ (Len(inbuf) < BufferSize /\ sent < MaxArrivals)
        /\ BufferSize \in Nat /\ MaxArrivals \in Nat /\ sent \in 0 .. MaxArrivals
    BY <1>2, SessionAssumption DEF Receive, NetInv
  <2>2. /\ inbuf' \in Seq(Items) /\ Len(inbuf) \in Nat
        /\ Len(inbuf') = Len(inbuf) + 1 /\ inbuf'[Len(inbuf')] = item
        /\ inbuf' # <<>>
    BY <2>1, AppendProperties, LenProperties
  <2>3. sent' \in 0 .. MaxArrivals /\ Len(inbuf') <= BufferSize + 1
    BY <2>1, <2>2
  <2>4. Ended' \/ Len(inbuf') <= BufferSize
    BY <2>1, <2>2 DEF Ended
  <2> QED
    BY <2>1, <2>2, <2>3, <2>4 DEF NetInv
<1> QED
  BY <1>1, <1>2

(* The task that waits for its bytes to go, when it is suspended.          *)
LEMMA WriterIs ==
  /\ WakeWriter \in Seq(Handles) /\ Distinct(WakeWriter)
  /\ \A h : Has(WakeWriter, h) <=>
               /\ Suspended(h)
               /\ \/ pc["main"] = "closing" /\ h = "main"
                  \/ /\ pc["main"] # "closing" /\ pc["control"] = "drain"
                     /\ h = "control"
<1>1. "main" \in Tasks /\ "control" \in Tasks
  BY DEF Tasks, Workers
<1>2. CASE pc["main"] = "closing"
  BY <1>1, <1>2, WakeIs DEF WakeWriter
<1>3. CASE pc["main"] # "closing" /\ pc["control"] = "drain"
  BY <1>1, <1>3, WakeIs DEF WakeWriter
<1>4. CASE pc["main"] # "closing" /\ pc["control"] # "drain"
  <2>1. WakeWriter = <<>>
    BY <1>4 DEF WakeWriter
  <2>2. <<>> \in Seq(Handles) /\ Distinct(<<>>) /\ \A h : ~Has(<<>>, h)
    BY One, Names
  <2> QED
    BY <1>4, <2>1, <2>2
<1> QED
  BY <1>2, <1>3, <1>4

(* Whoever waits for what has changed is woken.                            *)
LEMMA PollWakes ==
  ASSUME LoopInv, Flush \/ Reset \/ \E item \in Items : Receive(item),
         UNCHANGED <<current, pc, result>>
  PROVE  /\ LoopInv' /\ pc' = pc
         /\ \A h : Scheduled(h) => Scheduled(h)'
         /\ \A h : Scheduled(h)' => \/ Scheduled(h)
                                    \/ h = Reader
                                    \/ h = "control"
                                    \/ h = "main" /\ pc["main"] = "closing"
         /\ (inbuf' = inbuf /\ lost' = lost) \/ ~Suspended(Reader)'
         /\ unsent' = unsent
               \/ /\ pc["main"] = "closing" => ~Suspended("main")'
                  /\ pc["main"] # "closing" /\ pc["control"] = "drain"
                        => ~Suspended("control")'
<1>1. Reader \in Tasks /\ Reader # "control" /\ (Reader = "main" => pc["main"] = "hello")
  BY DEF Reader, Tasks, Workers
<1>2. "main" \in Tasks /\ "control" \in Tasks /\ \A h \in Tasks : h \in Handles
  BY Names DEF Tasks, Workers
<1>3. /\ WakeWriter \in Seq(Handles) /\ Distinct(WakeWriter)
      /\ \A h : Has(WakeWriter, h) <=>
                   /\ Suspended(h)
                   /\ \/ pc["main"] = "closing" /\ h = "main"
                      \/ /\ pc["main"] # "closing" /\ pc["control"] = "drain"
                         /\ h = "control"
  BY WriterIs
<1>4. /\ Wake(Reader) \in Seq(Handles) /\ Distinct(Wake(Reader))
      /\ \A h : Has(Wake(Reader), h) <=> h = Reader /\ Suspended(h)
  BY <1>1, WakeIs
<1>5. CASE \E item \in Items : Receive(item)
  <2>1. ready' = ready \o Wake(Reader) /\ unsent' = unsent
    BY <1>5 DEF Receive
  <2>2. /\ LoopInv' /\ pc' = pc
        /\ \A h : Scheduled(h)' <=> Scheduled(h) \/ (h = Reader /\ Active(Reader))
    BY <1>1, <2>1, Wakes
  <2>3. ~Suspended(Reader)'
    BY <2>2 DEF Suspended, Active, Reader
  <2> QED
    BY <2>1, <2>2, <2>3
<1>6. CASE Flush
  <2>1. ready' = ready \o WakeWriter /\ inbuf' = inbuf /\ lost' = lost
    BY <1>6 DEF Flush, netVars
  <2>2. /\ LoopInv' /\ pc' = pc
        /\ \A h : Scheduled(h)' <=> Scheduled(h) \/ Has(WakeWriter, h)
    <3>1. \A h : Has(WakeWriter, h) => h \in Tasks /\ Suspended(h)
      BY <1>2, <1>3
    <3> QED
      BY <1>3, <2>1, <3>1, WakesAll
  <2>3. /\ pc["main"] = "closing" => ~Suspended("main")'
        /\ pc["main"] # "closing" /\ pc["control"] = "drain" => ~Suspended("control")'
    BY <1>3, <2>2 DEF Suspended, Active
  <2> QED
    BY <1>3, <2>1, <2>2, <2>3
<1>7. CASE Reset
  <2> DEFINE u == Wake(Reader) \o WakeWriter
  <2>1. ready' = ready \o u
    BY <1>3, <1>4, <1>7, ConcatAssociative DEF Reset, LoopInv
  <2>2. /\ u \in Seq(Handles) /\ Distinct(u)
        /\ \A h : Has(u, h) <=> Has(Wake(Reader), h) \/ Has(WakeWriter, h)
    <3>1. \A h : ~(Has(Wake(Reader), h) /\ Has(WakeWriter, h))
      BY <1>1, <1>3, <1>4
    <3> QED
      BY <1>3, <1>4, <3>1, ConcatHas, ConcatDistinct
  <2> HIDE DEF u
  <2>3. /\ LoopInv' /\ pc' = pc
        /\ \A h : Scheduled(h)' <=> Scheduled(h) \/ Has(u, h)
    <3>1. \A h : Has(u, h) => h \in Tasks /\ Suspended(h)
      BY <1>1, <1>2, <1>3, <1>4, <2>2
    <3> QED
      BY <2>1, <2>2, <3>1, WakesAll
  <2>4. ~Suspended(Reader)'
    BY <1>4, <2>2, <2>3 DEF Suspended, Active, Reader
  <2>5. /\ pc["main"] = "closing" => ~Suspended("main")'
        /\ pc["main"] # "closing" /\ pc["control"] = "drain" => ~Suspended("control")'
    BY <1>3, <2>2, <2>3 DEF Suspended, Active
  <2> QED
    BY <1>3, <1>4, <2>2, <2>3, <2>4, <2>5
<1> QED
  BY <1>5, <1>6, <1>7

LEMMA PollStep ==
  ASSUME SessionInv, Poll
  PROVE  SessionInv'
<1>1. /\ NetInv /\ LoopInv /\ PacketsInv /\ DecoderInv /\ DisplayInv
      /\ ControlInv /\ PhaseInv /\ WakeInv
  BY DEF SessionInv
<1>2. /\ UNCHANGED <<queueVars, decoderVars, displayVars, outputVars, endVars>>
      /\ UNCHANGED <<current, pc, result>>
      /\ version' = version /\ written' = written /\ line' = line
      /\ Flush \/ Reset \/ \E item \in Items : Receive(item)
  BY DEF Poll
<1>3. NetInv' /\ PacketsInv' /\ DecoderInv' /\ DisplayInv' /\ ControlInv'
  <2>1. unsent' \in BOOLEAN
    BY <1>1, <1>2 DEF Flush, Reset, Receive, ControlInv
  <2>2. ControlInv'
    BY <1>1, <1>2, <2>1 DEF ControlInv
  <2> QED
    BY <1>1, <1>2, <2>2, Kept, ReceiveStep
<1>4. /\ Reader = IF pc["main"] = "hello" THEN "main" ELSE "ingest"
      /\ Reader' = IF pc'["main"] = "hello" THEN "main" ELSE "ingest"
      /\ "ingest" \in Workers /\ "decode" \in Workers /\ "present" \in Workers
      /\ "control" \in Workers /\ "ingest" # "main" /\ "control" # "main"
  BY DEF Reader, Workers
<1>5. /\ LoopInv' /\ pc' = pc
      /\ \A h : Scheduled(h) => Scheduled(h)'
      /\ \A h : Scheduled(h)' => \/ Scheduled(h)
                                 \/ h = Reader
                                 \/ h = "control"
                                 \/ h = "main" /\ pc["main"] = "closing"
      /\ (inbuf' = inbuf /\ lost' = lost) \/ ~Suspended(Reader)'
      /\ unsent' = unsent
            \/ /\ pc["main"] = "closing" => ~Suspended("main")'
               /\ pc["main"] # "closing" /\ pc["control"] = "drain"
                     => ~Suspended("control")'
  BY <1>1, <1>2, PollWakes
<1>6. /\ preview' = preview /\ sink' = sink /\ verdict' = verdict
      /\ outcome' = outcome /\ queue' = queue /\ mailbox' = mailbox
  BY <1>2 DEF outputVars, endVars, queueVars, displayVars
<1>7. (AllDone' <=> AllDone) /\ (WaitOver' <=> WaitOver)
  BY <1>5 DEF AllDone, WaitOver, Active
<1>8. PhaseInv'
  <2>1. pc["main"] = "gather" => (Scheduled("main")' => Scheduled("main"))
    BY <1>4, <1>5
  <2> QED
    BY <1>1, <1>5, <1>6, <1>7, <2>1 DEF PhaseInv
<1>9. \A h : Suspended(h)' => Suspended(h)
  BY <1>5 DEF Suspended, Active
<1>10. WakeInv'
  <2>1. pc["main"] = "hello" => (Suspended("main")' => inbuf' = <<>> /\ ~lost')
    BY <1>1, <1>4, <1>5, <1>9 DEF WakeInv
  <2>2. pc["main"] = "wait" =>
          /\ Suspended("ingest")' => inbuf' = <<>> /\ ~lost'
          /\ Suspended("decode")' => queue' = <<>>
          /\ Suspended("present")' => mailbox' = 0
          /\ pc["control"] = "drain" => (Suspended("control")' => unsent')
          /\ WaitOver' => Scheduled("notify")' \/ Scheduled("main")'
    <3> SUFFICES ASSUME pc["main"] = "wait"
                 PROVE  /\ Suspended("ingest")' => inbuf' = <<>> /\ ~lost'
                        /\ Suspended("decode")' => queue' = <<>>
                        /\ Suspended("present")' => mailbox' = 0
                        /\ pc["control"] = "drain" => (Suspended("control")' => unsent')
                        /\ WaitOver' => Scheduled("notify")' \/ Scheduled("main")'
      OBVIOUS
    <3>1. Suspended("ingest")' => inbuf' = <<>> /\ ~lost'
      BY <1>1, <1>4, <1>5, <1>9 DEF WakeInv
    <3>2. pc["control"] = "drain" => (Suspended("control")' => unsent')
      BY <1>1, <1>5, <1>9 DEF WakeInv
    <3> QED
      BY <1>1, <1>5, <1>6, <1>7, <1>9, <3>1, <3>2 DEF WakeInv
  <2>3. pc["main"] = "gather" =>
          /\ \A t \in Workers : ~Suspended(t)'
          /\ AllDone' => Scheduled("notify")' \/ Scheduled("main")'
    BY <1>1, <1>5, <1>7, <1>9 DEF WakeInv
  <2>4. pc["main"] = "closing" => (Suspended("main")' => unsent')
    BY <1>1, <1>5, <1>9 DEF WakeInv
  <2> QED
    BY <1>5, <2>1, <2>2, <2>3, <2>4 DEF WakeInv
<1> QED
  BY <1>3, <1>5, <1>8, <1>10 DEF SessionInv

-----------------------------------------------------------------------------
(* The steps of _run.                                                      *)

(* _run is over: it is the only task, or all others are done.              *)
LEMMA Returns ==
  ASSUME LoopInv, PhaseInv, current = "main", NEW how \in Results,
         how # "none", Return(how), result' = result, unsent' = unsent, AllDone,
         preview' \in {"none", "open", "closed"},
         sink' \in {"none", "open", "closed"},
         how # "raise" => preview' # "open" /\ sink' # "open"
  PROVE  LoopInv' /\ PhaseInv' /\ WakeInv'
<1> DEFINE u == IF unsent THEN <<>> ELSE <<"main">>
<1>1. /\ outcome' = how /\ current' = "none" /\ verdict' = verdict
      /\ pc' = [pc EXCEPT !["main"] = "closing"]
      /\ ready \in Seq(Handles) /\ "main" \in Tasks /\ "main" \notin Workers
  BY Names DEF Return, LoopInv
<1>2. /\ pc' \in [Tasks -> Stages] /\ pc'["main"] = "closing"
      /\ \A t \in Workers : pc'[t] = pc[t]
  BY <1>1, Names DEF LoopInv, Stages
<1>3. /\ ready' = ready \o u /\ u \in Seq(Handles) /\ Distinct(u)
      /\ \A h : Has(u, h) <=> ~unsent /\ h = "main"
  <2>1. "main" \in Handles
    BY Names
  <2>2. CASE unsent
    BY <1>1, <2>1, <2>2, One, ConcatEmptySeq DEF Return
  <2>3. CASE ~unsent
    BY <1>1, <2>1, <2>3, One, AppendIsConcat DEF Return
  <2> QED
    BY <2>2, <2>3
<1> HIDE DEF u
<1>4. ~Has(ready, "main") /\ current' # "main"
  BY <1>1 DEF LoopInv
<1>5. /\ ready' \in Seq(Handles) /\ Distinct(ready')
      /\ Has(ready', current') => current' = "notify"
      /\ \A h : Has(ready', h) <=> Has(ready, h) \/ Has(u, h)
  <2>1. \A h \in Tasks : Has(u, h) => ~Has(ready, h) /\ h # current'
    BY <1>3, <1>4
  <2>2. current' \in {current, "none"}
    BY <1>1
  <2> QED
    BY <1>3, <2>1, <2>2, ReadyGrows, Zenon
<1>6. \A h \in Tasks : Scheduled(h)' <=> IF h = "main" THEN ~unsent ELSE Scheduled(h)
  <2>1. \A h : Scheduled(h)' <=> current' = h \/ Has(ready', h)
    BY DEF Scheduled, Has
  <2> QED
    BY <1>1, <1>3, <1>4, <1>5, <2>1, ScheduledIs, Names
<1>7. \A h \in Tasks : Scheduled(h)' => Active(h)'
  BY <1>2, <1>6, Names DEF LoopInv, Active
<1>8. LoopInv'
  BY <1>1, <1>2, <1>5, <1>7 DEF LoopInv
<1>9. AllDone'
  BY <1>2 DEF AllDone, Active
<1>10. PhaseInv'
  BY <1>1, <1>2, <1>9 DEF PhaseInv
<1>11. Suspended("main")' => unsent'
  BY <1>1, <1>6 DEF Suspended
<1> QED
  BY <1>2, <1>8, <1>10, <1>11 DEF WakeInv

(* The connection is closed, and run_socket is over.                       *)
LEMMA ClosedStep ==
  ASSUME LoopInv, PhaseInv, current = "main", Closed
  PROVE  LoopInv' /\ PhaseInv' /\ WakeInv'
<1>1. /\ pc["main"] = "closing" /\ pc' = [pc EXCEPT !["main"] = "done"]
      /\ current' = "none" /\ ready' = ready /\ result' = result
      /\ preview' = preview /\ sink' = sink /\ verdict' = verdict
      /\ outcome' = outcome
      /\ ready \in Seq(Handles) /\ "main" \in Tasks /\ "main" \notin Workers
  BY Names DEF Closed, LoopInv, outputVars, endVars
<1>2. /\ pc' \in [Tasks -> Stages] /\ pc'["main"] = "done"
      /\ \A t \in Workers : pc'[t] = pc[t]
  BY <1>1, Names DEF LoopInv, Stages
<1>3. ~Has(ready, "none") /\ ~Has(ready, "main")
  BY <1>1, Elements, Names DEF LoopInv
<1>4. \A h \in Tasks : Scheduled(h)' => Scheduled(h) /\ h # "main"
  <2>1. \A h : Scheduled(h)' <=> current' = h \/ Has(ready', h)
    BY DEF Scheduled, Has
  <2> QED
    BY <1>1, <1>3, <2>1, ScheduledIs, Names
<1>5. \A h \in Tasks : Scheduled(h)' => Active(h)'
  BY <1>2, <1>4, Names DEF LoopInv, Active
<1>6. LoopInv'
  BY <1>1, <1>2, <1>3, <1>5 DEF LoopInv
<1>7. AllDone' <=> AllDone
  BY <1>2 DEF AllDone, Active
<1>8. PhaseInv'
  BY <1>1, <1>2, <1>7 DEF PhaseInv
<1> QED
  BY <1>2, <1>6, <1>8 DEF WakeInv

LEMMA FourTasks ==
  LET s == <<"ingest", "decode", "present", "control">>
  IN  /\ s \in Seq(Handles) /\ Distinct(s)
      /\ \A h : Has(s, h) <=> h \in Workers
<1> DEFINE s == <<"ingest", "decode", "present", "control">>
<1>1. /\ Len(s) = 4 /\ s[1] = "ingest" /\ s[2] = "decode"
      /\ s[3] = "present" /\ s[4] = "control"
  OBVIOUS
<1>2. s \in Seq(Handles)
  BY DEF Handles, Tasks, Workers
<1> HIDE DEF s
<1>3. \A i \in 1 .. 4 : i = 1 \/ i = 2 \/ i = 3 \/ i = 4
  OBVIOUS
<1>4. Distinct(s)
  BY <1>1, <1>3 DEF Distinct
<1>5. \A h : Has(s, h) <=> h \in Workers
  BY <1>1, <1>3 DEF Has, Workers
<1> QED
  BY <1>2, <1>4, <1>5 DEF s

(* The tasks are created, and all are scheduled.                           *)
LEMMA SetupStep ==
  ASSUME LoopInv, PhaseInv, ~Over, current = "main", Setup
  PROVE  LoopInv' /\ PhaseInv' /\ WakeInv'
<1> DEFINE s == <<"ingest", "decode", "present", "control">>
<1>1. /\ pc["main"] = "hello" /\ sink' \in {"none", "open"} /\ preview' = "open"
      /\ pc' = [t \in Tasks |-> IF t = "main" THEN "wait" ELSE "run"]
      /\ ready' = ready \o s /\ current' = "none"
      /\ result' = result /\ verdict' = verdict /\ outcome' = outcome
  BY DEF Setup, endVars
<1>2. s \in Seq(Handles) /\ Distinct(s) /\ \A h : Has(s, h) <=> h \in Workers
  BY FourTasks
<1> HIDE DEF s
<1>3. \A t \in Workers : ~Active(t)
  BY <1>1 DEF PhaseInv, Active
<1>4. \A h \in Tasks : Has(s, h) => ~Has(ready, h) /\ h # current'
  BY <1>1, <1>2, <1>3, ScheduledIs, Names DEF LoopInv
<1>5. /\ ready' \in Seq(Handles) /\ Distinct(ready')
      /\ Has(ready', current') => current' = "notify"
      /\ \A h : Has(ready', h) <=> Has(ready, h) \/ Has(s, h)
  <2>1. current' \in {current, "none"}
    BY <1>1
  <2> QED
    BY <1>1, <1>2, <1>4, <2>1, ReadyGrows, Zenon
<1>6. /\ pc' \in [Tasks -> Stages] /\ pc'["main"] = "wait"
      /\ \A t \in Workers : pc'[t] = "run"
  BY <1>1, Names DEF Stages
<1>7. \A h \in Tasks : Active(h)'
  BY <1>6, Names DEF Active
<1>8. LoopInv'
  BY <1>1, <1>5, <1>6, <1>7 DEF LoopInv
<1>9. PhaseInv'
  BY <1>1, <1>6 DEF PhaseInv
<1>10. \A t \in Workers : Scheduled(t)'
  BY <1>2, <1>5 DEF Scheduled, Has
<1>11. WakeInv'
  BY <1>6, <1>10 DEF WakeInv, WaitOver, Suspended, Workers
<1> QED
  BY <1>8, <1>9, <1>11

LEMMA SuspendedAre ==
  /\ SuspendedWorkers \in Seq(Handles) /\ Distinct(SuspendedWorkers)
  /\ \A h : Has(SuspendedWorkers, h) <=> h \in Workers /\ Suspended(h)
<1> DEFINE a == Wake("ingest")
           b == Wake("decode")
           c == Wake("present")
           d == Wake("control")
<1>1. /\ a \in Seq(Handles) /\ b \in Seq(Handles) /\ c \in Seq(Handles)
      /\ d \in Seq(Handles)
      /\ Distinct(a) /\ Distinct(b) /\ Distinct(c) /\ Distinct(d)
      /\ \A h : Has(a, h) <=> h = "ingest" /\ Suspended(h)
      /\ \A h : Has(b, h) <=> h = "decode" /\ Suspended(h)
      /\ \A h : Has(c, h) <=> h = "present" /\ Suspended(h)
      /\ \A h : Has(d, h) <=> h = "control" /\ Suspended(h)
  BY WakeIs DEF Tasks, Workers
<1> DEFINE ab == a \o b
           abc == ab \o c
           abcd == abc \o d
<1>2. SuspendedWorkers = abcd
  BY DEF SuspendedWorkers
<1> HIDE DEF a, b, c, d
<1>3. /\ ab \in Seq(Handles) /\ Distinct(ab)
      /\ \A h : Has(ab, h) <=> Has(a, h) \/ Has(b, h)
  BY <1>1, ConcatHas, ConcatDistinct
<1> HIDE DEF ab
<1>4. /\ abc \in Seq(Handles) /\ Distinct(abc)
      /\ \A h : Has(abc, h) <=> Has(ab, h) \/ Has(c, h)
  <2>1. \A h : ~(Has(ab, h) /\ Has(c, h))
    BY <1>1, <1>3
  <2> QED
    BY <1>1, <1>3, <2>1, ConcatHas, ConcatDistinct
<1> HIDE DEF abc
<1>5. /\ abcd \in Seq(Handles) /\ Distinct(abcd)
      /\ \A h : Has(abcd, h) <=> Has(abc, h) \/ Has(d, h)
  <2>1. \A h : ~(Has(abc, h) /\ Has(d, h))
    BY <1>1, <1>3, <1>4
  <2> QED
    BY <1>1, <1>4, <2>1, ConcatHas, ConcatDistinct
<1> HIDE DEF abcd
<1> QED
  BY <1>1, <1>2, <1>3, <1>4, <1>5 DEF Workers

(* asyncio.wait returns: all that is not done is cancelled and scheduled,  *)
(* and _run itself is not, until the last of them is over.                 *)
LEMMA WaitReturnsStep ==
  ASSUME LoopInv, PhaseInv, ~Over, current = "main", WaitReturns
  PROVE  LoopInv' /\ PhaseInv' /\ WakeInv'
<1> DEFINE x == IF AllDone THEN <<"notify">> ELSE <<>>
           u == SuspendedWorkers \o x
<1>1. /\ pc["main"] = "wait" /\ current' = "none"
      /\ pc' = [pc EXCEPT !["main"] = "gather"]
      /\ result' = result /\ outcome' = outcome
      /\ preview' = preview /\ sink' = sink
      /\ ready' = (ready \o SuspendedWorkers) \o x
      /\ ready \in Seq(Handles) /\ "main" \in Tasks
  BY Names DEF WaitReturns, outputVars, LoopInv
<1>2. verdict' \in Results /\ verdict' # "none"
  <2>1. CASE FailedWorkers = {}
    BY <2>1 DEF WaitReturns, Results
  <2>2. CASE FailedWorkers # {}
    <3>1. PICK t \in FailedWorkers : verdict' = result[t]
      BY <2>2 DEF WaitReturns
    <3>2. verdict' \in Failures
      BY <3>1 DEF FailedWorkers
    <3> QED
      BY <3>2 DEF Results, Failures
  <2> QED
    BY <2>1, <2>2
<1>3. /\ x \in Seq(Handles) /\ Distinct(x)
      /\ \A h : Has(x, h) <=> AllDone /\ h = "notify"
  <2>1. CASE AllDone
    BY <2>1, One, Names
  <2>2. CASE ~AllDone
    BY <2>2, One, Names
  <2> QED
    BY <2>1, <2>2
<1> HIDE DEF x
<1>4. /\ u \in Seq(Handles) /\ Distinct(u)
      /\ \A h : Has(u, h) <=> (h \in Workers /\ Suspended(h)) \/ (AllDone /\ h = "notify")
  <2>1. \A h : Has(SuspendedWorkers, h) /\ Has(x, h) => h = "notify"
    BY <1>3
  <2> QED
    BY <1>3, <2>1, SuspendedAre, ConcatHas, ConcatDistinct
<1>5. ready' = ready \o u
  BY <1>1, <1>3, SuspendedAre, ConcatAssociative
<1> HIDE DEF u
<1>6. \A h \in Tasks : Has(u, h) => ~Has(ready, h) /\ h # current'
  BY <1>1, <1>4, ScheduledIs, Names DEF Suspended
<1>7. /\ ready' \in Seq(Handles) /\ Distinct(ready')
      /\ Has(ready', current') => current' = "notify"
      /\ \A h : Has(ready', h) <=> Has(ready, h) \/ Has(u, h)
  <2>1. current' \in {current, "none"}
    BY <1>1
  <2> QED
    BY <1>4, <1>5, <1>6, <2>1, ReadyGrows, Zenon
<1>8. /\ pc' \in [Tasks -> Stages] /\ pc'["main"] = "gather"
      /\ \A t \in Workers : pc'[t] = pc[t]
  BY <1>1, Names DEF LoopInv, Stages
<1>9. ~Scheduled("main")'
  <2>1. ~Has(ready, "main") /\ ~Has(u, "main") /\ current' # "main"
    BY <1>1, <1>4, Names DEF LoopInv
  <2> QED
    BY <1>7, <2>1 DEF Scheduled, Has
<1>10. \A h \in Tasks : Scheduled(h)' => Active(h)'
  <2>1. \A h : Scheduled(h)' <=> current' = h \/ Has(ready', h)
    BY DEF Scheduled, Has
  <2>2. \A h \in Workers : Scheduled(h)' => Active(h)
    BY <1>1, <1>4, <1>7, <2>1, ScheduledIs, Names DEF LoopInv, Suspended
  <2> QED
    BY <1>8, <1>9, <2>2, Names DEF Active
<1>11. LoopInv'
  BY <1>1, <1>7, <1>8, <1>10 DEF LoopInv
<1>12. PhaseInv'
  BY <1>1, <1>2, <1>8, <1>9 DEF PhaseInv
<1>13. \A t \in Workers : ~Suspended(t)'
  <2>1. \A t \in Workers : Suspended(t) => Scheduled(t)'
    BY <1>4, <1>7 DEF Scheduled, Has
  <2>2. \A t \in Workers : Scheduled(t) => Scheduled(t)'
    BY <1>1, <1>7, ScheduledIs, Names DEF Scheduled, Has
  <2> QED
    BY <1>8, <2>1, <2>2 DEF Suspended, Active
<1>14. AllDone' => Scheduled("notify")'
  <2>1. AllDone' => AllDone
    BY <1>8 DEF AllDone, Active
  <2> QED
    BY <1>4, <1>7, <2>1 DEF Scheduled, Has
<1> QED
  BY <1>8, <1>11, <1>12, <1>13, <1>14 DEF WakeInv

LEMMA MainStep ==
  ASSUME SessionInv, ~Over, Main
  PROVE  SessionInv'
<1>1. /\ NetInv /\ LoopInv /\ PacketsInv /\ DecoderInv /\ DisplayInv
      /\ ControlInv /\ PhaseInv /\ WakeInv
      /\ current = "main" /\ "main" \in Tasks /\ Scheduled("main")
  BY Names DEF SessionInv, Main, Scheduled
<1>2. /\ UNCHANGED <<queueVars, decoderVars, displayVars, controlVars>>
      /\ sent' = sent /\ lost' = lost /\ unsent' = unsent
  BY DEF Main, controlVars
<1>3. PacketsInv' /\ DecoderInv' /\ DisplayInv' /\ ControlInv'
  BY <1>1, <1>2, Kept
<1>4. SUFFICES NetInv' /\ LoopInv' /\ PhaseInv' /\ WakeInv'
  BY <1>3 DEF SessionInv
<1>5. inbuf' = inbuf => NetInv'
  BY <1>1, <1>2, Kept DEF netVars
<1>6. inbuf # <<>> /\ inbuf' = Tail(inbuf) => NetInv'
  BY <1>1, <1>2, ReadStep
<1>7. pc["main"] = "hello" => AllDone
  BY <1>1 DEF PhaseInv, AllDone, Active
<1>8. CASE AwaitHello
  <2>1. /\ pc["main"] = "hello" /\ inbuf' = inbuf /\ Suspend
        /\ UNCHANGED <<outputVars, endVars>>
    BY <1>8 DEF AwaitHello
  <2>2. LoopInv' /\ pc' = pc
    BY <1>1, <2>1, Suspends
  <2>3. PhaseInv'
    BY <1>1, <1>7, <2>1, <2>2 DEF PhaseInv, outputVars, endVars, AllDone, Active
  <2>4. inbuf' = <<>> /\ ~lost'
    BY <1>2, <1>8 DEF AwaitHello
  <2> QED
    BY <1>5, <2>1, <2>2, <2>3, <2>4 DEF WakeInv
<1>9. CASE RefuseHello
  <2>1. /\ pc["main"] = "hello" /\ inbuf' = inbuf /\ result' = result
        /\ preview' = preview /\ sink' = sink
        /\ Return("os") \/ Return("stream") \/ Return("raise")
    BY <1>9 DEF RefuseHello, outputVars
  <2>2. LoopInv' /\ PhaseInv' /\ WakeInv'
    <3>1. PICK how \in {"os", "stream", "raise"} : Return(how)
      BY <2>1
    <3>2. how \in Results /\ how # "none"
      BY DEF Results, Failures
    <3>3. preview' = "none" /\ sink' = "none"
      BY <1>1, <2>1 DEF PhaseInv
    <3>4. /\ preview' \in {"none", "open", "closed"}
          /\ sink' \in {"none", "open", "closed"}
          /\ preview' # "open" /\ sink' # "open"
      BY <3>3
    <3> QED
      BY <1>1, <1>2, <1>7, <2>1, <3>1, <3>2, <3>4, Returns
  <2> QED
    BY <1>5, <2>1, <2>2
<1>10. CASE Setup
  BY <1>1, <1>6, <1>10, SetupStep DEF Setup, Unread
<1>11. CASE SetupFails
  <2>1. /\ pc["main"] = "hello" /\ inbuf # <<>> /\ inbuf' = Tail(inbuf)
        /\ result' = result /\ preview' = preview /\ sink' \in {"none", "open"}
        /\ Return("raise")
    BY <1>11 DEF SetupFails, Unread
  <2>2. LoopInv' /\ PhaseInv' /\ WakeInv'
    <3>1. "raise" \in Results /\ "raise" # "none"
      BY DEF Results, Failures
    <3>2. /\ preview' \in {"none", "open", "closed"}
          /\ sink' \in {"none", "open", "closed"}
      BY <1>1, <2>1 DEF PhaseInv
    <3> QED
      BY <1>1, <1>2, <1>7, <2>1, <3>1, <3>2, Returns
  <2> QED
    BY <1>6, <2>1, <2>2
<1>12. CASE WaitReturns
  BY <1>1, <1>5, <1>12, WaitReturnsStep DEF WaitReturns
<1>13. CASE TearDown \/ PreviewCloseFails \/ SinkCloseFails
  <2>1. /\ pc["main"] = "gather" /\ inbuf' = inbuf /\ result' = result
        /\ \/ /\ Return(verdict) /\ preview' = "closed"
              /\ sink' = IF sink = "open" THEN "closed" ELSE sink
           \/ Return("raise") /\ preview' = preview /\ sink' = sink
           \/ Return("raise") /\ preview' = "closed" /\ sink' \in {"open", "closed"}
    BY <1>13 DEF TearDown, PreviewCloseFails, SinkCloseFails, outputVars
  <2>2. AllDone
    BY <1>1, <2>1 DEF PhaseInv
  <2>3. /\ "raise" \in Results /\ "raise" # "none"
        /\ verdict \in Results /\ verdict # "none"
        /\ preview \in {"none", "open", "closed"} /\ sink \in {"none", "open", "closed"}
    BY <1>1, <2>1 DEF Results, Failures, PhaseInv
  <2>4. PICK how \in Results :
           /\ how # "none" /\ Return(how)
           /\ how # "raise" => preview' # "open" /\ sink' # "open"
    BY <2>1, <2>3
  <2>5. /\ preview' \in {"none", "open", "closed"}
        /\ sink' \in {"none", "open", "closed"}
    BY <2>1, <2>3
  <2>6. LoopInv' /\ PhaseInv' /\ WakeInv'
    BY <1>1, <1>2, <2>1, <2>2, <2>4, <2>5, Returns
  <2> QED
    BY <1>5, <2>1, <2>6
<1>14. CASE Closed
  BY <1>1, <1>5, <1>14, ClosedStep DEF Closed
<1> QED
  BY <1>8, <1>9, <1>10, <1>11, <1>12, <1>13, <1>14 DEF Main

LEMMA InitSessionInv == Init => SessionInv
<1> SUFFICES ASSUME Init PROVE SessionInv
  OBVIOUS
<1>1. /\ inbuf = <<>> /\ sent = 0 /\ lost = FALSE
      /\ current = "none" /\ ready = <<"main">>
      /\ pc = [t \in Tasks |-> IF t = "main" THEN "hello" ELSE "none"]
      /\ result = [t \in Workers |-> "none"]
      /\ arrived = <<>> /\ queue = <<>> /\ recovering = FALSE
      /\ dropped = 0 /\ last = 0 /\ got = 0
      /\ codec = 0 /\ synced = FALSE /\ stamped = {}
      /\ mailbox = 0 /\ shown = 0
      /\ preview = "none" /\ sink = "none"
      /\ version = 0 /\ written = -1 /\ line = -1 /\ unsent = FALSE
      /\ verdict = "none" /\ outcome = "none"
  BY DEF Init, Q!Init
<1>2. /\ inbuf \in Seq(Items) /\ Len(inbuf) = 0
      /\ arrived \in Seq(Kinds) /\ Len(arrived) = 0
      /\ queue \in Seq(Nat) /\ Len(queue) = 0
  BY <1>1, EmptySeq
<1>3. NetInv
  <2>1. /\ MaxArrivals \in Nat /\ BufferSize \in Nat
    BY SessionAssumption
  <2>2. sent \in 0 .. MaxArrivals /\ Len(inbuf) <= BufferSize + 1
        /\ Len(inbuf) <= BufferSize
    BY <1>1, <1>2, <2>1
  <2> QED
    BY <1>1, <1>2, <2>2 DEF NetInv
<1>4. LoopInv
  <2>1. /\ <<"main">> \in Seq(Handles) /\ Distinct(<<"main">>)
        /\ \A h : Has(<<"main">>, h) <=> h = "main"
    BY One, Names
  <2>2. /\ pc \in [Tasks -> Stages] /\ pc["main"] = "hello"
        /\ \A t \in Workers : pc[t] = "none"
    BY <1>1, Names DEF Stages
  <2>3. \A t \in Tasks : Scheduled(t) => Active(t)
    BY <1>1, <2>1, <2>2, ScheduledIs, Names DEF Active
  <2>4. result \in [Workers -> Results]
    BY <1>1 DEF Results
  <2>5. ready \in Seq(Handles) /\ Distinct(ready) /\ ~Has(ready, current)
    BY <1>1, <2>1
  <2> QED
    BY <1>1, <2>2, <2>3, <2>4, <2>5 DEF LoopInv
<1>5. PacketsInv
  <2>1. MaxSize \in Nat
    BY SessionAssumption
  <2>2. /\ Len(queue) <= MaxSize /\ last + Len(queue) = Len(arrived)
        /\ dropped \in Nat /\ got \in Nat /\ last \in Nat
        /\ last + Len(queue) <= Len(arrived)
    <3>1. last = 0 /\ dropped = 0 /\ got = 0
      BY <1>1
    <3> QED
      BY <1>2, <2>1, <3>1
  <2>3. \A i \in 1 .. Len(queue) : queue[i] = Len(arrived) - Len(queue) + i
    BY <1>2
  <2>4. recovering = FALSE /\ queue = <<>>
    BY <1>1
  <2> QED
    BY <1>2, <2>2, <2>3, <2>4 DEF PacketsInv
<1>6. DecoderInv /\ DisplayInv /\ ControlInv
  <2>1. \A i \in 1 .. Len(queue) : queue[i] \in stamped
    BY <1>2
  <2>2. codec \in 0 .. Len(arrived) /\ stamped \subseteq 1 .. Len(arrived)
    <3>1. codec = 0 /\ stamped = {}
      BY <1>1
    <3> QED
      BY <1>2, <3>1
  <2>3. mailbox \in 0 .. last /\ shown \in 0 .. last
    BY <1>1
  <2>4. MaxVersion \in Nat
    BY SessionAssumption
  <2>5. /\ version \in 0 .. MaxVersion /\ written \in -1 .. MaxVersion
        /\ line \in -1 .. MaxVersion /\ unsent \in BOOLEAN
    <3>1. 0 \in 0 .. MaxVersion /\ -1 \in -1 .. MaxVersion
      BY <2>4
    <3>2. version = 0 /\ written = -1 /\ line = -1 /\ unsent = FALSE
      BY <1>1
    <3> QED
      BY <3>1, <3>2
  <2>6. Cardinality(stamped) <= StampLimit
    <3>1. Cardinality(stamped) = 0
      BY <1>1, FS_EmptySet
    <3> QED
      BY <3>1, SessionAssumption
  <2> QED
    BY <1>1, <2>1, <2>2, <2>3, <2>5, <2>6
       DEF DecoderInv, StampsCoverQueue, DisplayInv, ControlInv
<1>7. PhaseInv /\ WakeInv
  <2>1. pc["main"] = "hello" /\ \A t \in Workers : pc[t] = "none"
    BY <1>1, Names
  <2>2. Has(<<"main">>, "main")
    BY One, Names
  <2>3. ~Suspended("main")
    BY <1>1, <2>2, ScheduledIs DEF Suspended
  <2>4. outcome = "none" /\ preview = "none" /\ sink = "none" /\ verdict = "none"
    BY <1>1
  <2> QED
    BY <2>1, <2>3, <2>4 DEF PhaseInv, WakeInv, Results
<1> QED
  BY <1>3, <1>4, <1>5, <1>6, <1>7 DEF SessionInv

LEMMA SessionStutter == SessionInv /\ UNCHANGED vars => SessionInv'
<1> SUFFICES ASSUME SessionInv, UNCHANGED vars PROVE SessionInv'
  OBVIOUS
<1>1. /\ NetInv /\ LoopInv /\ PacketsInv /\ DecoderInv /\ DisplayInv
      /\ ControlInv /\ PhaseInv /\ WakeInv
  BY DEF SessionInv
<1>2. UNCHANGED <<netVars, loopVars, queueVars, decoderVars, displayVars,
                  outputVars, controlVars, endVars>>
  BY DEF vars
<1>3. NetInv' /\ PacketsInv' /\ DecoderInv' /\ DisplayInv' /\ ControlInv'
  BY <1>1, <1>2, Kept
<1>4. LoopInv' /\ pc' = pc /\ \A h : Scheduled(h)' <=> Scheduled(h)
  BY <1>1, <1>2, Continues DEF Continue
<1>5. /\ inbuf' = inbuf /\ lost' = lost /\ queue' = queue /\ mailbox' = mailbox
      /\ unsent' = unsent /\ UNCHANGED <<outputVars, endVars>>
  BY <1>2 DEF netVars, queueVars, displayVars, controlVars
<1>6. PhaseInv' /\ WakeInv'
  BY <1>1, <1>4, <1>5, LoopStepKeeps
<1> QED
  BY <1>3, <1>4, <1>6 DEF SessionInv

-----------------------------------------------------------------------------
(* The theorems.                                                           *)

(* SessionInv is an invariant, whatever the order of the callbacks, of the *)
(* packets, of the GUI's changes and of the failures.                      *)
THEOREM SessionInvariant == Spec => []SessionInv
<1>1. SessionInv /\ [Next]_vars => SessionInv'
  BY SchedulingStep, MainStep, WorkerStep, PollStep, UpdateStep, SessionStutter, Zenon
     DEF Next, LoopStep
<1> QED
  BY <1>1, InitSessionInv, PTL DEF Spec

(* Type correctness; a task is scheduled at most once.                     *)
THEOREM SessionTypeOK == Spec => []TypeOK
<1>1. SessionInv => TypeOK
  <2> SUFFICES ASSUME SessionInv PROVE TypeOK
    OBVIOUS
  <2>1. /\ NetInv /\ LoopInv /\ PacketsInv /\ DecoderInv /\ DisplayInv
        /\ ControlInv /\ PhaseInv
    BY DEF SessionInv
  <2>2. /\ arrived \in Seq(Kinds) /\ Len(arrived) \in Nat /\ last \in 0 .. Len(arrived)
        /\ Len(queue) \in Nat
        /\ \A i \in 1 .. Len(queue) : queue[i] \in 1 .. Len(arrived)
    BY <2>1, LenProperties DEF PacketsInv
  <2>3. queue \in Seq(1 .. Len(arrived))
    <3>1. queue \in [1 .. Len(queue) -> Nat]
      BY <2>1, LenProperties DEF PacketsInv
    <3>2. queue \in [1 .. Len(queue) -> 1 .. Len(arrived)]
      BY <2>2, <3>1
    <3> QED
      BY <2>2, <3>2, SeqDef
  <2>4. Q!TypeOK
    BY <2>1, <2>2, <2>3 DEF PacketsInv, Q!TypeOK, Q!Kinds, Kinds
  <2>5. \A i, j \in 1 .. Len(ready) :
           ready[i] = ready[j] /\ ready[i] # "notify" => i = j
    BY <2>1 DEF LoopInv, Distinct
  <2>6. \A i \in 1 .. Len(ready) : ready[i] = "notify" \/ ready[i] # current
    BY <2>1 DEF LoopInv, Has
  <2>7. mailbox \in 0 .. Len(arrived) /\ shown \in 0 .. Len(arrived)
    BY <2>1, <2>2 DEF DisplayInv
  <2>8. /\ pc["main"] \in {"hello", "wait", "gather", "closing", "done"}
        /\ pc["control"] \in {"none", "run", "drain", "done"}
        /\ \A t \in Workers \ {"control"} : pc[t] \in {"none", "run", "done"}
    <3>1. "control" \in Workers
      BY DEF Workers
    <3> QED
      BY <2>1, <3>1 DEF LoopInv
  <2> QED
    BY <2>1, <2>4, <2>5, <2>6, <2>7, <2>8
       DEF TypeOK, NetInv, LoopInv, DecoderInv, ControlInv, PhaseInv
<1> QED
  BY <1>1, SessionInvariant, PTL

(* The session never stalls: with nothing to run, what _run or a worker    *)
(* waits for is not there.                                                 *)
THEOREM SessionNeverStalls == Spec => []NeverStalls
<1>1. SessionInv => NeverStalls
  <2> SUFFICES ASSUME SessionInv, Idle
               PROVE  /\ pc["main"] # "gather"
                      /\ pc["main"] = "hello" => inbuf = <<>> /\ ~lost
                      /\ pc["main"] = "wait" =>
                            /\ ~WaitOver /\ ~lost /\ inbuf = <<>>
                            /\ queue = <<>> /\ mailbox = 0
                      /\ pc["control"] = "drain" \/ pc["main"] = "closing" => unsent
    BY DEF NeverStalls
  <2>1. /\ \A h \in Handles : ~Scheduled(h)
        /\ LoopInv /\ PhaseInv /\ WakeInv
    BY Names DEF Idle, Scheduled, SessionInv
  <2>2. \A t \in Tasks : Active(t) => Suspended(t)
    BY <2>1, Names DEF Suspended
  <2>3. /\ "ingest" \in Workers /\ "decode" \in Workers /\ "present" \in Workers
        /\ "control" \in Workers /\ \A t \in Workers : t \in Tasks
        /\ "main" \in Tasks /\ "notify" \in Handles /\ "main" \in Handles
    BY Names DEF Workers
  <2>4. pc["main"] # "gather"
    <3> SUFFICES ASSUME pc["main"] = "gather" PROVE FALSE
      OBVIOUS
    <3>1. AllDone
      BY <2>1, <2>2, <2>3 DEF WakeInv, AllDone
    <3> QED
      BY <2>1, <2>3, <3>1 DEF WakeInv
  <2>5. pc["main"] = "hello" => inbuf = <<>> /\ ~lost
    BY <2>1, <2>2, <2>3 DEF WakeInv, Active
  <2>6. pc["main"] = "wait" =>
           /\ ~WaitOver /\ ~lost /\ inbuf = <<>> /\ queue = <<>> /\ mailbox = 0
           /\ pc["control"] = "drain" => unsent
    <3> SUFFICES ASSUME pc["main"] = "wait"
                 PROVE  /\ ~WaitOver /\ ~lost /\ inbuf = <<>> /\ queue = <<>>
                        /\ mailbox = 0
                        /\ pc["control"] = "drain" => unsent
      OBVIOUS
    <3>1. ~WaitOver
      BY <2>1, <2>3 DEF WakeInv
    <3>2. \A t \in Workers : Suspended(t)
      BY <2>1, <2>2, <2>3, <3>1 DEF WaitOver, PhaseInv, Active
    <3> QED
      BY <2>1, <2>3, <3>1, <3>2 DEF WakeInv
  <2>7. pc["main"] = "closing" => unsent
    BY <2>1, <2>2, <2>3 DEF WakeInv, Active
  <2>8. pc["control"] = "drain" => pc["main"] = "wait"
    <3> SUFFICES ASSUME pc["control"] = "drain" PROVE pc["main"] = "wait"
      OBVIOUS
    <3>1. ~AllDone /\ pc["main"] # "hello"
      BY <2>1, <2>3 DEF AllDone, Active, PhaseInv
    <3> QED
      BY <2>1, <2>4, <3>1 DEF PhaseInv
  <2> QED
    BY <2>4, <2>5, <2>6, <2>7, <2>8
<1> QED
  BY <1>1, SessionInvariant, PTL

(* The entry of a packet that is queued is never trimmed away.             *)
THEOREM SessionStampsCoverQueue == Spec => []StampsCoverQueue
<1>1. SessionInv => StampsCoverQueue
  BY DEF SessionInv, DecoderInv
<1> QED
  BY <1>1, SessionInvariant, PTL

(* The preview never goes back.                                            *)
THEOREM SessionShownInOrder == Spec => []ShownInOrder
<1>1. SessionInv => ShownInOrder
  BY DEF SessionInv, DisplayInv, PacketsInv, ShownInOrder
<1> QED
  BY <1>1, SessionInvariant, PTL

(* However _run ends, no task of it is left, and only an exception leaves  *)
(* the window or the camera open; the tasks never outlive the preview.     *)
THEOREM SessionLeavesNothing == Spec => []NothingLeftBehind
<1>1. SessionInv => NothingLeftBehind
  BY DEF SessionInv, PhaseInv, NothingLeftBehind
<1> QED
  BY <1>1, SessionInvariant, PTL

(* What the tasks do to the queue is what KeyframeQueue says: its theorems *)
(* hold in every session, whose one queue is never made anew.              *)
QueueStep == (\E kind \in Kinds : Q!Put(kind)) \/ Q!Get

LEMMA QueueSteps == [Next]_vars => QueueStep \/ UNCHANGED queueVars
<1> SUFFICES ASSUME [Next]_vars PROVE QueueStep \/ UNCHANGED queueVars
  OBVIOUS
<1>1. CASE UNCHANGED vars
  BY <1>1 DEF vars
<1>2. CASE Scheduling \/ Main \/ Timer \/ Poll \/ Update
  BY <1>2 DEF Scheduling, Main, Timer, Poll, Update
<1>3. CASE Worker
  <2>1. CASE \E t \in Workers : EndCancelled(t)
    BY <2>1 DEF EndCancelled
  <2>2. CASE Ingest
    <3>1. CASE IngestVideo
      BY <3>1 DEF IngestVideo, QueueStep
    <3> QED
      BY <2>2, <3>1 DEF Ingest, IngestOther, IngestWaits, IngestEnds
  <2>3. CASE Decode
    <3>1. CASE TakesPacket
      BY <3>1 DEF TakesPacket, QueueStep
    <3> QED
      BY <2>3, <3>1
         DEF Decode, DecodeSkips, DecoderUnavailable, DecodeFails, Decodes, DecodeWaits
  <2>4. CASE Present \/ Control
    BY <2>4 DEF Present, Control
  <2> QED
    BY <1>3, <2>1, <2>2, <2>3, <2>4 DEF Worker
<1> QED
  BY <1>1, <1>2, <1>3 DEF Next, LoopStep

(* Every session is a behaviour of KeyframeQueue.                          *)
THEOREM SessionUsesQueue == Spec => Q!Spec
<1>1. Init => Q!Init
  BY DEF Init
<1>2. [Next]_vars => [Q!Next]_Q!vars
  BY QueueSteps DEF QueueStep, Q!Next, queueVars, Q!vars, Q!Kinds, Kinds
<1> QED
  BY <1>1, <1>2, PTL DEF Spec, Q!Spec

Gop == INSTANCE GopStream

(* Every session promises its decoder what GopStream does: a delta is taken*)
(* only behind the packet it was predicted from.                           *)
THEOREM SessionImplementsGopStream == Spec => Gop!Spec
<1>1. Init => Gop!Init
  BY DEF Init, Q!Init, Gop!Init
<1>2. SessionInv /\ [Next]_vars => [Gop!Next]_Gop!vars
  <2> SUFFICES ASSUME SessionInv, [Next]_vars PROVE [Gop!Next]_Gop!vars
    OBVIOUS
  <2>1. ASSUME NEW kind \in Kinds, Q!Put(kind) PROVE Gop!Arrive(kind)
    BY <2>1 DEF Q!Put, Q!PutRecovering, Q!PutOverflow, Q!PutNormal, Q!Offer, Gop!Arrive
  <2>2. CASE Q!Get
    <3>1. /\ arrived' = arrived /\ last' \in 1 .. Len(arrived) /\ last < last'
          /\ Q!IsKey(last') \/ last' = last + 1
      BY <2>2, GetStep DEF SessionInv
    <3>2. Gop!Deliver(last')
      BY <3>1 DEF Gop!Deliver, Gop!Follows, Q!IsKey
    <3> QED
      BY <3>1, <3>2 DEF Gop!Next
  <2>3. CASE UNCHANGED queueVars
    BY <2>3 DEF queueVars, Gop!vars
  <2>4. CASE \E kind \in Kinds : Q!Put(kind)
    BY <2>1, <2>4 DEF Gop!Next, Gop!Kinds, Kinds
  <2> QED
    BY <2>2, <2>3, <2>4, QueueSteps, Zenon DEF QueueStep
<1> QED
  BY <1>1, <1>2, SessionInvariant, PTL DEF Spec, Gop!Spec

(* The codec is never fed a delta behind a hole.                           *)
THEOREM SessionNeverPoisoned == Spec => NeverPoisoned
<1>1. SessionInv /\ [Next]_vars
        => [last' # last /\ ~Q!IsKey(last') /\ synced
               => codec # 0 /\ last' = codec + 1]_vars
  <2> SUFFICES ASSUME SessionInv, [Next]_vars, last' # last, ~Q!IsKey(last'), synced
               PROVE  codec # 0 /\ last' = codec + 1
    OBVIOUS
  <2>1. Q!Get
    BY QueueSteps
       DEF QueueStep, queueVars, Q!Put, Q!PutRecovering, Q!PutOverflow, Q!PutNormal,
           Q!Offer
  <2>2. last' = last + 1
    BY <2>1, GetStep DEF SessionInv
  <2> QED
    BY <2>2 DEF SessionInv, DecoderInv
<1> QED
  BY <1>1, SessionInvariant, PTL DEF Spec, NeverPoisoned
=============================================================================
