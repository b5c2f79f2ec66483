-------------------------- MODULE QueueStats_proofs --------------------------
(***************************************************************************)
(* StatsInv is an invariant of the statistics, and CountsTheWindow one of  *)
(* their action properties, for every window and any two threads' turns.   *)
(* The composition of the queue and its statistics is a run of each of     *)
(* them, so what is proved of each holds of both together; the statistics  *)
(* never hide a backlog of the queue.                                      *)
(***************************************************************************)
EXTENDS QueueStats, KeyframeQueue_proofs, WellFoundedInduction

-----------------------------------------------------------------------------
(* The statistics.                                                         *)

(* A set of naturals that is not empty has a least element.                *)
LEMMA Least ==
  ASSUME NEW T \in SUBSET Nat, T # {}
  PROVE  \E m \in T : \A j \in T : m <= j
<1> DEFINE R == {ss \in Nat \X Nat : ss[1] < ss[2]}
<1>1. R = OpToRel(<, Nat)
  BY DEF OpToRel
<1>2. IsWellFoundedOn(R, Nat)
  BY <1>1, NatLessThanWellFounded
<1>3. PICK m \in T : \A j \in T : ~(<<j, m>> \in R)
  <2> HIDE DEF R
  <2> QED
    BY <1>2, WFMin
<1>4. ASSUME NEW j \in T, j < m PROVE <<j, m>> \in R
  <2>1. <<j, m>> \in Nat \X Nat
    OBVIOUS
  <2> QED
    BY <1>4, <2>1
<1>5. m \in Nat /\ \A j \in T : j \in Nat
  OBVIOUS
<1>6. \A j \in T : ~(j < m)
  <2> HIDE DEF R
  <2> QED
    BY <1>3, <1>4, Zenon
<1> QED
  BY <1>5, <1>6

(* What _prune pops is old, and the first event it leaves is recent.       *)
LEMMA PruneFacts ==
  ASSUME NEW s \in Seq(Nat), NEW n \in 0 .. Len(s), NEW now \in Nat
  PROVE  /\ Prune(s, n, now) \in n .. Len(s)
         /\ \A i \in n + 1 .. Prune(s, n, now) : s[i] < now - Window
         /\ Prune(s, n, now) < Len(s) =>
               s[Prune(s, n, now) + 1] >= now - Window
<1> DEFINE T == Recent(s, n, now)
<1>1. T \in SUBSET Nat
  BY DEF Recent
<1>2. CASE T = {}
  <2>1. Prune(s, n, now) = Len(s)
    BY <1>2 DEF Prune
  <2>2. \A i \in n + 1 .. Len(s) : s[i] < now - Window
    BY <1>2, WindowAssumption DEF Recent
  <2> QED
    BY <2>1, <2>2
<1>3. CASE T # {}
  <2> DEFINE first == CHOOSE i \in T : \A j \in T : i <= j
  <2>1. first \in T /\ \A j \in T : first <= j
    BY <1>1, <1>3, Least
  <2>2. Prune(s, n, now) = first - 1
    BY <1>3 DEF Prune
  <2>3. first \in n + 1 .. Len(s) /\ s[first] >= now - Window
    BY <2>1 DEF Recent
  <2>4. \A i \in n + 1 .. first - 1 : s[i] < now - Window
    <3> SUFFICES ASSUME NEW i \in n + 1 .. first - 1 PROVE s[i] < now - Window
      OBVIOUS
    <3> HIDE DEF first
    <3>1. i \in n + 1 .. Len(s) /\ s[i] \in Nat /\ i < first
      BY <2>3
    <3>2. i \notin T
      BY <2>1, <3>1, <1>1
    <3> QED
      BY <3>1, <3>2, WindowAssumption DEF Recent
  <2> HIDE DEF first
  <2> QED
    BY <2>2, <2>3, <2>4
<1> QED
  BY <1>2, <1>3

LEMMA InitStatsInv == StatsInit => StatsInv
<1> SUFFICES ASSUME StatsInit PROVE StatsInv
  OBVIOUS
<1>1. log \in [Deques -> Seq(Nat)] /\ \A k \in Deques : Len(log[k]) = 0
  BY EmptySeq DEF StatsInit
<1>2. StatsTypeOK
  BY <1>1 DEF StatsInit, StatsTypeOK, Deques, None
<1> QED
  BY <1>1, <1>2 DEF StatsInv, LogInOrder, LogIsPast, NothingRecentPopped

-----------------------------------------------------------------------------
(* A time stamp that is appended is the newest of its deque.               *)
LEMMA RecordKeepsOrder ==
  ASSUME StatsInv, NEW k0 \in Deques, Record(k0)
  PROVE  /\ log' \in [Deques -> Seq(Nat)]
         /\ \A k \in Deques : Len(log'[k]) >= Len(log[k])
         /\ \A k \in Deques : \A i \in 1 .. Len(log[k]) : log'[k][i] = log[k][i]
         /\ \A k \in Deques : \A i \in 1 .. Len(log'[k]) : log'[k][i] <= stamp
         /\ LogInOrder'
<1>1. /\ log \in [Deques -> Seq(Nat)] /\ stamp \in Nat
      /\ log' = [log EXCEPT ![k0] = Append(log[k0], stamp)]
  BY DEF StatsInv, StatsTypeOK, Record
<1>2. \A k \in Deques : log[k] \in Seq(Nat)
  BY <1>1
<1>3. log'[k0] = Append(log[k0], stamp)
      /\ \A k \in Deques : k # k0 => log'[k] = log[k]
  BY <1>1
<1>4. /\ Append(log[k0], stamp) \in Seq(Nat)
      /\ Len(Append(log[k0], stamp)) = Len(log[k0]) + 1
      /\ \A i \in 1 .. Len(log[k0]) : Append(log[k0], stamp)[i] = log[k0][i]
      /\ Append(log[k0], stamp)[Len(log[k0]) + 1] = stamp
  BY <1>1, <1>2
<1>5. log' \in [Deques -> Seq(Nat)]
  BY <1>1, <1>4
<1>6. \A k \in Deques : \A i \in 1 .. Len(log[k]) : log[k][i] <= stamp
  BY DEF StatsInv, LogIsPast
<1>7. \A k \in Deques : /\ Len(log'[k]) >= Len(log[k])
                        /\ \A i \in 1 .. Len(log[k]) : log'[k][i] = log[k][i]
                        /\ \A i \in 1 .. Len(log'[k]) :
                              i > Len(log[k]) => log'[k][i] = stamp
  <2> SUFFICES ASSUME NEW k \in Deques
               PROVE  /\ Len(log'[k]) >= Len(log[k])
                      /\ \A i \in 1 .. Len(log[k]) : log'[k][i] = log[k][i]
                      /\ \A i \in 1 .. Len(log'[k]) :
                            i > Len(log[k]) => log'[k][i] = stamp
    OBVIOUS
  <2>1. CASE k = k0
    <3>1. Len(log[k0]) \in Nat
      BY <1>2
    <3>2. \A i \in 1 .. Len(log[k0]) + 1 : i > Len(log[k0]) => i = Len(log[k0]) + 1
      BY <3>1
    <3>3. Len(log[k0]) + 1 >= Len(log[k0])
      BY <3>1
    <3> QED
      BY <1>3, <1>4, <2>1, <3>2, <3>3, Zenon
  <2>2. CASE k # k0
    BY <1>2, <1>3, <2>2
  <2> QED
    BY <2>1, <2>2
<1>8. \A k \in Deques : \A i \in 1 .. Len(log'[k]) : log'[k][i] <= stamp
  BY <1>1, <1>2, <1>6, <1>7
<1>9. LogInOrder'
  <2> SUFFICES ASSUME NEW k \in Deques, NEW i \in 1 .. Len(log'[k]),
                      NEW j \in 1 .. Len(log'[k]), i < j
               PROVE  log'[k][i] <= log'[k][j]
    BY DEF LogInOrder
  <2>1. CASE j > Len(log[k])
    BY <1>7, <1>8, <2>1
  <2>2. CASE j <= Len(log[k])
    <3>1. i \in 1 .. Len(log[k]) /\ j \in 1 .. Len(log[k])
      BY <1>2, <2>2
    <3>2. log[k][i] <= log[k][j]
      BY <3>1 DEF StatsInv, LogInOrder
    <3> QED
      BY <3>1, <3>2, <1>7
  <2> QED
    BY <1>2, <2>1, <2>2
<1> QED
  BY <1>5, <1>7, <1>8, <1>9

(* A pruning up to any time that has been read keeps what is recent.       *)
LEMMA PruneKeepsRecent ==
  ASSUME StatsInv, NEW now \in 0 .. clock, PruneAll(now), clock' = clock,
         log' \in [Deques -> Seq(Nat)],
         \A k \in Deques : Len(log'[k]) >= Len(log[k]),
         \A k \in Deques : \A i \in 1 .. Len(log[k]) : log'[k][i] = log[k][i]
  PROVE  /\ popped' \in [Deques -> Nat]
         /\ \A k \in Deques : popped'[k] <= Len(log'[k])
         /\ NothingRecentPopped'
<1>1. /\ popped \in [Deques -> Nat] /\ clock \in Nat
      /\ \A k \in Deques : log[k] \in Seq(Nat) /\ popped[k] <= Len(log[k])
  BY DEF StatsInv, StatsTypeOK
<1>2. \A k \in Deques : popped'[k] = Prune(log'[k], popped[k], now)
  BY DEF PruneAll
<1>3. \A k \in Deques : log'[k] \in Seq(Nat) /\ popped[k] \in 0 .. Len(log'[k])
  BY <1>1
<1>4. now \in Nat /\ now <= clock
  BY <1>1
<1>5. \A k \in Deques :
         /\ popped'[k] \in popped[k] .. Len(log'[k])
         /\ \A i \in popped[k] + 1 .. popped'[k] : log'[k][i] < now - Window
  BY <1>2, <1>3, <1>4, PruneFacts
<1>6. popped' \in [Deques -> Nat]
  <2>1. \A k \in Deques : Prune(log'[k], popped[k], now) \in Nat
    BY <1>1, <1>2, <1>3, <1>5
  <2> QED
    BY <2>1 DEF PruneAll
<1>7. NothingRecentPopped'
  <2> SUFFICES ASSUME NEW k \in Deques, NEW i \in 1 .. Len(log'[k]),
                      i <= popped'[k]
               PROVE  log'[k][i] < clock - Window
    BY DEF NothingRecentPopped
  <2>1. CASE i <= popped[k]
    <3>1. i \in 1 .. Len(log[k])
      BY <1>1, <2>1
    <3>2. log[k][i] < clock - Window
      BY <2>1, <3>1 DEF StatsInv, NothingRecentPopped
    <3> QED
      BY <3>1, <3>2
  <2>2. CASE i > popped[k]
    <3>1. i \in popped[k] + 1 .. popped'[k] /\ log'[k][i] \in Nat
      BY <1>1, <1>3, <1>5, <2>2
    <3>2. log'[k][i] < now - Window
      BY <3>1, <1>5
    <3> QED
      BY <3>1, <3>2, <1>1, <1>4, WindowAssumption
  <2> QED
    BY <1>1, <2>1, <2>2
<1> QED
  BY <1>5, <1>6, <1>7, <1>3

-----------------------------------------------------------------------------
(* A report or a look of one thread, whatever the other thread did since   *)
(* the clock was read, preserves the invariant.                            *)
LEMMA StatsStepKeepsInv == StatsInv /\ [StatsNext]_statsVars => StatsInv'
<1> SUFFICES ASSUME StatsInv, [StatsNext]_statsVars PROVE StatsInv'
  OBVIOUS
<1> USE DEF StatsInv
<1>1. CASE Tick
  BY <1>1, WindowAssumption
  DEF Tick, StatsTypeOK, LogInOrder, LogIsPast, NothingRecentPopped, None
<1>2. ASSUME NEW k \in Deques, StartCall(k) PROVE StatsInv'
  BY <1>2
  DEF StartCall, Deques, StatsTypeOK, LogInOrder, LogIsPast, NothingRecentPopped
<1>3. ASSUME NEW k \in Deques, Record(k), PruneAll(stamp),
             UNCHANGED <<clock, stamp, asked>>, depth' \in Nat, drops' \in Nat,
             call' \in {"none", "overlay"}
      PROVE  StatsInv'
  <2>1. stamp \in 0 .. clock
    BY DEF StatsTypeOK
  <2>2. /\ log' \in [Deques -> Seq(Nat)]
        /\ \A j \in Deques : Len(log'[j]) >= Len(log[j])
        /\ \A j \in Deques : \A i \in 1 .. Len(log[j]) : log'[j][i] = log[j][i]
        /\ LogInOrder' /\ LogIsPast'
    BY <1>3, RecordKeepsOrder DEF LogIsPast
  <2>3. clock' = clock
    BY <1>3
  <2>4. /\ popped' \in [Deques -> Nat]
        /\ \A j \in Deques : popped'[j] <= Len(log'[j])
        /\ NothingRecentPopped'
    BY <1>3, <2>1, <2>2, <2>3, PruneKeepsRecent
  <2>5. StatsTypeOK'
    BY <1>3, <2>1, <2>2, <2>4 DEF StatsTypeOK
  <2> QED
    BY <2>2, <2>4, <2>5
<1>4. ASSUME NEW now \in 0 .. clock, PruneAll(now), UNCHANGED <<clock, log, depth, drops, stamp>>,
             call' \in {call, "none"}, asked' \in {asked, None}
      PROVE  StatsInv'
  <2>1. log' \in [Deques -> Seq(Nat)] /\ log' = log /\ clock' = clock
    BY <1>4 DEF StatsTypeOK
  <2>2. /\ popped' \in [Deques -> Nat]
        /\ \A j \in Deques : popped'[j] <= Len(log'[j])
        /\ NothingRecentPopped'
    <3>1. \A k \in Deques : log[k] \in Seq(Nat)
      BY DEF StatsTypeOK
    <3> QED
      BY <1>4, <2>1, <3>1, PruneKeepsRecent
  <2>3. StatsTypeOK'
    BY <1>4, <2>1, <2>2 DEF StatsTypeOK, None
  <2> QED
    BY <1>4, <2>2, <2>3 DEF LogInOrder, LogIsPast
<1>5. CASE Overlay
  <2>1. CASE PruneAll(stamp)
    BY <1>4, <1>5, <2>1 DEF Overlay, StatsTypeOK
  <2>2. CASE UNCHANGED popped
    BY <1>5, <2>2
    DEF Overlay, StatsTypeOK, LogInOrder, LogIsPast, NothingRecentPopped
  <2> QED
    BY <1>5, <2>1, <2>2 DEF Overlay
<1>6. CASE AskSnapshot
  BY <1>6
  DEF AskSnapshot, StatsTypeOK, LogInOrder, LogIsPast, NothingRecentPopped
<1>7. CASE TakeSnapshot
  <2>1. asked \in 0 .. clock
    BY <1>7 DEF TakeSnapshot, StatsTypeOK, None
  <2> QED
    BY <1>4, <1>7, <2>1 DEF TakeSnapshot
<1>8. ASSUME NEW size \in Nat, NEW total \in Nat, OnVideoPacket(size, total)
      PROVE  StatsInv'
  BY <1>3, <1>8 DEF OnVideoPacket, Deques
<1>9. CASE OnPresentedFrame
  <2>1. depth \in Nat /\ drops \in Nat
    BY DEF StatsTypeOK
  <2> QED
    BY <1>3, <1>9, <2>1 DEF OnPresentedFrame, Deques
<1>10. CASE UNCHANGED statsVars
  BY <1>10
  DEF statsVars, StatsTypeOK, LogInOrder, LogIsPast, NothingRecentPopped
<1> QED
  BY <1>1, <1>2, <1>5, <1>6, <1>7, <1>8, <1>9, <1>10 DEF StatsNext, Panel

(* The invariant holds for every window and any number of events.          *)
THEOREM StatsInvariant == StatsSpec => []StatsInv
  BY InitStatsInv, StatsStepKeepsInv, PTL DEF StatsSpec

-----------------------------------------------------------------------------
(* A snapshot taken in an invariant state counts exactly the window.       *)
LEMMA SnapshotCounts ==
  StatsInv /\ TakeSnapshot =>
     \A k \in Deques : \A i \in 1 .. Len(log[k]) :
        /\ log[k][i] >= clock - Window => i > popped'[k]
        /\ i > popped'[k] => log[k][i] >= asked - Window
<1> SUFFICES ASSUME StatsInv, TakeSnapshot,
                    NEW k \in Deques, NEW i \in 1 .. Len(log[k])
             PROVE  /\ log[k][i] >= clock - Window => i > popped'[k]
                    /\ i > popped'[k] => log[k][i] >= asked - Window
  OBVIOUS
<1>1. /\ log[k] \in Seq(Nat) /\ popped[k] \in 0 .. Len(log[k])
      /\ asked \in Nat /\ clock \in Nat /\ asked <= clock
      /\ log' = log /\ clock' = clock
  BY DEF StatsInv, StatsTypeOK, TakeSnapshot, None
<1>2. popped'[k] = Prune(log[k], popped[k], asked)
  BY <1>1 DEF TakeSnapshot, PruneAll
<1>3. /\ popped'[k] \in popped[k] .. Len(log[k])
      /\ popped'[k] < Len(log[k]) => log[k][popped'[k] + 1] >= asked - Window
  BY <1>1, <1>2, PruneFacts
<1>4. StatsInv'
  BY StatsStepKeepsInv DEF StatsNext, Panel
<1>5. log[k][i] >= clock - Window => i > popped'[k]
  BY <1>1, <1>3, <1>4, WindowAssumption DEF StatsInv, NothingRecentPopped
<1>6. ASSUME i > popped'[k] PROVE log[k][i] >= asked - Window
  <2>1. popped'[k] + 1 \in 1 .. Len(log[k]) /\ popped'[k] + 1 <= i
    BY <1>1, <1>3, <1>6
  <2>2. log[k][popped'[k] + 1] <= log[k][i]
    BY <2>1, <1>1 DEF StatsInv, LogInOrder
  <2>3. log[k][popped'[k] + 1] >= asked - Window
    BY <1>1, <1>3, <2>1
  <2>4. log[k][popped'[k] + 1] \in Nat /\ log[k][i] \in Nat
    BY <1>1, <2>1
  <2> QED
    BY <1>1, <2>2, <2>3, <2>4, WindowAssumption
<1> QED
  BY <1>5, <1>6

(* The statistics of the panel count the window, for every window.         *)
THEOREM StatsCount == StatsSpec => CountsTheWindow
  BY StatsInvariant, SnapshotCounts, PTL DEF StatsSpec, CountsTheWindow

-----------------------------------------------------------------------------
(* The queue with its statistics.                                          *)

(* Every step of the two is a step of the queue or leaves it alone, ...    *)
LEMMA QueueSteps == [BothNext]_bothVars => [Next]_vars
<1> SUFFICES ASSUME BothNext PROVE [Next]_vars
  BY DEF bothVars
<1>1. ASSUME NEW kind \in Kinds, Ingest(kind) PROVE Next
  BY <1>1 DEF Ingest, Next
<1>2. Decode => Next
  BY DEF Decode, Next
<1>3. Report \/ Present => UNCHANGED vars
  BY DEF Report, Present
<1>4. NewSession => Next
  BY DEF NewSession, Next
<1> QED
  BY <1>1, <1>2, <1>3, <1>4 DEF BothNext

(* ... and one of the statistics or none of theirs, for the numbers that   *)
(* are reported are naturals.                                              *)
LEMMA StatsSteps == TypeOK /\ [BothNext]_bothVars => [StatsNext]_statsVars
<1> SUFFICES ASSUME TypeOK, BothNext PROVE [StatsNext]_statsVars
  BY DEF bothVars
<1>1. ASSUME NEW kind \in Kinds, Ingest(kind) PROVE StatsNext
  BY <1>1 DEF Ingest, StatsNext, Deques
<1>2. Report => StatsNext
  <2>1. Backlog \in Nat /\ dropped \in Nat
    BY DEF TypeOK, Backlog
  <2> QED
    BY <2>1 DEF Report, StatsNext
<1>3. Decode \/ NewSession => UNCHANGED statsVars
  BY DEF Decode, NewSession
<1>4. Present => StatsNext
  BY DEF Present, StatsNext, Deques
<1> QED
  BY <1>1, <1>2, <1>3, <1>4 DEF BothNext, StatsNext

(* What is proved of the queue holds of the queue with its statistics.     *)
THEOREM BothKeepQueue == BothSpec => Spec
<1>1. BothInit => Init
  BY DEF BothInit
<1> QED
  BY <1>1, QueueSteps, PTL DEF BothSpec, Spec

(* With the queue that feeds them the statistics count the window.         *)
THEOREM BothKeepStats == BothSpec => StatsSpec
<1>1. BothInit => StatsInit
  BY DEF BothInit
<1>2. BothSpec => []TypeOK
  BY BothKeepQueue, QueueTypeOK, PTL
<1> QED
  BY <1>1, <1>2, StatsSteps, PTL DEF BothSpec, StatsSpec

(* The report that follows a put brings the backlog and the drops up to    *)
(* date before anything else changes them; a new session has no backlog.   *)
LEMMA BacklogStep ==
  TypeOK /\ StatsInv /\ BacklogShown /\ [BothNext]_bothVars => BacklogShown'
<1> SUFFICES ASSUME TypeOK, StatsInv, BacklogShown, [BothNext]_bothVars
             PROVE  BacklogShown'
  OBVIOUS
<1>1. /\ depth \in Nat /\ Len(queue) \in Nat /\ queue \in Seq(1 .. Len(arrived))
      /\ arrived \in Seq(Kinds)
  BY DEF StatsInv, StatsTypeOK, TypeOK
<1>2. ASSUME NEW kind \in Kinds, Ingest(kind) PROVE BacklogShown'
  <2>1. call = "none" /\ call' = "video" /\ depth' = depth /\ Put(kind)
    BY <1>2 DEF Ingest, StartCall
  <2>2. Len(queue') <= Len(queue) + 1 /\ Len(queue') \in Nat
    <3>1. CASE queue' = Append(queue, Len(arrived'))
      BY <1>1, <3>1
    <3>2. CASE queue' = <<Len(arrived')>>
      BY <1>1, <3>2
    <3>3. CASE queue' = <<>>
      BY <1>1, <3>3, EmptySeq
    <3>4. CASE queue' = queue
      BY <1>1, <3>4
    <3> QED
      BY <2>1, <3>1, <3>2, <3>3, <3>4 DEF Put, PutRecovering, PutOverflow, PutNormal
  <2>3. Len(queue') <= depth' + 1
    <3>1. Len(queue) <= depth
      BY <2>1 DEF BacklogShown
    <3> QED
      BY <1>1, <2>1, <2>2, <3>1
  <2> QED
    BY <2>1, <2>3 DEF BacklogShown
<1>3. CASE Report
  BY <1>1, <1>3 DEF Report, OnVideoPacket, Backlog, BacklogShown, vars
<1>4. CASE Decode
  <2>1. queue # <<>> /\ queue' = Tail(queue)
    BY <1>4 DEF Decode, Get
  <2>2. Len(queue') <= Len(queue) /\ Len(queue') \in Nat
    BY <1>1, <2>1
  <2>3. UNCHANGED <<depth, drops, dropped, arrived, call>>
    BY <1>4 DEF Decode, Get, statsVars
  <2> QED
    BY <1>1, <2>2, <2>3 DEF BacklogShown
<1>5. CASE NewSession
  <2>1. arrived' = <<>> /\ Len(queue') = 0 /\ depth' = depth
    BY <1>5, EmptySeq DEF NewSession, NewQueue, statsVars
  <2> QED
    BY <1>1, <2>1 DEF BacklogShown
<1>6. CASE Present
  BY <1>6 DEF Present, StartCall, BacklogShown, vars
<1>7. CASE (OnPresentedFrame \/ Overlay \/ Panel \/ Tick) /\ UNCHANGED vars
  <2>1. /\ UNCHANGED <<arrived, queue, dropped, depth, drops>>
        /\ call # "video" \/ call' = "video"
    BY <1>7 DEF OnPresentedFrame, Overlay, Panel, AskSnapshot, TakeSnapshot,
                Tick, vars
  <2> QED
    BY <2>1 DEF BacklogShown
<1>8. CASE UNCHANGED bothVars
  BY <1>8 DEF bothVars, vars, statsVars, BacklogShown
<1> QED
  BY <1>2, <1>3, <1>4, <1>5, <1>6, <1>7, <1>8 DEF BothNext

(* For every size of the queue, and over any number of sessions, the panel *)
(* never shows less of a backlog than there is but for one unreported      *)
(* packet, nor, once its session has reported one, another queue's drops.  *)
THEOREM BacklogIsShown == BothSpec => []BacklogShown
<1>1. BothInit => BacklogShown
  BY EmptySeq DEF BothInit, Init, StatsInit, BacklogShown
<1>2. BothSpec => []TypeOK
  BY BothKeepQueue, QueueTypeOK, PTL
<1> QED
  BY <1>1, <1>2, BothKeepStats, StatsInvariant, BacklogStep, PTL DEF BothSpec
=============================================================================
