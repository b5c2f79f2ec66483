---------------------------- MODULE StatsWindow ----------------------------
(***************************************************************************)
(* StreamStats of receiver/stats.py: two sliding windows of time stamps,   *)
(* fed by the receiver thread and read by it and by the control panel.     *)
(*                                                                         *)
(* Every method reads the clock, or is given a time read before, and takes *)
(* the lock afterwards: between the two the other thread may have its turn *)
(* with a later time.  A deque is what has not been popped off the log of  *)
(* all that was ever appended to it; sizes and latencies are left out.     *)
(***************************************************************************)
EXTENDS Integers, Sequences

CONSTANTS Window,         \* window_ns
          MaxClock,       \* bound on the clock
          MaxFrames       \* bound on the frames presented

ASSUME WindowAssumption == Window \in Nat \ {0}
ASSUME StatsBounds == MaxClock \in Nat /\ MaxFrames \in Nat

VARIABLES
    clock,            \* time.perf_counter_ns()
    log,              \* per deque: every time stamp appended to it
    popped,           \* per deque: how many of them were popped
    depth, drops,     \* _queue_depth, _dropped_packets
    call,             \* what the receiver thread is about to report
    stamp,            \* the now_ns of that call
    asked             \* the now of the panel's snapshot, None outside of one

statsVars == <<clock, log, popped, depth, drops, call, stamp, asked>>

Deques == {"video", "display"}
None == -1

StatsInit ==
    /\ clock = 0
    /\ log = [k \in Deques |-> <<>>]
    /\ popped = [k \in Deques |-> 0]
    /\ depth = 0 /\ drops = 0
    /\ call = "none" /\ stamp = 0
    /\ asked = None

-----------------------------------------------------------------------------
(* Mutant: an event as old as the window goes.                             *)
RecentStrictly(s, n, now) == {i \in n + 1 .. Len(s) : s[i] > now - Window}
(* The events of the deque that are not older than the window.             *)
Recent(s, n, now) == {i \in n + 1 .. Len(s) : s[i] >= now - Window}

(* _prune pops from the left up to the first event that is recent.         *)
Prune(s, n, now) ==
    IF Recent(s, n, now) = {} THEN Len(s)
    ELSE (CHOOSE i \in Recent(s, n, now) :
              \A j \in Recent(s, n, now) : i <= j) - 1

PruneAll(now) == popped' = [k \in Deques |-> Prune(log'[k], popped[k], now)]

Record(k) == log' = [log EXCEPT ![k] = Append(@, stamp)]

Tick == /\ clock < MaxClock
        /\ clock' = clock + 1
        /\ UNCHANGED <<log, popped, depth, drops, call, stamp, asked>>

-----------------------------------------------------------------------------
(* The receiver thread.                                                    *)

(* It reads the clock for a packet just read, or for a frame just prepared.*)
StartCall(what) ==
    /\ call = "none"
    /\ call' = what
    /\ stamp' = clock
    /\ UNCHANGED <<clock, log, popped, depth, drops, asked>>

OnVideoPacket(size, total) ==
    /\ call = "video"
    /\ Record("video")
    /\ depth' = size /\ drops' = total
    /\ PruneAll(stamp)
    /\ call' = "none"
    /\ UNCHANGED <<clock, stamp, asked>>

OnPresentedFrame ==
    /\ call = "display"
    /\ Record("display")
    /\ PruneAll(stamp)
    /\ call' = "overlay"
    /\ UNCHANGED <<clock, depth, drops, stamp, asked>>

(* The overlay, unless it is off, takes a snapshot with the same now_ns.   *)
Overlay ==
    /\ call = "overlay"
    /\ call' = "none"
    /\ UNCHANGED <<clock, log, depth, drops, stamp, asked>>
    /\ PruneAll(stamp) \/ UNCHANGED popped

-----------------------------------------------------------------------------
(* The panel, on the Tk thread: snapshot reads the clock before the lock.  *)

AskSnapshot == /\ asked = None
               /\ asked' = clock
               /\ UNCHANGED <<clock, log, popped, depth, drops, call, stamp>>

TakeSnapshot == /\ asked # None
                /\ UNCHANGED <<clock, log, depth, drops, call, stamp>>
                /\ PruneAll(asked)
                /\ asked' = None

Panel == AskSnapshot \/ TakeSnapshot

StatsNext == \/ Tick \/ Panel \/ OnPresentedFrame \/ Overlay
             \/ \E k \in Deques : StartCall(k)
             \/ \E size, total \in Nat : OnVideoPacket(size, total)

StatsSpec == StatsInit /\ [][StatsNext]_statsVars

-----------------------------------------------------------------------------
(* Every variable has its type.                                            *)
StatsTypeOK ==
    /\ clock \in Nat
    /\ log \in [Deques -> Seq(Nat)]
    /\ popped \in [Deques -> Nat]
    /\ \A k \in Deques : popped[k] <= Len(log[k])
    /\ depth \in Nat /\ drops \in Nat
    /\ call \in {"none", "video", "display", "overlay"}
    /\ stamp \in 0 .. clock
    /\ asked \in Nat \cup {None} /\ asked <= clock

(* The deques are in order of time, though each stamp is read outside the  *)
(* lock: _prune stops at the first event that is recent.                   *)
LogInOrder ==
    \A k \in Deques : \A i, j \in 1 .. Len(log[k]) : i < j => log[k][i] <= log[k][j]
LogIsPast == \A k \in Deques : \A i \in 1 .. Len(log[k]) : log[k][i] <= stamp

(* Nothing is popped that is not older than the window by now.             *)
NothingRecentPopped ==
    \A k \in Deques : \A i \in 1 .. Len(log[k]) :
        i <= popped[k] => log[k][i] < clock - Window

(* The inductive invariant behind the theorems of QueueStats_proofs.     *)
StatsInv == StatsTypeOK /\ LogInOrder /\ LogIsPast /\ NothingRecentPopped

(* A snapshot of the panel counts every event within the window of the     *)
(* present, and none that was older than the window when the snapshot was  *)
(* asked for, whatever the receiver thread records and prunes between the  *)
(* two.                                                                    *)
CountsTheWindow ==
    [][TakeSnapshot =>
         \A k \in Deques : \A i \in 1 .. Len(log[k]) :
            /\ log[k][i] >= clock - Window => i > popped'[k]
            /\ i > popped'[k] => log[k][i] >= asked - Window]_statsVars
=============================================================================
