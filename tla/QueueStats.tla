----------------------------- MODULE QueueStats -----------------------------
(***************************************************************************)
(* The encoded queue and the statistics the tasks of a session report of   *)
(* it.  The tasks share one thread: ingest puts a packet and reports it    *)
(* without an await between, so the decode task takes nothing in between,  *)
(* but the panel may look at any time.  One StreamStats outlives all       *)
(* sessions, while each of them has its own queue.                         *)
(***************************************************************************)
EXTENDS KeyframeQueue, StatsWindow

CONSTANT MaxPackets       \* bound on the packets of all sessions

ASSUME PacketsAssumption == MaxPackets \in Nat

bothVars == <<vars, statsVars>>

BothInit == Init /\ StatsInit

(* Mutant: the depth is taken before the put.                              *)
BacklogBefore == IF queue = <<>> THEN 0 ELSE Len(queue) - 1
(* encoded.qsize after the put.                                            *)
Backlog == Len(queue)

(* A video packet is stamped and put, ...                                  *)
Ingest(kind) == /\ Len(log["video"]) < MaxPackets
                /\ StartCall("video")
                /\ Put(kind)
(* ... and reported.                                                       *)
Report == OnVideoPacket(Backlog, dropped) /\ UNCHANGED vars

Decode == call = "none" /\ Get /\ UNCHANGED statsVars

(* The preview presents a frame of a packet that was decoded.              *)
Present == /\ Len(log["display"]) < MaxFrames
           /\ got # 0
           /\ StartCall("display")
           /\ UNCHANGED vars

(* A session ends at an await, where no task is in a report; the next one  *)
(* has a new queue and the old statistics.                                 *)
NewSession == call = "none" /\ NewQueue /\ UNCHANGED statsVars

BothNext == \/ \E kind \in Kinds : Ingest(kind)
            \/ Report \/ Decode \/ Present \/ NewSession
            \/ (OnPresentedFrame \/ Overlay \/ Panel \/ Tick) /\ UNCHANGED vars

BothSpec == BothInit /\ [][BothNext]_bothVars

(* The panel never shows less of a backlog than there is, but for the one  *)
(* packet put and not yet reported; outside a report, from the first one of*)
(* a session on, the count of drops is that of its own queue, and never of *)
(* the one before.                                                         *)
BacklogShown ==
    /\ Len(queue) <= depth + 1
    /\ call # "video" => Len(queue) <= depth
    /\ call # "video" /\ arrived # <<>> => drops = dropped
=============================================================================
