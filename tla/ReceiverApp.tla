----------------------------- MODULE ReceiverApp -----------------------------
(***************************************************************************)
(* The Windows application of receiver/launcher.py, started with           *)
(* --native-mf: the receiver thread (ReceiverLoop) with the outputs of its *)
(* sessions (Preview), and the control panel of receiver/gui.py, which     *)
(* changes the image settings and polls the published state.               *)
(***************************************************************************)
EXTENDS ReceiverLoop, Preview

VARIABLE panel          \* the colour of the panel's dot

appVars == <<vars, previewVars, panel>>

AppInit == Init /\ PreviewInit /\ panel = "muted"

Outside == UNCHANGED <<previewVars, panel>>

-----------------------------------------------------------------------------
(* The session, on the receiver thread.                                    *)

(* The outputs are opened when the metadata have been published.           *)
Setup == pc = "streaming" /\ Open /\ UNCHANGED <<vars, panel>>

SetupFails == /\ pc = "streaming" /\ OpenFails
              /\ AttemptEnds("raise")
              /\ UNCHANGED panel

Frame == pc = "streaming" /\ (Prepare \/ Show) /\ UNCHANGED <<vars, panel>>

(* A session that has its outputs closes them, however it ends; a close    *)
(* that raises ends the thread.                                            *)
Over == /\ pc = "streaming"
        /\ \/ LosesConnection /\ Idle
           \/ EndsItself
        /\ \/ Close
           \/ ended' = "raise" /\ CloseFails
        /\ UNCHANGED panel

(* What the loop does outside of a session that streams.                   *)
Attempt == /\ \/ Search \/ ListDevices \/ Connect \/ Hello
              \/ CloseSocket \/ Dies \/ Wakes
              \/ pc = "hello" /\ (LosesConnection \/ EndsItself)
           /\ Outside

(* Mutant: an error is shown like any other status.                        *)
MutedDot == IF status = "connected" THEN "accent" ELSE "muted"
Dot == CASE status = "connected" -> "accent"
         [] status = "error"     -> "danger"
         [] OTHER                -> "muted"

(* _poll shows a snapshot of RuntimeState.                                 *)
Poll == panel' = Dot /\ UNCHANGED <<vars, previewVars>>

AppNext == \/ Attempt \/ Setup \/ SetupFails \/ Frame \/ Over \/ Poll
           \/ (Panel \/ CloseWindow) /\ UNCHANGED <<vars, panel>>
           \/ (Phone \/ RequestStop) /\ Outside

(* The thread runs (see ReceiverLoop); a session that shows frame after    *)
(* frame still notices that its connection is over (StreamSession), and    *)
(* the timer of the panel fires.                                           *)
AppSpec == /\ AppInit /\ [][AppNext]_appVars
           /\ WF_appVars(Attempt \/ Setup \/ Frame)
           /\ SF_appVars(Over /\ cut) /\ WF_appVars(Poll)

-----------------------------------------------------------------------------
(* The variables of the loop and of the panel have their types (for those  *)
(* of the outputs see Preview).                                            *)
AppTypeOK == TypeOK /\ panel \in {"muted", "accent", "danger"}

(* The outputs belong to the session that streams: no attempt leaves a     *)
(* window or the virtual camera open for the next one to find it taken,    *)
(* unless it ends the thread, and the window stays only with the camera.   *)
OutputsAreOwned == /\ preview # "none" => sink /\ (pc = "streaming" \/ Failing)
                   /\ sink => preview # "none" \/ Failing

(* When the thread is dead the panel says so, and it goes on saying so.    *)
PanelShowsError == pc = "dead" ~> [](panel = "danger")
=============================================================================
