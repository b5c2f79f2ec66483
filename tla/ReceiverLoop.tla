---------------------------- MODULE ReceiverLoop ----------------------------
(***************************************************************************)
(* receiver_loop of receiver/main.py on the thread of ReceiverWorker       *)
(* (launcher.py), with the search of receiver/usb.py and the published     *)
(* RuntimeState (runtime.py).                                              *)
(*                                                                         *)
(* A session is what StreamSession makes of it: it awaits the HELLO, it    *)
(* streams, and it ends in one of the outcomes of StreamSession!outcome.   *)
(* The cable, the usbmux service and the app on the phone are external and *)
(* change at any time, between two awaits of one attempt too.              *)
(***************************************************************************)
VARIABLES
    pc,            \* where the loop is
    stopping,      \* stop_event is set
    socket,        \* the loop holds a socket it has not closed
    status,        \* status of RuntimeState
    hasMetadata,   \* RuntimeState has the metadata of some stream
    ended,         \* how the attempt ended
    service,       \* usbmux answers
    plugged,       \* an iPhone is connected over USB
    app,           \* the app on it: off, serving, or suspended by iOS
    cut            \* the connection of the socket is over

loopVars == <<pc, stopping, socket, status, hasMetadata, ended>>
phoneVars == <<service, plugged, app>>
vars == <<loopVars, phoneVars, cut>>

(* The exceptions of usb.py, and the outcomes of a session.                *)
NoSession == {"noService", "notFound", "unreachable"}
Outcomes == {"ok", "stream", "os", "raise"}
Fatal == {"noService", "raise"}

Init == /\ pc = "loop" /\ stopping = FALSE /\ socket = FALSE
        /\ status = "idle" /\ hasMetadata = FALSE
        /\ ended = "none"
        /\ service \in BOOLEAN /\ plugged \in BOOLEAN
        /\ app \in {"off", "serving", "suspended"}
        /\ cut = FALSE

-----------------------------------------------------------------------------
(* The outside.                                                            *)

(* Pulling the cable or ending the app closes a connection; a suspended app*)
(* leaves it open and silent.                                              *)
Phone ==
    /\ \/ service' = ~service /\ UNCHANGED <<plugged, app>>
       \/ plugged' = ~plugged /\ UNCHANGED <<service, app>>
       \/ /\ app' \in {"off", "serving", "suspended"} \ {app}
          /\ UNCHANGED <<service, plugged>>
    /\ cut' = (cut \/ (socket /\ (~plugged' \/ app' = "off")))
    /\ UNCHANGED loopVars

RequestStop == /\ ~stopping
               /\ stopping' = TRUE
               /\ UNCHANGED <<pc, socket, status, hasMetadata, ended, phoneVars, cut>>

-----------------------------------------------------------------------------
(* The loop.                                                               *)

Search == /\ pc = "loop"
          /\ IF stopping THEN pc' = "returned" /\ UNCHANGED status
             ELSE pc' = "listing" /\ status' = "searching"
          /\ ended' = "none"
          /\ UNCHANGED <<stopping, socket, hasMetadata, phoneVars, cut>>

StatusAfter(how) ==
    CASE how \in {"ok", "os"} -> "reconnecting"
      [] how \in {"notFound", "unreachable"} -> "waiting"
      [] OTHER -> "error"

(* Mutant: only an end that is an error is published.                      *)
AttemptEndsQuietly(how) ==
    /\ ended' = how
    /\ pc' = "closing"
    /\ status' = IF how \in {"ok", "raise"} THEN status ELSE StatusAfter(how)
    /\ UNCHANGED <<stopping, socket, hasMetadata, phoneVars, cut>>
(* The except clause for how, or the last line of the try; no clause       *)
(* publishes anything of what is raised on.                                *)
AttemptEnds(how) ==
    /\ ended' = how
    /\ pc' = "closing"
    /\ status' = IF how = "raise" THEN status ELSE StatusAfter(how)
    /\ UNCHANGED <<stopping, socket, hasMetadata, phoneVars, cut>>

Resumed == IF stopping THEN "loop" ELSE "sleeping"

(* Mutant: the socket is closed when the attempt is retried only.          *)
CloseSocketOnRetry ==
    /\ pc = "closing"
    /\ socket' = (socket /\ ended \in Fatal) /\ cut' = FALSE
    /\ pc' = IF ended \in Fatal THEN "dying" ELSE Resumed
    /\ UNCHANGED <<stopping, status, hasMetadata, ended, phoneVars>>
(* Mutant: a lost connection is not caught.                                *)
CloseSocketForGood ==
    /\ pc = "closing"
    /\ socket' = FALSE /\ cut' = FALSE
    /\ pc' = IF ended \in Fatal \cup {"os"} THEN "dying" ELSE Resumed
    /\ UNCHANGED <<stopping, status, hasMetadata, ended, phoneVars>>
(* The finally, and the delay unless the loop is stopped or left.          *)
CloseSocket ==
    /\ pc = "closing"
    /\ socket' = FALSE /\ cut' = FALSE
    /\ pc' = IF ended \in Fatal THEN "dying" ELSE Resumed
    /\ UNCHANGED <<stopping, status, hasMetadata, ended, phoneVars>>

(* _thread_main publishes what left the loop, whatever it was.             *)
Dies == /\ pc = "dying"
        /\ pc' = "dead"
        /\ status' = "error"
        /\ UNCHANGED <<stopping, socket, hasMetadata, ended, phoneVars, cut>>

(* find_usb_iphone: every error of list_devices is the missing service.    *)
ListDevices ==
    /\ pc = "listing"
    /\ \/ ~service /\ AttemptEnds("noService")
       \/ service /\ ~plugged /\ AttemptEnds("notFound")
       \/ /\ service /\ plugged
          /\ pc' = "connecting"
          /\ UNCHANGED <<stopping, socket, status, hasMetadata, ended, phoneVars, cut>>

(* connect_device_port with the device that was listed, there or not.      *)
Connect ==
    /\ pc = "connecting"
    /\ \/ /\ service /\ plugged /\ app # "off"
          /\ pc' = "hello"
          /\ socket' = TRUE
          /\ status' = "connecting"
          /\ UNCHANGED <<stopping, hasMetadata, ended, phoneVars, cut>>
       \/ ~(service /\ plugged /\ app = "serving") /\ AttemptEnds("unreachable")

(* The HELLO arrives: RuntimeState.set_metadata.                           *)
Hello ==
    /\ pc = "hello" /\ ~cut /\ app = "serving"
    /\ pc' = "streaming"
    /\ status' = "connected"
    /\ hasMetadata' = TRUE
    /\ UNCHANGED <<stopping, socket, ended, phoneVars, cut>>

(* The connection ends the session: before the HELLO that is an error.     *)
LosesConnection ==
    /\ cut
    /\ \/ pc = "hello" /\ \E how \in {"stream", "os"} : AttemptEnds(how)
       \/ pc = "streaming" /\ \E how \in {"ok", "os"} : AttemptEnds(how)

(* The session ends itself: a packet it refuses, the preview that is closed*)
(* or fails, a codec or a preview that is not to be had, a close that      *)
(* raises, a frame for the diagnostics that cannot be saved ("os").  A     *)
(* HELLO that is no JSON object is refused, or raises what nobody catches. *)
EndsItself ==
    \/ /\ pc = "hello" /\ ~cut /\ app = "serving"
       /\ \E how \in {"stream", "raise"} : AttemptEnds(how)
    \/ pc = "streaming" /\ \E how \in Outcomes : AttemptEnds(how)

Wakes == /\ pc = "sleeping"
         /\ pc' = "loop"
         /\ UNCHANGED <<stopping, socket, status, hasMetadata, ended, phoneVars, cut>>

Loop == \/ Search \/ ListDevices \/ Connect \/ Hello \/ LosesConnection
        \/ CloseSocket \/ Dies \/ Wakes

Next == Loop \/ EndsItself \/ Phone \/ RequestStop

(* The thread runs, an await of usbmux returns or raises, the timer of the *)
(* delay fires, and a session notices that its connection is over          *)
(* (StreamSession!SessionEnds: nothing stays unsent on a connection that is*)
(* over).  Nothing makes the phone or the user act.                        *)
Spec == Init /\ [][Next]_vars /\ WF_vars(Loop)

-----------------------------------------------------------------------------
(* Every variable has its type.                                            *)
TypeOK ==
    /\ pc \in {"loop", "listing", "connecting", "hello", "streaming",
               "closing", "sleeping", "returned", "dying", "dead"}
    /\ stopping \in BOOLEAN /\ socket \in BOOLEAN
    /\ status \in {"idle", "searching", "connecting", "connected", "waiting",
                   "reconnecting", "error"}
    /\ hasMetadata \in BOOLEAN
    /\ ended \in NoSession \cup Outcomes \cup {"none"}
    /\ service \in BOOLEAN /\ plugged \in BOOLEAN
    /\ app \in {"off", "serving", "suspended"}
    /\ cut \in BOOLEAN

(* No attempt leaves its socket open, however it ends: a phone serves one  *)
(* client, and the next attempt would push the leaked one out.             *)
SocketIsOwned == /\ pc \in {"hello", "streaming"} => socket
                 /\ socket => pc \in {"hello", "streaming", "closing"}

(* The status tells what the thread does: connected while it streams, with *)
(* the metadata of a stream, and error, for good, once the thread is dead. *)
(* A thread that is connected and does not stream is about to die.         *)
Failing == ended = "raise" /\ pc \in {"closing", "dying", "dead"}
StatusIsTrue == /\ pc = "streaming" => status = "connected"
                /\ status = "connected" => hasMetadata /\ (pc = "streaming" \/ Failing)
                /\ pc = "dead" => status = "error"

(* "On cable disconnect or socket failure, Windows returns to device       *)
(* search/reconnect state rather than exiting permanently": whatever a     *)
(* phone can do to an attempt, the loop searches again, unless it is told  *)
(* to stop.                                                                *)
Retries ==
    pc \in {"hello", "streaming"} /\ cut
        ~> pc \in {"listing", "returned"} \/ ended = "raise"

(* "The receiver surfaces clear errors for [...] Stream timeout": a phone  *)
(* that stays silent does not stay connected.                              *)
SilenceNoticed ==
    status = "connected" /\ app = "suspended"
        ~> status # "connected" \/ app # "suspended"
=============================================================================
