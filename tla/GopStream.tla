----------------------------- MODULE GopStream -----------------------------
(***************************************************************************)
(* What the encoded-video path promises to the decoder, and nothing about  *)
(* how: of the packets that arrived, an ordered selection is delivered, in *)
(* which a delta frame only ever follows the packet it was predicted from. *)
(*                                                                         *)
(* A packet is its arrival number; arrived[i] is its kind.  Packets may be  *)
(* lost, but only so that the next one delivered is a keyframe again.  A   *)
(* new session starts from nothing.                                        *)
(***************************************************************************)
EXTENDS Naturals, Sequences

CONSTANT MaxArrivals      \* bound on the packets of one session (a number)

VARIABLES arrived,        \* the kind of every packet so far
          last            \* the packet delivered last, 0 when there is none

vars == <<arrived, last>>

(* Delivering packet p right after packet q keeps the reference chain whole.*)
Follows(p, q) == arrived[p] = "key" \/ p = q + 1

Kinds == {"key", "delta"}

Init == /\ arrived = <<>>
        /\ last = 0

Arrive(kind) == /\ Len(arrived) < MaxArrivals
                /\ arrived' = Append(arrived, kind)
                /\ UNCHANGED last

Deliver(p) == /\ last < p
              /\ Follows(p, last)
              /\ last' = p
              /\ UNCHANGED arrived

Restart == arrived' = <<>> /\ last' = 0

Next == \/ \E kind \in Kinds : Arrive(kind)
        \/ \E p \in 1 .. Len(arrived) : Deliver(p)
        \/ Restart

Spec == Init /\ [][Next]_vars
=============================================================================
