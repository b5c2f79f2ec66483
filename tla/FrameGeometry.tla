---------------------------- MODULE FrameGeometry ----------------------------
(***************************************************************************)
(* Sizes receiver/preview.py computes: turning a picture, fitting it into  *)
(* the canvas of the virtual camera and into the window.                   *)
(*                                                                         *)
(* The source computes in floating point.  A quotient that is exact there  *)
(* may come out a little smaller, and a tie may be rounded either way;     *)
(* every other result is that of the rationals, for the sizes of pictures  *)
(* are far below the precision of a double.  The operators return the set  *)
(* of the possible results.                                                *)
(***************************************************************************)
EXTENDS Integers

Sizes == [w : Nat \ {0}, h : Nat \ {0}]

(* rotated_dimensions, rotate_bgr.                                         *)
Turned(size, rotation) ==
    IF rotation % 360 \in {90, 270} THEN [w |-> size.h, h |-> size.w] ELSE size

(* Mutant: the picture fills the target.                                   *)
FillScale(src, dst) ==
    IF dst.w * src.h >= dst.h * src.w THEN <<dst.w, src.w>> ELSE <<dst.h, src.h>>
(* min(width / source_w, height / source_h), numerator and denominator.    *)
Scale(src, dst) ==
    IF dst.w * src.h <= dst.h * src.w THEN <<dst.w, src.w>> ELSE <<dst.h, src.h>>

(* int(round(n / d)) and int(n / d).                                       *)
Rounded(n, d) ==
    CASE 2 * (n % d) < d -> {n \div d}
      [] 2 * (n % d) > d -> {n \div d + 1}
      [] OTHER           -> {n \div d, n \div d + 1}
Truncated(n, d) == {n \div d} \cup (IF n % d = 0 THEN {n \div d - 1} ELSE {})

AtLeastOne(n) == IF n < 1 THEN 1 ELSE n
Within(n, limit) == AtLeastOne(IF n > limit THEN limit ELSE n)

(* fit_bgr_frame: the sizes the picture may have inside the canvas, ...    *)
Fitted(src, dst) ==
    LET s == Scale(src, dst)
    IN [w : {Within(n, dst.w) : n \in Rounded(src.w * s[1], s[2])},
        h : {Within(n, dst.h) : n \in Rounded(src.h * s[1], s[2])}]

(* ... _fit_dimensions: and inside the window, where nothing limits it.    *)
WindowFitted(src, dst) ==
    LET s == Scale(src, dst)
    IN [w : {AtLeastOne(n) : n \in Truncated(src.w * s[1], s[2])},
        h : {AtLeastOne(n) : n \in Truncated(src.h * s[1], s[2])}]

(* The corner that centres a picture.                                      *)
Corner(size, dst) == [x |-> (dst.w - size.w) \div 2, y |-> (dst.h - size.h) \div 2]

-----------------------------------------------------------------------------
(* What the two promise of a picture at a corner.                          *)

Inside(size, corner, dst) == /\ corner.x >= 0 /\ corner.x + size.w <= dst.w
                             /\ corner.y >= 0 /\ corner.y + size.h <= dst.h

Distance(a, b) == IF a < b THEN b - a ELSE a - b

(* The bars on two opposite sides differ by a pixel at most.               *)
Centred(size, corner, dst) ==
    /\ Distance(2 * corner.x + size.w, dst.w) <= 1
    /\ Distance(2 * corner.y + size.h, dst.h) <= 1

(* Neither side is more than slack pixels away from the sides of the       *)
(* largest picture of the same shape that dst can hold.                    *)
KeepsShape(size, src, dst, slack) ==
    IF dst.w * src.h <= dst.h * src.w
    THEN /\ size.w >= dst.w - slack
         /\ \/ Distance(size.h * src.w, src.h * dst.w) <= slack * src.w
            \/ size.h = 1
    ELSE /\ size.h >= dst.h - slack
         /\ \/ Distance(size.w * src.h, src.w * dst.h) <= slack * src.h
            \/ size.w = 1
=============================================================================
