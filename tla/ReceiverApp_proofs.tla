------------------------- MODULE ReceiverApp_proofs -------------------------
(***************************************************************************)
(* Whatever the sizes of the phone's frames, of the canvas and of the      *)
(* window, and whatever the panel changes between two steps: the pictures  *)
(* fit, a frame is shown with the settings it was fed with, and the window *)
(* follows them.  The application uses its receiver loop and its outputs   *)
(* only as their modules say, and the outputs belong to the session that   *)
(* streams.                                                                *)
(***************************************************************************)
EXTENDS ReceiverApp, TLAPS

-----------------------------------------------------------------------------
(* The outputs (Preview).                                                  *)

(* The quotient and the rest.                                              *)
LEMMA Division ==
  ASSUME NEW n \in Nat, NEW d \in Nat \ {0}
  PROVE  /\ n \div d \in Nat /\ n % d \in Nat /\ n % d < d
         /\ (n \div d) * d + (n % d) = n
  BY SMTT(30)

(* A quotient is no larger than a bound its numerator does not exceed.     *)
LEMMA Quotient ==
  ASSUME NEW n \in Nat, NEW d \in Nat \ {0}, NEW b \in Nat, n <= b * d
  PROVE  n \div d <= b
<1>1. /\ n \div d \in Nat /\ n % d \in Nat
      /\ (n \div d) * d + (n % d) = n
  BY Division
<1> DEFINE q == n \div d
<1> HIDE DEF q
<1>2. q \in Nat /\ q * d <= b * d
  BY <1>1 DEF q
<1>3. ~(q >= b + 1)
  <2> SUFFICES ASSUME q >= b + 1 PROVE FALSE
    OBVIOUS
  <2>1. q * d >= (b + 1) * d
    BY <1>2, SMTT(30)
  <2>2. (b + 1) * d = b * d + d
    BY SMTT(30)
  <2>3. b * d \in Nat /\ q * d \in Nat
    BY <1>2, SMTT(30)
  <2> QED
    BY <1>2, <2>1, <2>2, <2>3
<1> QED
  BY <1>2, <1>3 DEF q

(* A product divided by a factor.                                          *)
LEMMA Exact ==
  ASSUME NEW a \in Nat, NEW d \in Nat \ {0}
  PROVE  (d * a) \div d = a /\ (d * a) % d = 0
  BY SMTT(30)

-----------------------------------------------------------------------------
(* One side of a fitted picture: n / d is its exact length, at most b.     *)
LEMMA RoundedSide ==
  ASSUME NEW n \in Nat, NEW d \in Nat \ {0}, NEW b \in Nat \ {0}, n <= b * d,
         NEW side \in {Within(m, b) : m \in Rounded(n, d)}
  PROVE  /\ side \in 1 .. b
         /\ Distance(side * d, n) <= d \/ side = 1
         /\ n % d = 0 => side >= n \div d
<1> DEFINE q == n \div d
           r == n % d
<1>1. /\ q \in Nat /\ r \in Nat /\ r < d /\ q * d + r = n
  BY Division
<1>2. q <= b
  BY Quotient
<1>3. PICK m \in {q, q + 1} : side = Within(m, b) /\ (r = 0 => m = q)
  <2>1. Rounded(n, d) \subseteq {q, q + 1}
    BY <1>1 DEF Rounded
  <2>2. r = 0 => Rounded(n, d) = {q}
    <3>1. r = 0 => 2 * (n % d) < d
      BY <1>1
    <3>2. 2 * (n % d) < d => ~(2 * (n % d) > d)
      BY <1>1
    <3> QED
      BY <3>1, <3>2, Zenon DEF Rounded
  <2> HIDE DEF q, r
  <2> QED
    BY <2>1, <2>2
<1> HIDE DEF q, r
<1>4. side \in 1 .. b
  BY <1>1, <1>3 DEF Within, AtLeastOne
<1>5. side \in {q, q + 1} \/ side = 1
  BY <1>1, <1>2, <1>3 DEF Within, AtLeastOne
<1>6. q * d \in Nat /\ (q + 1) * d = q * d + d
  BY <1>1, SMTT(30)
<1>7. Distance(side * d, n) <= d \/ side = 1
  BY <1>1, <1>5, <1>6 DEF Distance
<1>8. r = 0 => side >= q
  BY <1>1, <1>2, <1>3 DEF Within, AtLeastOne
<1> QED
  BY <1>4, <1>7, <1>8 DEF q, r

LEMMA TruncatedSide ==
  ASSUME NEW n \in Nat, NEW d \in Nat \ {0}, NEW b \in Nat \ {0}, n <= b * d,
         NEW side \in {AtLeastOne(m) : m \in Truncated(n, d)}
  PROVE  /\ side \in 1 .. b
         /\ Distance(side * d, n) <= 2 * d \/ side = 1
         /\ n % d = 0 => side >= n \div d - 1
<1> DEFINE q == n \div d
           r == n % d
<1>1. /\ q \in Nat /\ r \in Nat /\ r < d /\ q * d + r = n
  BY Division
<1>2. q <= b
  BY Quotient
<1>3. PICK m \in {q, q - 1} : side = AtLeastOne(m)
  BY <1>1 DEF Truncated
<1> HIDE DEF q, r
<1>4. side \in 1 .. b /\ side >= q - 1
  BY <1>1, <1>2, <1>3 DEF AtLeastOne
<1>5. side \in {q, q - 1} \/ side = 1
  BY <1>1, <1>2, <1>3 DEF AtLeastOne
<1>6. q * d \in Nat /\ (q - 1) * d = q * d - d
  BY <1>1, SMTT(30)
<1>7. Distance(side * d, n) <= 2 * d \/ side = 1
  BY <1>1, <1>5, <1>6 DEF Distance
<1> QED
  BY <1>4, <1>7 DEF q, r

-----------------------------------------------------------------------------
(* What is no larger than its target is inside it, and at its centre.      *)
LEMMA AtTheCentre ==
  ASSUME NEW dst \in Sizes, NEW size \in [w : 1 .. dst.w, h : 1 .. dst.h]
  PROVE  /\ Inside(size, Corner(size, dst), dst)
         /\ Centred(size, Corner(size, dst), dst)
<1>1. /\ dst.w \in Nat /\ dst.h \in Nat
      /\ size.w \in 1 .. dst.w /\ size.h \in 1 .. dst.h
  BY DEF Sizes
<1>2. \A a \in Nat : \A b \in 1 .. a :
        LET c == (a - b) \div 2
        IN c >= 0 /\ c + b <= a /\ c \in Nat /\ Distance(2 * c + b, a) <= 1
  BY SMT DEF Distance
<1> QED
  BY <1>1, <1>2 DEF Inside, Centred, Corner

(* The two sides of Scale, seen from both of its branches.                 *)
LEMMA Products ==
  ASSUME NEW src \in Sizes, NEW dst \in Sizes
  PROVE  /\ src.w \in Nat \ {0} /\ src.h \in Nat \ {0}
         /\ dst.w \in Nat \ {0} /\ dst.h \in Nat \ {0}
         /\ src.w * dst.w \in Nat /\ src.h * dst.w \in Nat
         /\ src.w * dst.h \in Nat /\ src.h * dst.h \in Nat
         /\ dst.w * src.h = src.h * dst.w /\ dst.h * src.w = src.w * dst.h
         /\ dst.w * src.w = src.w * dst.w /\ dst.h * src.h = src.h * dst.h
<1>1. \A a, b \in Nat : a * b \in Nat /\ a * b = b * a
  BY SMT
<1>2. /\ src.w \in Nat \ {0} /\ src.h \in Nat \ {0}
      /\ dst.w \in Nat \ {0} /\ dst.h \in Nat \ {0}
  BY DEF Sizes
<1> QED
  BY <1>1, <1>2

(* The picture the virtual camera gets.  The rounding may go up, so that   *)
(* the limit of Within is needed.                                          *)
THEOREM CanvasHoldsPicture ==
  ASSUME NEW src \in Sizes, NEW dst \in Sizes, NEW size \in Fitted(src, dst)
  PROVE  /\ Inside(size, Corner(size, dst), dst)
         /\ Centred(size, Corner(size, dst), dst)
         /\ KeepsShape(size, src, dst, 1)
<1> USE Products
<1>1. CASE dst.w * src.h <= dst.h * src.w
  <2>1. /\ size.w \in {Within(n, dst.w) : n \in Rounded(src.w * dst.w, src.w)}
        /\ size.h \in {Within(n, dst.h) : n \in Rounded(src.h * dst.w, src.w)}
        /\ size = [w |-> size.w, h |-> size.h]
    BY <1>1 DEF Fitted, Scale
  <2>2. size.w \in 1 .. dst.w /\ size.w >= dst.w
    <3>1. /\ (src.w * dst.w) \div src.w = dst.w
          /\ (src.w * dst.w) % src.w = 0
      BY Exact
    <3> DEFINE n == src.w * dst.w
    <3>2. n \in Nat /\ n <= dst.w * src.w
      OBVIOUS
    <3> HIDE DEF n
    <3>3. /\ size.w \in 1 .. dst.w
          /\ n % src.w = 0 => size.w >= n \div src.w
      BY <2>1, <3>2, RoundedSide DEF n
    <3> QED
      BY <3>1, <3>3 DEF n
  <2>3. /\ size.h \in 1 .. dst.h
        /\ Distance(size.h * src.w, src.h * dst.w) <= src.w \/ size.h = 1
    BY <1>1, <2>1, RoundedSide
  <2>4. size \in [w : 1 .. dst.w, h : 1 .. dst.h]
    BY <2>1, <2>2, <2>3
  <2> QED
    BY <1>1, <2>2, <2>3, <2>4, AtTheCentre DEF KeepsShape
<1>2. CASE ~(dst.w * src.h <= dst.h * src.w)
  <2>1. /\ size.w \in {Within(n, dst.w) : n \in Rounded(src.w * dst.h, src.h)}
        /\ size.h \in {Within(n, dst.h) : n \in Rounded(src.h * dst.h, src.h)}
        /\ size = [w |-> size.w, h |-> size.h]
    BY <1>2 DEF Fitted, Scale
  <2>2. size.h \in 1 .. dst.h /\ size.h >= dst.h
    <3>1. /\ (src.h * dst.h) \div src.h = dst.h
          /\ (src.h * dst.h) % src.h = 0
      BY Exact
    <3> DEFINE n == src.h * dst.h
    <3>2. n \in Nat /\ n <= dst.h * src.h
      OBVIOUS
    <3> HIDE DEF n
    <3>3. /\ size.h \in 1 .. dst.h
          /\ n % src.h = 0 => size.h >= n \div src.h
      BY <2>1, <3>2, RoundedSide DEF n
    <3> QED
      BY <3>1, <3>3 DEF n
  <2>3. /\ size.w \in 1 .. dst.w
        /\ Distance(size.w * src.h, src.w * dst.h) <= src.h \/ size.w = 1
    BY <1>2, <2>1, RoundedSide
  <2>4. size \in [w : 1 .. dst.w, h : 1 .. dst.h]
    BY <2>1, <2>2, <2>3
  <2> QED
    BY <1>2, <2>2, <2>3, <2>4, AtTheCentre DEF KeepsShape
<1> QED
  BY <1>1, <1>2

(* The picture in the window: nothing limits it there, and nothing needs   *)
(* to, for the fraction is cut off.                                        *)
THEOREM WindowHoldsPicture ==
  ASSUME NEW src \in Sizes, NEW dst \in Sizes,
         NEW size \in WindowFitted(src, dst)
  PROVE  /\ Inside(size, Corner(size, dst), dst)
         /\ Centred(size, Corner(size, dst), dst)
         /\ KeepsShape(size, src, dst, 2)
<1> USE Products
<1>1. CASE dst.w * src.h <= dst.h * src.w
  <2>1. /\ size.w \in {AtLeastOne(n) : n \in Truncated(src.w * dst.w, src.w)}
        /\ size.h \in {AtLeastOne(n) : n \in Truncated(src.h * dst.w, src.w)}
        /\ size = [w |-> size.w, h |-> size.h]
    BY <1>1 DEF WindowFitted, Scale
  <2>2. size.w \in 1 .. dst.w /\ size.w >= dst.w - 1
    <3>1. /\ (src.w * dst.w) \div src.w = dst.w
          /\ (src.w * dst.w) % src.w = 0
      BY Exact
    <3> DEFINE n == src.w * dst.w
    <3>2. n \in Nat /\ n <= dst.w * src.w
      OBVIOUS
    <3> HIDE DEF n
    <3>3. /\ size.w \in 1 .. dst.w
          /\ n % src.w = 0 => size.w >= n \div src.w - 1
      BY <2>1, <3>2, TruncatedSide DEF n
    <3> QED
      BY <3>1, <3>3 DEF n
  <2>3. /\ size.h \in 1 .. dst.h
        /\ Distance(size.h * src.w, src.h * dst.w) <= 2 * src.w \/ size.h = 1
    BY <1>1, <2>1, TruncatedSide
  <2>4. size \in [w : 1 .. dst.w, h : 1 .. dst.h]
    BY <2>1, <2>2, <2>3
  <2> QED
    BY <1>1, <2>2, <2>3, <2>4, AtTheCentre DEF KeepsShape
<1>2. CASE ~(dst.w * src.h <= dst.h * src.w)
  <2>1. /\ size.w \in {AtLeastOne(n) : n \in Truncated(src.w * dst.h, src.h)}
        /\ size.h \in {AtLeastOne(n) : n \in Truncated(src.h * dst.h, src.h)}
        /\ size = [w |-> size.w, h |-> size.h]
    BY <1>2 DEF WindowFitted, Scale
  <2>2. size.h \in 1 .. dst.h /\ size.h >= dst.h - 1
    <3>1. /\ (src.h * dst.h) \div src.h = dst.h
          /\ (src.h * dst.h) % src.h = 0
      BY Exact
    <3> DEFINE n == src.h * dst.h
    <3>2. n \in Nat /\ n <= dst.h * src.h
      OBVIOUS
    <3> HIDE DEF n
    <3>3. /\ size.h \in 1 .. dst.h
          /\ n % src.h = 0 => size.h >= n \div src.h - 1
      BY <2>1, <3>2, TruncatedSide DEF n
    <3> QED
      BY <3>1, <3>3 DEF n
  <2>3. /\ size.w \in 1 .. dst.w
        /\ Distance(size.w * src.h, src.w * dst.h) <= 2 * src.h \/ size.w = 1
    <3>1. src.w * dst.h <= dst.w * src.h
      BY <1>2
    <3> QED
      BY <2>1, <3>1, TruncatedSide
  <2>4. size \in [w : 1 .. dst.w, h : 1 .. dst.h]
    BY <2>1, <2>2, <2>3
  <2> QED
    BY <1>2, <2>2, <2>3, <2>4, AtTheCentre DEF KeepsShape
<1> QED
  BY <1>1, <1>2

-----------------------------------------------------------------------------

(* A picture is of the size its session announced, and there is none, nor  *)
(* a frame being shown, without a preview.                                 *)
PreviewInv ==
    /\ IF preview = "none"
       THEN fed = NoPicture /\ shown = NoPicture /\ used = NoSettings
       ELSE expected \in Coded
    /\ PicturesFit

-----------------------------------------------------------------------------
LEMMA TurnedIsSize ==
  ASSUME NEW size \in Sizes, NEW rotation
  PROVE  Turned(size, rotation) \in Sizes
  BY DEF Turned, Sizes

(* The picture a session may make of its announced size.                   *)
LEMMA FedFits ==
  ASSUME expected \in Coded, NEW rotation,
         NEW size \in Fitted(Turned(expected, rotation), Canvas)
  PROVE  Fits(Picture(rotation, size, Canvas), 1)
<1>1. Turned(expected, rotation) \in Sizes /\ Canvas \in Sizes
  BY TurnedIsSize, PreviewAssumption
<1> QED
  BY <1>1, CanvasHoldsPicture DEF Fits, Picture

(* A picture at its own size, as OpenCV shows it.                          *)
LEMMA WholeFits ==
  ASSUME NEW size \in Sizes
  PROVE  /\ Inside(size, Corner(size, size), size)
         /\ Centred(size, Corner(size, size), size)
         /\ KeepsShape(size, size, size, 2)
<1>1. /\ size.w \in Nat \ {0} /\ size.h \in Nat \ {0}
      /\ size.w * size.h = size.h * size.w /\ size.w * size.h \in Nat
  BY Products
<1>2. size = [w |-> size.w, h |-> size.h]
  BY DEF Sizes
<1>3. size \in [w : 1 .. size.w, h : 1 .. size.h]
  BY <1>1, <1>2
<1>4. KeepsShape(size, size, size, 2)
  BY <1>1 DEF KeepsShape, Distance
<1> QED
  BY <1>3, <1>4, AtTheCentre

LEMMA ShownFits ==
  ASSUME expected \in Coded, NEW rotation,
         NEW p \in Drawn(rotation)
  PROVE  Fits(p, 2)
<1> DEFINE size == Turned(expected, rotation)
<1>1. size \in Sizes
  BY TurnedIsSize, PreviewAssumption
<1> HIDE DEF size
<1>2. CASE preview = "pygame"
  <2>1. PICK screen \in Screens :
            p \in {Picture(rotation, s, screen) : s \in WindowFitted(size, screen)}
    BY <1>2 DEF Drawn, size
  <2>2. PICK s \in WindowFitted(size, screen) : p = Picture(rotation, s, screen)
    BY <2>1
  <2>3. screen \in Sizes
    BY PreviewAssumption
  <2> QED
    BY <1>1, <2>2, <2>3, WindowHoldsPicture DEF Fits, Picture, size
<1>3. CASE preview # "pygame"
  <2>1. p = Picture(rotation, size, size)
    BY <1>3 DEF Drawn, size
  <2> QED
    BY <1>1, <2>1, WholeFits DEF Fits, Picture, size
<1> QED
  BY <1>2, <1>3

-----------------------------------------------------------------------------
LEMMA InitPreviewInv == PreviewInit => PreviewInv
  BY DEF PreviewInit, PreviewInv, PicturesFit

LEMMA PreviewStep ==
  ASSUME PreviewInv, [PreviewNext]_previewVars
  PROVE  PreviewInv'
<1> USE DEF PreviewInv, PicturesFit
<1>1. CASE Panel
  BY <1>1 DEF Panel, Change, ResetImage, windowVars, Fits
<1>2. CASE CloseWindow
  BY <1>2 DEF CloseWindow, Idle, Fits
<1>3. CASE Open
  BY <1>3, PreviewAssumption DEF Open
<1>4. CASE OpenFails
  BY <1>4 DEF OpenFails, windowVars
<1>5. CASE Prepare
  <2>1. expected \in Coded /\ UNCHANGED <<preview, expected>> /\ preview # "none"
    BY <1>5 DEF Prepare, Idle, windowVars
  <2>2. shown' = NoPicture
    BY <1>5 DEF Prepare
  <2>3. PICK size \in Fitted(Turned(expected, filters.rotation), Canvas) :
            fed' = Picture(filters.rotation, size, Canvas)
    BY <1>5 DEF Prepare
  <2>4. Fits(Picture(filters.rotation, size, Canvas), 1)
    BY <2>1, FedFits
  <2>5. Fits(fed, 1)'
    BY <2>1, <2>3, <2>4 DEF Fits
  <2> QED
    BY <2>1, <2>2, <2>5
<1>6. CASE Show
  <2>1. /\ expected \in Coded /\ UNCHANGED <<preview, expected, fed>>
        /\ preview # "none"
    BY <1>6 DEF Show, Busy
  <2>2. shown' \in Drawn(used.rotation)
    BY <1>6 DEF Show
  <2>3. Fits(shown', 2)
    BY <2>1, <2>2, ShownFits
  <2>4. Fits(shown, 2)' /\ (fed' # NoPicture => Fits(fed, 1)')
    BY <2>1, <2>3 DEF Fits
  <2> QED
    BY <2>1, <2>4
<1>7. CASE Close \/ CloseFails
  <2>1. CASE Closed
    BY <2>1 DEF Closed
  <2>2. CASE used' = NoSettings /\ UNCHANGED <<windowVars, fed, shown>>
    BY <2>2 DEF windowVars, Fits
  <2> QED
    BY <1>7, <2>1, <2>2 DEF Close, CloseFails
<1>8. CASE UNCHANGED previewVars
  BY <1>8 DEF previewVars, Fits
<1> QED
  BY <1>1, <1>2, <1>3, <1>4, <1>5, <1>6, <1>7, <1>8 DEF PreviewNext

(* The pictures of the virtual camera and of the window fit, in every      *)
(* session and for every frame of it.                                      *)
THEOREM PicturesAlwaysFit == PreviewSpec => []PicturesFit
<1>1. PreviewInv /\ [PreviewNext]_previewVars => PreviewInv'
  BY PreviewStep
<1>2. PreviewInv => PicturesFit
  BY DEF PreviewInv
<1> QED
  BY InitPreviewInv, <1>1, <1>2, PTL DEF PreviewSpec

-----------------------------------------------------------------------------
LEMMA PictureHasRotation ==
  /\ \A rotation, size, target : Picture(rotation, size, target).rotation = rotation
  /\ \A rotation : \A p \in Drawn(rotation) : p.rotation = rotation
  BY DEF Drawn, Picture

LEMMA TypeStep ==
  ASSUME PreviewTypeOK, [PreviewNext]_previewVars
  PROVE  PreviewTypeOK'
<1> USE DEF PreviewTypeOK
<1>1. CASE Panel
  <2>1. UNCHANGED <<windowVars, sink, used, fed, shown>>
    BY <1>1 DEF Panel, Change, ResetImage
  <2>2. filters' \in Settings
    BY <1>1, PreviewAssumption DEF Panel, Change, ResetImage, Settings
  <2> QED
    BY <2>1, <2>2 DEF windowVars
<1>2. CASE CloseWindow
  BY <1>2 DEF CloseWindow
<1>3. CASE Open
  BY <1>3 DEF Open
<1>4. CASE OpenFails
  BY <1>4 DEF OpenFails, windowVars
<1>5. CASE Prepare
  <2>1. fed'.rotation = filters.rotation /\ shown' = NoPicture /\ used' = filters
    BY <1>5, PictureHasRotation DEF Prepare
  <2>2. filters.rotation \in Rotations /\ shown'.rotation = -1
    BY <2>1 DEF Settings, NoPicture
  <2> QED
    BY <1>5, <2>1, <2>2 DEF Prepare, windowVars
<1>6. CASE Show
  <2>1. used \in Settings /\ shown'.rotation = used.rotation
    BY <1>6, PictureHasRotation DEF Show, Busy
  <2>2. used.rotation \in Rotations /\ used.fullscreen \in BOOLEAN
    BY <2>1 DEF Settings
  <2>3. flag' \in BOOLEAN /\ full' \in BOOLEAN /\ disturbed' \in BOOLEAN
    BY <1>6, <2>2 DEF Show, ApplyFullscreen
  <2> QED
    BY <1>6, <2>1, <2>2, <2>3 DEF Show
<1>7. CASE Close \/ CloseFails
  <2>1. NoPicture.rotation = -1
    BY DEF NoPicture
  <2>2. sink' \in BOOLEAN /\ filters' \in Settings
    BY <1>7 DEF Close, CloseFails
  <2>3. CASE Closed
    BY <2>1, <2>2, <2>3 DEF Closed
  <2>4. CASE used' = NoSettings /\ UNCHANGED <<windowVars, fed, shown>>
    BY <2>2, <2>4 DEF windowVars
  <2> QED
    BY <1>7, <2>3, <2>4 DEF Close, CloseFails
<1>8. CASE UNCHANGED previewVars
  BY <1>8 DEF previewVars
<1> QED
  BY <1>1, <1>2, <1>3, <1>4, <1>5, <1>6, <1>7, <1>8 DEF PreviewNext

(* The variables of the outputs have their types.                          *)
THEOREM PreviewTypes == PreviewSpec => []PreviewTypeOK
<1>1. PreviewInit => PreviewTypeOK
  <2>1. /\ NoPicture.rotation = -1
        /\ [rotation |-> 90, fullscreen |-> FALSE] \in Settings
    BY PreviewAssumption DEF NoPicture, Settings
  <2> QED
    BY <2>1 DEF PreviewInit, PreviewTypeOK
<1>2. PreviewTypeOK /\ [PreviewNext]_previewVars => PreviewTypeOK'
  BY TypeStep
<1> QED
  BY <1>1, <1>2, PTL DEF PreviewSpec

-----------------------------------------------------------------------------
(* The camera has been fed with the snapshot the window will be drawn with,*)
(* and the flag tells the truth about a window that nobody disturbed.      *)
SnapshotInv ==
    /\ used # NoSettings => used \in Settings /\ fed.rotation = used.rotation
    /\ preview = "none" => used = NoSettings /\ ~full /\ ~flag
WindowInv ==
    /\ filters \in Settings
    /\ flag \in BOOLEAN /\ full \in BOOLEAN /\ disturbed \in BOOLEAN
    /\ disturbed \/ full = flag

LEMMA InitSnapshotInv == PreviewInit => SnapshotInv /\ WindowInv
<1>1. [rotation |-> 90, fullscreen |-> FALSE] \in Settings
  BY PreviewAssumption DEF Settings
<1> QED
  BY <1>1, Zenon DEF PreviewInit, SnapshotInv, WindowInv

LEMMA SettingsChange ==
  ASSUME filters \in Settings, Panel
  PROVE  filters' \in Settings
  BY PreviewAssumption DEF Panel, Change, ResetImage, Settings

(* The fullscreen step of a frame.                                         *)
LEMMA FullscreenStep ==
  ASSUME WindowInv, used \in Settings, ApplyFullscreen
  PROVE  /\ flag' \in BOOLEAN /\ full' \in BOOLEAN /\ disturbed' \in BOOLEAN
         /\ flag' = used.fullscreen
         /\ disturbed' \/ full' = flag'
<1>1. used.fullscreen \in BOOLEAN
  BY DEF Settings
<1>2. CASE used.fullscreen = flag
  BY <1>1, <1>2 DEF ApplyFullscreen, WindowInv
<1>3. CASE used.fullscreen # flag
  <2>1. CASE preview = "pygame" /\ UNCHANGED full /\ disturbed' = TRUE
    BY <1>1, <2>1 DEF ApplyFullscreen, WindowInv
  <2>2. CASE /\ full' = IF preview = "pygame" THEN ~full ELSE used.fullscreen
             /\ UNCHANGED disturbed
    <3>1. flag' = used.fullscreen
      BY DEF ApplyFullscreen
    <3>2. full \in BOOLEAN /\ (disturbed \/ full # used.fullscreen)
      BY <1>3, Zenon DEF WindowInv
    <3>3. full' \in BOOLEAN
      BY <1>1, <2>2 DEF WindowInv
    <3>4. disturbed' \/ full' = used.fullscreen
      <4>1. (full # used.fullscreen) => ((~full) = used.fullscreen)
        BY <1>1, <3>2
      <4> QED
        BY <2>2, <3>2, <4>1, Zenon
    <3> QED
      BY <1>1, <2>2, <3>1, <3>3, <3>4, Zenon DEF WindowInv
  <2> QED
    BY <1>3, <2>1, <2>2 DEF ApplyFullscreen
<1> QED
  BY <1>2, <1>3

LEMMA SnapshotStep ==
  ASSUME SnapshotInv, WindowInv,
         [PreviewNext]_previewVars
  PROVE  SnapshotInv' /\ WindowInv'
<1> USE DEF SnapshotInv, WindowInv
<1>1. CASE Panel
  <2>1. UNCHANGED <<windowVars, sink, used, fed, shown>>
    BY <1>1 DEF Panel, Change, ResetImage
  <2> QED
    BY <1>1, <2>1, SettingsChange DEF windowVars
<1>2. CASE CloseWindow
  BY <1>2 DEF CloseWindow, Idle
<1>3. CASE Open
  BY <1>3, PreviewAssumption DEF Open
<1>4. CASE OpenFails
  BY <1>4 DEF OpenFails, windowVars
<1>5. CASE Prepare
  BY <1>5 DEF Prepare, Idle, windowVars, Picture
<1>6. CASE Show
  <2>1. used \in Settings /\ ApplyFullscreen /\ preview # "none"
    BY <1>6 DEF Show, Busy
  <2>2. UNCHANGED <<filters, preview>> /\ used' = NoSettings
    BY <1>6 DEF Show
  <2> QED
    BY <2>1, <2>2, FullscreenStep
<1>7. CASE Close \/ CloseFails
  <2>1. UNCHANGED filters
    BY <1>7 DEF Close, CloseFails
  <2>2. CASE Closed
    BY <2>1, <2>2 DEF Closed
  <2>3. CASE used' = NoSettings /\ UNCHANGED <<windowVars, fed, shown>>
    BY <2>1, <2>3 DEF windowVars
  <2> QED
    BY <1>7, <2>2, <2>3 DEF Close, CloseFails
<1>8. CASE UNCHANGED previewVars
  BY <1>8 DEF previewVars
<1> QED
  BY <1>1, <1>2, <1>3, <1>4, <1>5, <1>6, <1>7, <1>8 DEF PreviewNext

(* What a frame looks like, in the camera and in the window, is decided by *)
(* one snapshot of the settings, whatever the panel changes meanwhile.     *)
THEOREM FrameHasOneSnapshot == PreviewSpec => SameSettings
<1>1. SnapshotInv /\ WindowInv /\ [PreviewNext]_previewVars => SnapshotInv' /\ WindowInv'
  BY SnapshotStep
<1>2. SnapshotInv => (Show => shown'.rotation = fed.rotation)
  <2> SUFFICES ASSUME SnapshotInv, Show
               PROVE  shown'.rotation = fed.rotation
    OBVIOUS
  <2>1. fed.rotation = used.rotation /\ shown' \in Drawn(used.rotation)
    BY DEF Show, Busy, SnapshotInv
  <2>2. \A rotation : \A p \in Drawn(rotation) : p.rotation = rotation
    BY DEF Drawn, Picture
  <2> QED
    BY <2>1, <2>2
<1> QED
  BY InitSnapshotInv, <1>1, <1>2, PTL DEF PreviewSpec, SameSettings

(* The window is fullscreen when the settings of the frame ask for it, and *)
(* only then, unless somebody else touched it.                             *)
THEOREM WindowAsAsked == PreviewSpec => WindowFollowsPanel
<1>1. SnapshotInv /\ WindowInv /\ [PreviewNext]_previewVars => SnapshotInv' /\ WindowInv'
  BY SnapshotStep
<1>2. SnapshotInv /\ WindowInv => (Show => full' = used.fullscreen \/ disturbed')
  <2> SUFFICES ASSUME SnapshotInv, WindowInv, Show
               PROVE  full' = used.fullscreen \/ disturbed'
    OBVIOUS
  <2>1. used \in Settings /\ ApplyFullscreen
    BY DEF Show, Busy, SnapshotInv
  <2> QED
    BY <2>1, FullscreenStep
<1> QED
  BY InitSnapshotInv, <1>1, <1>2, PTL DEF PreviewSpec, WindowFollowsPanel

-----------------------------------------------------------------------------
(* The application.                                                        *)

(* What the loop looks at changes by the steps of the loop.                *)
LEMMA StepOfLoop ==
  ASSUME [AppNext]_appVars
  PROVE  [Next]_vars
<1>1. CASE Attempt
  BY <1>1 DEF Attempt, Next, Loop
<1>2. CASE Setup \/ Frame \/ Poll
  BY <1>2 DEF Setup, Frame, Poll
<1>3. CASE SetupFails
  BY <1>3 DEF SetupFails, Next, EndsItself, Outcomes
<1>4. CASE Over
  BY <1>4 DEF Over, Next, Loop
<1>5. CASE (Panel \/ CloseWindow) /\ UNCHANGED <<vars, panel>>
  BY <1>5
<1>6. CASE (Phone \/ RequestStop) /\ Outside
  BY <1>6 DEF Next
<1>7. CASE UNCHANGED appVars
  BY <1>7 DEF appVars
<1> QED
  BY <1>1, <1>2, <1>3, <1>4, <1>5, <1>6, <1>7 DEF AppNext

(* What the outputs look at changes by the steps of Preview.               *)
LEMMA StepOfPreview ==
  ASSUME [AppNext]_appVars
  PROVE  [PreviewNext]_previewVars
<1> USE DEF previewVars
<1>1. CASE Attempt \/ Poll
  BY <1>1 DEF Attempt, Poll, Outside
<1>2. CASE Setup \/ SetupFails \/ Frame \/ Over
  BY <1>2 DEF Setup, SetupFails, Frame, Over, PreviewNext
<1>3. CASE (Panel \/ CloseWindow) /\ UNCHANGED <<vars, panel>>
  BY <1>3 DEF PreviewNext
<1>4. CASE (Phone \/ RequestStop) /\ Outside
  BY <1>4 DEF Outside
<1>5. CASE UNCHANGED appVars
  BY <1>5 DEF appVars
<1> QED
  BY <1>1, <1>2, <1>3, <1>4, <1>5 DEF AppNext

(* The application implements Preview: what is proved of the outputs holds *)
(* in the application.                                                     *)
THEOREM AppDrivesPreview == AppSpec => PreviewSpec
<1>1. AppInit => PreviewInit
  BY DEF AppInit
<1>2. [AppNext]_appVars => [PreviewNext]_previewVars
  BY StepOfPreview
<1> QED
  BY <1>1, <1>2, PTL DEF AppSpec, PreviewSpec

-----------------------------------------------------------------------------
LoopInv == SocketIsOwned /\ StatusIsTrue

LEMMA InitLoopInv == Init => LoopInv
  BY DEF Init, LoopInv, SocketIsOwned, StatusIsTrue

(* An attempt ends in a status that is not that of a stream, or is about to*)
(* end the thread.                                                         *)
LEMMA AttemptStep ==
  ASSUME LoopInv, pc # "dead",
         NEW how \in NoSession \cup Outcomes, AttemptEnds(how)
  PROVE  LoopInv'
<1>1. /\ pc' = "closing" /\ ended' = how
      /\ UNCHANGED <<socket, hasMetadata>>
  BY DEF AttemptEnds
<1>2. SocketIsOwned'
  BY <1>1 DEF SocketIsOwned
<1>3. status' = "connected" => how = "raise" /\ hasMetadata
  BY DEF LoopInv, AttemptEnds, StatusAfter, StatusIsTrue
<1>4. StatusIsTrue'
  BY <1>1, <1>3 DEF StatusIsTrue, Failing
<1> QED
  BY <1>2, <1>4 DEF LoopInv

LEMMA LoopStep ==
  ASSUME LoopInv, [Next]_vars
  PROVE  LoopInv'
<1> USE DEF LoopInv, SocketIsOwned, StatusIsTrue, Failing
<1>1. CASE Search
  BY <1>1 DEF Search
<1>2. CASE ListDevices
  <2>1. CASE pc = "listing" /\ \E how \in NoSession : AttemptEnds(how)
    BY <2>1, AttemptStep
  <2> QED
    BY <1>2, <2>1 DEF ListDevices, NoSession
<1>3. CASE Connect
  <2>1. CASE pc = "connecting" /\ AttemptEnds("unreachable")
    BY <2>1, AttemptStep DEF NoSession
  <2> QED
    BY <1>3, <2>1 DEF Connect
<1>4. CASE Hello
  BY <1>4 DEF Hello
<1>5. CASE LosesConnection \/ EndsItself
  <2>1. pc # "dead" /\ \E how \in Outcomes : AttemptEnds(how)
    BY <1>5 DEF LosesConnection, EndsItself, Outcomes
  <2> QED
    BY <2>1, AttemptStep
<1>6. CASE CloseSocket \/ Dies \/ Wakes
  BY <1>6 DEF CloseSocket, Resumed, Fatal, Dies, Wakes
<1>7. CASE Phone \/ RequestStop
  BY <1>7 DEF Phone, RequestStop, loopVars
<1>8. CASE UNCHANGED vars
  BY <1>8 DEF vars, loopVars
<1> QED
  BY <1>1, <1>2, <1>3, <1>4, <1>5, <1>6, <1>7, <1>8 DEF Next, Loop

(* However attempts end, and whenever, their sockets end with them.        *)
THEOREM SocketAlwaysOwned == AppSpec => []SocketIsOwned
<1>1. AppInit => LoopInv
  BY InitLoopInv DEF AppInit
<1>2. LoopInv /\ [AppNext]_appVars => LoopInv'
  BY StepOfLoop, LoopStep
<1>3. LoopInv => SocketIsOwned
  BY DEF LoopInv
<1> QED
  BY <1>1, <1>2, <1>3, PTL DEF AppSpec

(* The published status is that of the thread.                             *)
THEOREM StatusAlwaysTrue == AppSpec => []StatusIsTrue
<1>1. AppInit => LoopInv
  BY InitLoopInv DEF AppInit
<1>2. LoopInv /\ [AppNext]_appVars => LoopInv'
  BY StepOfLoop, LoopStep
<1>3. LoopInv => StatusIsTrue
  BY DEF LoopInv
<1> QED
  BY <1>1, <1>2, <1>3, PTL DEF AppSpec

-----------------------------------------------------------------------------
LEMMA OutputsStep ==
  ASSUME OutputsAreOwned, [AppNext]_appVars
  PROVE  OutputsAreOwned'
<1> USE DEF OutputsAreOwned
<1>1. CASE Attempt
  <2>1. UNCHANGED <<preview, sink>>
    BY <1>1 DEF Attempt, Outside, previewVars
  <2>2. pc # "streaming"
    BY <1>1 DEF Attempt, Search, ListDevices, Connect, Hello, CloseSocket,
                Dies, Wakes
  <2>3. Failing => Failing'
    <3>1. CASE CloseSocket \/ Dies
      BY <3>1 DEF CloseSocket, Dies, Fatal, Failing
    <3>2. CASE ~(CloseSocket \/ Dies)
      BY <1>1, <3>2 DEF Attempt, Search, ListDevices, Connect, Hello, Wakes,
                        Failing
    <3> QED
      BY <3>1, <3>2
  <2> QED
    BY <2>1, <2>2, <2>3
<1>2. CASE Setup
  BY <1>2, PreviewAssumption DEF Setup, Open, vars, loopVars
<1>3. CASE SetupFails
  BY <1>3 DEF SetupFails, OpenFails, windowVars, AttemptEnds, Failing
<1>4. CASE Frame
  <2>1. UNCHANGED <<preview, sink, pc>>
    BY <1>4 DEF Frame, Prepare, Show, windowVars, vars, loopVars
  <2> QED
    BY <1>4, <2>1 DEF Frame, Failing
<1>5. CASE Over
  <2>1. CASE Close
    BY <2>1 DEF Close, Closed
  <2>2. CASE ended' = "raise" /\ CloseFails
    <3>1. \E how \in Outcomes : AttemptEnds(how)
      BY <1>5 DEF Over, LosesConnection, EndsItself, Outcomes
    <3>2. Failing'
      BY <2>2, <3>1 DEF AttemptEnds, Failing
    <3>3. sink' => preview' # "none" \/ Failing'
      BY <3>2
    <3>4. preview' # "none" => sink'
      <4>1. sink
        BY <2>2 DEF CloseFails
      <4>2. Closed => preview' = "none"
        BY DEF Closed
      <4> QED
        BY <2>2, <4>1, <4>2 DEF CloseFails
    <3> QED
      BY <3>2, <3>3, <3>4
  <2> QED
    BY <1>5, <2>1, <2>2 DEF Over
<1>6. CASE Poll
  BY <1>6 DEF Poll, vars, loopVars, previewVars, Failing
<1>7. CASE (Panel \/ CloseWindow) /\ UNCHANGED <<vars, panel>>
  BY <1>7 DEF Panel, Change, ResetImage, CloseWindow, windowVars,
              vars, loopVars, Failing
<1>8. CASE (Phone \/ RequestStop) /\ Outside
  BY <1>8 DEF Phone, RequestStop, Outside, previewVars, loopVars, Failing
<1>9. CASE UNCHANGED appVars
  BY <1>9 DEF appVars, vars, loopVars, previewVars, Failing
<1> QED
  BY <1>1, <1>2, <1>3, <1>4, <1>5, <1>6, <1>7, <1>8, <1>9 DEF AppNext

(* No session inherits an output, whatever steps of the setup or of the    *)
(* teardown fail.                                                          *)
THEOREM OutputsAlwaysOwned == AppSpec => []OutputsAreOwned
<1>1. AppInit => OutputsAreOwned
  BY DEF AppInit, PreviewInit, OutputsAreOwned
<1>2. OutputsAreOwned /\ [AppNext]_appVars => OutputsAreOwned'
  BY OutputsStep
<1> QED
  BY <1>1, <1>2, PTL DEF AppSpec

-----------------------------------------------------------------------------
LEMMA LoopTypeStep ==
  ASSUME TypeOK, [Next]_vars
  PROVE  TypeOK'
<1> USE DEF TypeOK, NoSession, Outcomes
<1>1. CASE \E how \in NoSession \cup Outcomes : AttemptEnds(how)
  BY <1>1 DEF AttemptEnds, StatusAfter, Fatal, phoneVars
<1>2. CASE Search \/ Hello \/ Wakes \/ CloseSocket \/ Dies
  BY <1>2 DEF Search, Hello, Wakes, CloseSocket, Resumed, Dies, phoneVars
<1>3. CASE ListDevices
  BY <1>1, <1>3 DEF ListDevices, phoneVars
<1>4. CASE Connect
  BY <1>1, <1>4 DEF Connect, phoneVars
<1>5. CASE LosesConnection \/ EndsItself
  BY <1>1, <1>5 DEF LosesConnection, EndsItself
<1>6. CASE Phone
  <2>1. cut' \in BOOLEAN /\ UNCHANGED loopVars
    BY <1>6, Zenon DEF Phone
  <2>2. /\ service' \in BOOLEAN /\ plugged' \in BOOLEAN
        /\ app' \in {"off", "serving", "suspended"}
    BY <1>6 DEF Phone
  <2> QED
    BY <2>1, <2>2 DEF loopVars
<1>7. CASE RequestStop
  BY <1>7 DEF RequestStop, phoneVars
<1>8. CASE UNCHANGED vars
  BY <1>8 DEF vars, loopVars, phoneVars
<1> QED
  BY <1>2, <1>3, <1>4, <1>5, <1>6, <1>7, <1>8 DEF Next, Loop

(* The types of the loop's variables and of the panel's.                   *)
THEOREM AppTypes == AppSpec => []AppTypeOK
<1> DEFINE PanelOK == panel \in {"muted", "accent", "danger"}
<1>1. AppInit => TypeOK /\ PanelOK
  BY DEF AppInit, Init, TypeOK
<1>2. TypeOK /\ [AppNext]_appVars => TypeOK'
  BY StepOfLoop, LoopTypeStep
<1>3. PanelOK /\ [AppNext]_appVars => PanelOK'
  BY DEF AppNext, Attempt, Setup, SetupFails, Frame, Over, Poll, Dot, Outside, appVars
<1>4. TypeOK /\ PanelOK => AppTypeOK
  BY DEF AppTypeOK
<1> QED
  BY <1>1, <1>2, <1>3, <1>4, PTL DEF AppSpec
=============================================================================
