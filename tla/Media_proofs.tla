----------------------------- MODULE Media_proofs -----------------------------
(***************************************************************************)
(* That the frames handed to the encoder fit the limits and keep their     *)
(* shape, that they keep their distance, and that what the encoder writes  *)
(* stays within its buffer: for all sizes of frames, limits of the service *)
(* and NAL units.                                                          *)
(***************************************************************************)
EXTENDS Media, AudioDevice_proofs, DataLemmas

-----------------------------------------------------------------------------
(* Sizes. *)

Sized == [width : Nat \ {0}, height : Nat \ {0}]

(* How far a size is from the shape of a frame of w by h: the difference of the
   products that are equal where the shapes are. *)
Skew(s, w, h) == s.width * h - s.height * w

LimitsType == [fps : Nat, width : Nat, height : Nat]

(* What Policy and the encoder info allow is never less than the defaults' height
   and frame rate, nor narrower than the aspect ratio permits. *)
LEMMA LimitsBounds ==
    ASSUME NEW i \in EncoderInfos \cup {None}
    PROVE  /\ Limits(i) \in LimitsType
           /\ Limits(i).fps >= maxFps /\ Limits(i).height >= maxFrameHeight
           /\ Limits(i).width > 0
           /\ (i = None \/ i.targetBitrate <= maxBitsPerSecond) => Limits(i) = defaultLimits
<1>1. defaultLimits = [fps |-> 30, width |-> 1280, height |-> 720]
  BY DEF defaultLimits, maxFps, maxFrameWidth, maxFrameHeight
<1>2. CASE i = None \/ i.targetBitrate <= maxBitsPerSecond
  BY <1>1, <1>2 DEF Limits, LimitsType, maxFps, maxFrameWidth, maxFrameHeight
<1>3. CASE ~(i = None \/ i.targetBitrate <= maxBitsPerSecond)
  <2>1. /\ i \in [targetBitrate : Int, framerate : Int, width : Int, height : Int]
        /\ i.width \in Int /\ i.height \in Int /\ i.framerate \in Int
    BY <1>3, VideoAssumption
  <2>2. checkAspectRatio(i) = "Success" => i.height <= 3 * i.width
    BY <2>1 DEF checkAspectRatio, isRatioGreater, isRatioLess
  <2> DEFINE larger == i.height > 720 /\ checkAspectRatio(i) = "Success"
  <2>3. Limits(i) = [fps |-> IF i.framerate > 30 THEN i.framerate ELSE 30,
                     width |-> IF larger THEN i.width ELSE 1280,
                     height |-> IF larger THEN i.height ELSE 720]
    BY <1>3 DEF Limits, maxFps, maxFrameWidth, maxFrameHeight
  <2>4. larger => i.width \in Nat /\ i.width > 0 /\ i.height \in Nat /\ i.height >= 720
    BY <2>1, <2>2
  <2> HIDE DEF larger
  <2> QED
    BY <1>3, <2>1, <2>3, <2>4 DEF LimitsType, maxFps, maxFrameWidth, maxFrameHeight
<1> QED
  BY <1>2, <1>3

(* Rounding up to an even number adds one or nothing. *)
LEMMA EvenBounds ==
    ASSUME NEW n \in Nat
    PROVE  /\ RoundUpToEven(n) \in {n, n + 1} /\ RoundUpToEven(n) % 2 = 0
           /\ RoundUpToEven(n) \in Nat
BY DEF RoundUpToEven

LEMMA EvenMonotone ==
    ASSUME NEW m \in Nat, NEW n \in Nat, m <= n
    PROVE  RoundUpToEven(m) <= RoundUpToEven(n)
BY DEF RoundUpToEven

(* What the three steps of the scaling of a frame of w by h make of it, in the order
   they are taken, so that the proofs need not work through the code again: a size
   raised to the minimum, s; then one t whose height is capped; then one whose width
   is. *)
AtLeastMin(s, w, h) ==
    /\ s \in Sized
    /\ s.width >= minFrameDimension /\ s.height >= minFrameDimension
    /\ -h < Skew(s, w, h) /\ Skew(s, w, h) < w
    /\ s.height > minFrameDimension => 0 <= Skew(s, w, h)
    /\ \/ s = Size(w, h)
       \/ w >= h /\ h < minFrameDimension /\ s.height = minFrameDimension /\ Skew(s, w, h) <= 0
       \/ w < h /\ w < minFrameDimension /\ s.width = minFrameDimension /\ s.height > h

HeightAtMost(t, s, w, h) ==
    /\ t \in [width : Nat, height : Nat \ {0}]
    /\ t.height <= limits.height
    /\ -h < Skew(t, w, h) /\ Skew(t, w, h) < w
    /\ \/ t = s
       \/ /\ s.height > limits.height /\ t.height = limits.height
          /\ t.width < minFrameDimension => w * limits.height < minFrameDimension * h

WidthAtMost(u, t, w, h) ==
    /\ u \in [width : Nat, height : Nat]
    /\ u.width <= limits.width /\ u.height <= limits.height
    /\ -h < Skew(u, w, h) /\ Skew(u, w, h) < 2 * w
    /\ 0 <= Skew(t, w, h) => 0 <= Skew(u, w, h)
    /\ u = t \/ (t.width > limits.width /\ u.width = limits.width)

(* Raising to the minimum. *)
LEMMA Raised ==
    ASSUME NEW w \in Nat \ {0}, NEW h \in Nat \ {0}, NEW s, s = RaiseToMin(Size(w, h), w, h)
    PROVE  AtLeastMin(s, w, h)
<1> USE DEF minFrameDimension, AtLeastMin
<1>1. CASE w >= h /\ h < 360
  <2> DEFINE q == (w * 360) \div h
  <2>1. s = Size(q, 360)
    BY <1>1 DEF RaiseToMin, Size
  <2>2. w * 360 \in Nat /\ q \in Nat /\ q * h <= w * 360 /\ w * 360 < q * h + h
    BY Quotient
  <2>3. q >= 360
    <3>1. h * 360 <= w * 360
      BY <1>1
    <3>2. h * 360 < h * (q + 1)
      <4> HIDE DEF q
      <4> QED
        BY <2>2, <3>1
    <3> HIDE DEF q
    <3>3. 360 < q + 1
      BY <2>2, <3>2, Cancel
    <3> QED
      BY <2>2, <3>3
  <2>4. Skew(s, w, h) = q * h - 360 * w /\ s \in Sized /\ s.width = q /\ s.height = 360
    BY <2>1, <2>2, <2>3 DEF Skew, Size, Sized
  <2> HIDE DEF q
  <2> QED
    BY <1>1, <2>2, <2>3, <2>4
<1>2. CASE h > w /\ w < 360
  <2> DEFINE q == (h * 360) \div w
  <2>1. s = Size(360, q)
    BY <1>2 DEF RaiseToMin, Size
  <2>2. h * 360 \in Nat /\ q \in Nat /\ q * w <= h * 360 /\ h * 360 < q * w + w
    BY Quotient
  <2>3. q > h
    <3>1. w * (h + 1) <= h * 360
      <4>1. w * (h + 1) <= 359 * h + w
        BY <1>2
      <4> QED
        BY <1>2, <4>1
    <3>2. w * (h + 1) < w * (q + 1)
      <4> HIDE DEF q
      <4> QED
        BY <2>2, <3>1
    <3> HIDE DEF q
    <3>3. h + 1 < q + 1
      BY <2>2, <3>2, Cancel
    <3> QED
      BY <2>2, <3>3
  <2>5. q >= 360
    <3>1. w * 360 <= h * 360
      BY <1>2
    <3>2. w * 360 < w * (q + 1)
      <4> HIDE DEF q
      <4> QED
        BY <2>2, <3>1
    <3> HIDE DEF q
    <3>3. 360 < q + 1
      BY <2>2, <3>2, Cancel
    <3> QED
      BY <2>2, <3>3
  <2>4. Skew(s, w, h) = 360 * h - q * w /\ s \in Sized /\ s.height = q /\ s.width = 360
    BY <2>1, <2>2, <2>3 DEF Skew, Size, Sized
  <2> HIDE DEF q
  <2> QED
    BY <1>2, <2>2, <2>3, <2>4, <2>5
<1>3. CASE (w >= h /\ h >= 360) \/ (h > w /\ w >= 360)
  <2>1. s = Size(w, h)
    BY <1>3 DEF RaiseToMin, Size
  <2>2. Skew(s, w, h) = 0 /\ s \in Sized /\ s.width = w /\ s.height = h
    BY <2>1 DEF Skew, Size, Sized
  <2> QED
    BY <1>3, <2>1, <2>2
<1> QED
  BY <1>1, <1>2, <1>3

(* Capping the height.  The cap comes after a raise only where the raise has left
   the frame no narrower than its shape wants. *)
LEMMA HeightCapped ==
    ASSUME limits \in LimitsType, limits.height >= maxFrameHeight,
           NEW w \in Nat \ {0}, NEW h \in Nat \ {0}, NEW s, AtLeastMin(s, w, h),
           NEW t, t = CapHeight(s)
    PROVE  HeightAtMost(t, s, w, h)
<1> DEFINE L == limits.height
           a == s.width
           b == s.height
           q == (a * L) \div b
<1>1. L \in Nat /\ L >= 720
  BY DEF LimitsType, maxFrameHeight
<1>2. /\ s \in Sized /\ a \in Nat \ {0} /\ b \in Nat \ {0} /\ a >= 360
      /\ -h < a * h - b * w /\ a * h - b * w < w
      /\ b > 360 => 0 <= a * h - b * w
  BY DEF AtLeastMin, Sized, Skew, minFrameDimension
<1> HIDE DEF a, b, L
<1>3. CASE b <= L
  <2>1. t = s
    BY <1>1, <1>2, <1>3 DEF CapHeight, a, b, L
  <2> QED
    BY <1>2, <1>3, <2>1 DEF HeightAtMost, Sized, Skew, a, b, L
<1>4. CASE b > L
  <2>1. t = Size(q, L)
    BY <1>1, <1>2, <1>4 DEF CapHeight, a, b, L
  <2>2. q \in Nat /\ q * b <= a * L /\ a * L < q * b + b
    <3>1. a * L \in Nat
      BY <1>1, <1>2
    <3> QED
      BY <1>2, <3>1, Quotient
  <2>3. t.width = q /\ t.height = L /\ t \in [width : Nat, height : Nat \ {0}]
    BY <2>1, <2>2, <1>1 DEF Size
  <2>4. 0 <= a * h - b * w /\ a * h - b * w <= w - 1
    BY <1>1, <1>2, <1>4
  <2>5. -h < q * h - L * w /\ q * h - L * w <= w - 1
    BY <1>1, <1>2, <1>4, <2>4, ScaledDown
  <2>6. ASSUME q < 360 PROVE w * L < 360 * h
    <3>1. CASE s = Size(w, h)
      <4>1. a = w /\ b = h
        BY <3>1 DEF Size, a, b
      <4>2. q * b + b <= 360 * b
        <5>1. (q + 1) * b <= 360 * b
          BY <2>2, <2>6, <1>2, Monotone
        <5> HIDE DEF q
        <5> QED
          BY <2>2, <1>2, <5>1
      <4> HIDE DEF q
      <4> QED
        BY <4>1, <4>2, <2>2, <1>1
    <3>2. CASE a = 360
      <4>1. b * w <= 360 * h
        BY <2>4, <3>2, <1>2
      <4>2. L * w < b * w
        BY <1>1, <1>2, <1>4
      <4> HIDE DEF q
      <4> QED
        BY <4>1, <4>2, <1>1, <1>2
    <3>3. b # 360
      BY <1>1, <1>2, <1>4
    <3> QED
      BY <3>1, <3>2, <3>3 DEF AtLeastMin, minFrameDimension, a, b
  <2> HIDE DEF q
  <2> QED
    BY <1>1, <1>4, <2>2, <2>3, <2>5, <2>6 DEF HeightAtMost, Skew, minFrameDimension, b, L
<1> QED
  BY <1>1, <1>2, <1>3, <1>4

(* Capping the width. *)
LEMMA WidthCap ==
    ASSUME limits \in LimitsType,
           NEW w \in Nat \ {0}, NEW h \in Nat \ {0}, NEW s, NEW t, HeightAtMost(t, s, w, h),
           NEW u, u = CapWidth(t)
    PROVE  WidthAtMost(u, t, w, h)
<1> DEFINE M == limits.width
           a == t.height
           b == t.width
           q == (a * M) \div b
<1>1. M \in Nat /\ limits.height \in Nat
  BY DEF LimitsType
<1>2. /\ t \in [width : Nat, height : Nat \ {0}] /\ a \in Nat /\ b \in Nat
      /\ a <= limits.height
      /\ -h < b * h - a * w /\ b * h - a * w < w
  BY DEF HeightAtMost, Skew
<1> HIDE DEF a, b, M
<1>3. CASE b <= M
  <2>1. u = t
    BY <1>1, <1>2, <1>3 DEF CapWidth, a, b, M
  <2> QED
    BY <1>2, <1>3, <2>1 DEF WidthAtMost, Skew, a, b, M
<1>4. CASE b > M
  <2>0. b \in Nat \ {0}
    BY <1>1, <1>2, <1>4
  <2>1. u = Size(M, q)
    BY <1>1, <1>2, <1>4 DEF CapWidth, a, b, M
  <2>2. q \in Nat /\ q * b <= a * M /\ a * M < q * b + b
    <3>1. a * M \in Nat
      BY <1>1, <1>2
    <3> QED
      BY <2>0, <3>1, Quotient
  <2>3. u.width = M /\ u.height = q /\ u \in [width : Nat, height : Nat]
    BY <2>1, <2>2, <1>1 DEF Size
  <2>4. q <= limits.height
    <3>1. q * b <= a * b
      BY <1>1, <1>2, <1>4, <2>2
    <3> HIDE DEF q
    <3>2. b * q <= b * a
      BY <1>2, <2>2, <3>1
    <3>3. q <= a
      BY <1>2, <2>0, <2>2, <3>2, Cancel
    <3> QED
      BY <1>1, <1>2, <2>2, <3>3
  <2>5. 1 - w <= a * w - b * h /\ a * w - b * h <= h - 1
    BY <1>2
  <2>6. 1 - w - w < q * w - M * h /\ q * w - M * h <= h - 1
    BY <1>1, <1>2, <1>4, <2>0, <2>5, ScaledDown
  <2>7. 0 <= b * h - a * w => q * w - M * h <= 0
    <3>1. SUFFICES ASSUME a * w - b * h <= 0 PROVE q * w - M * h <= 0
      BY <1>2
    <3> QED
      BY <1>1, <1>2, <1>4, <2>0, <2>5, <3>1, ScaledDown
  <2> HIDE DEF q
  <2>8. /\ -h < M * h - q * w /\ M * h - q * w < 2 * w
        /\ 0 <= b * h - a * w => 0 <= M * h - q * w
    BY <1>1, <2>2, <2>6, <2>7
  <2> QED
    BY <1>1, <1>4, <2>2, <2>3, <2>4, <2>8 DEF WidthAtMost, Skew, a, b, M
<1> QED
  BY <1>1, <1>2, <1>3, <1>4

(* The scaling of a frame, step by step. *)
LEMMA AdaptedInSteps ==
    ASSUME limits \in LimitsType, limits.height >= maxFrameHeight,
           NEW of \in Sized
    PROVE  \E s, t, u : /\ AtLeastMin(s, of.width, of.height)
                        /\ HeightAtMost(t, s, of.width, of.height)
                        /\ WidthAtMost(u, t, of.width, of.height)
                        /\ adapted(of) = Even(u)
<1> DEFINE s == RaiseToMin(of, of.width, of.height)
           t == CapHeight(s)
           u == CapWidth(t)
<1>1. of.width \in Nat \ {0} /\ of.height \in Nat \ {0} /\ of = Size(of.width, of.height)
  BY DEF Sized, Size
<1>2. adapted(of) = Even(u)
  BY DEF adapted
<1> HIDE DEF s, t, u
<1>3. AtLeastMin(s, of.width, of.height)
  BY <1>1, Raised DEF s
<1>4. HeightAtMost(t, s, of.width, of.height)
  BY <1>1, <1>3, HeightCapped DEF t
<1>5. WidthAtMost(u, t, of.width, of.height)
  BY <1>1, <1>4, WidthCap DEF u
<1> QED
  BY <1>2, <1>3, <1>4, <1>5

(* What may be said of the size that a frame is sent in. *)
InLimits(size, of) ==
    /\ size # of => size.width <= RoundUpToEven(limits.width) /\ size.width % 2 = 0
    /\ size = of => size.width * (size.height - 1) < (limits.width + 1) * size.height
    /\ size.height <= RoundUpToEven(limits.height) /\ size.height % 2 = 0
InShape(size, of) ==
    /\ Skew(size, of.width, of.height) < 2 * of.width + of.height
    /\ -Skew(size, of.width, of.height) < of.width + of.height
WideEnough(size, of) ==
    /\ limits.width >= 3 * minFrameDimension
    /\ of.width * limits.height >= minFrameDimension * of.height
    => size.width >= minFrameDimension

(* A frame that is scaled: rounding to even numbers moves it out of its shape by no
   more than a width and a height of the original. *)
LEMMA ScaledFits ==
    ASSUME limits \in LimitsType, limits.height >= maxFrameHeight,
           NEW of \in Sized, of.width <= 3 * of.height, adapted(of).height # of.height
    PROVE  /\ adapted(of) \in [width : Nat, height : Nat]
           /\ InLimits(adapted(of), of) /\ InShape(adapted(of), of) /\ WideEnough(adapted(of), of)
<1> DEFINE w == of.width
           h == of.height
<1>1. PICK s, t, u : /\ AtLeastMin(s, w, h) /\ HeightAtMost(t, s, w, h) /\ WidthAtMost(u, t, w, h)
                     /\ adapted(of) = Even(u)
  BY AdaptedInSteps
<1>2. w \in Nat \ {0} /\ h \in Nat \ {0} /\ w <= 3 * h
  BY DEF Sized
<1> HIDE DEF w, h
<1>3. /\ u.width \in Nat /\ u.height \in Nat
      /\ u.width <= limits.width /\ u.height <= limits.height
      /\ limits.width \in Nat /\ limits.height \in Nat
      /\ -h < u.width * h - u.height * w /\ u.width * h - u.height * w < 2 * w
  BY <1>1 DEF WidthAtMost, Skew, LimitsType
<1> DEFINE x == RoundUpToEven(u.width)
           y == RoundUpToEven(u.height)
<1>4. adapted(of) = Size(x, y) /\ x \in Nat /\ y \in Nat
  BY <1>1, <1>3, EvenBounds DEF Even
<1>5. /\ adapted(of).width = x /\ adapted(of).height = y
      /\ adapted(of) \in [width : Nat, height : Nat]
  BY <1>4 DEF Size
<1>6. /\ x \in {u.width, u.width + 1} /\ x % 2 = 0
      /\ y \in {u.height, u.height + 1} /\ y % 2 = 0
  BY <1>3, EvenBounds
<1>7. x <= RoundUpToEven(limits.width) /\ y <= RoundUpToEven(limits.height)
  BY <1>3, EvenMonotone
<1> HIDE DEF x, y
<1>8. InLimits(adapted(of), of)
  BY <1>5, <1>6, <1>7 DEF InLimits
<1>9. InShape(adapted(of), of)
  <2>1. x * h \in {u.width * h, u.width * h + h} /\ y * w \in {u.height * w, u.height * w + w}
    BY <1>2, <1>3, <1>6
  <2>2. x * h \in Int /\ y * w \in Int /\ u.width * h \in Int /\ u.height * w \in Int
    BY <1>2, <1>3, <1>4
  <2>3. x * h - y * w < 2 * w + h /\ -(x * h - y * w) < w + h
    BY <1>2, <1>3, <2>1, <2>2
  <2> QED
    BY <2>3, <1>5 DEF InShape, Skew, w, h
<1>10. WideEnough(adapted(of), of)
  <2> SUFFICES ASSUME x < 360, limits.width >= 1080
               PROVE  w * limits.height < 360 * h
    <3>1. x \in Nat /\ w * limits.height \in Nat /\ 360 * h \in Nat
      BY <1>2, <1>3, <1>4
    <3> QED
      BY <1>5, <3>1 DEF WideEnough, minFrameDimension, w, h
  <2>1. u.width < 360 /\ u = t
    BY <1>1, <1>3, <1>6 DEF WidthAtMost
  <2>2. t # s
    BY <1>1, <2>1, <1>3 DEF AtLeastMin, Sized, minFrameDimension
  <2> QED
    BY <1>1, <2>1, <2>2 DEF HeightAtMost, minFrameDimension
<1> QED
  BY <1>5, <1>8, <1>9, <1>10

(* A frame that is sent as it is: its height was even, and the caps left it alone but
   for the rounding. *)
LEMMA UnscaledFits ==
    ASSUME limits \in LimitsType, limits.height >= maxFrameHeight,
           NEW of \in Sized, of.width <= 3 * of.height, adapted(of).height = of.height
    PROVE  /\ InLimits(of, of) /\ InShape(of, of) /\ WideEnough(of, of)
           /\ limits = defaultLimits => of.width <= 1282
<1> DEFINE w == of.width
           h == of.height
<1>1. PICK s, t, u : /\ AtLeastMin(s, w, h) /\ HeightAtMost(t, s, w, h) /\ WidthAtMost(u, t, w, h)
                     /\ adapted(of) = Even(u)
  BY AdaptedInSteps
<1>2. w \in Nat \ {0} /\ h \in Nat \ {0} /\ w <= 3 * h /\ of = Size(w, h)
  BY DEF Sized, Size
<1>3. /\ u.width \in Nat /\ u.height \in Nat
      /\ u.width <= limits.width /\ u.height <= limits.height
      /\ limits.width \in Nat /\ limits.height \in Nat /\ limits.height >= 720
      /\ -h < u.width * h - u.height * w /\ u.width * h - u.height * w < 2 * w
  BY <1>1 DEF WidthAtMost, Skew, LimitsType, maxFrameHeight
<1>4. h = RoundUpToEven(u.height)
  BY <1>1 DEF Even, Size
<1>5. h \in {u.height, u.height + 1} /\ h % 2 = 0 /\ h <= RoundUpToEven(limits.height)
  BY <1>3, <1>4, EvenBounds, EvenMonotone
<1> HIDE DEF w, h
<1>6. InLimits(of, of)
  <2>1. (h - 1) * w <= u.height * w
    BY <1>2, <1>3, <1>5
  <2>2. u.width * h <= limits.width * h
    BY <1>2, <1>3
  <2>3. w * (h - 1) < (limits.width + 1) * h
    <3>1. /\ w * (h - 1) = (h - 1) * w
          /\ (limits.width + 1) * h = limits.width * h + h
      BY <1>2, <1>3
    <3>2. u.height * w < u.width * h + h
      BY <1>2, <1>3
    <3> QED
      BY <1>2, <1>3, <2>1, <2>2, <3>1, <3>2
  <2> QED
    BY <2>3, <1>5 DEF InLimits, w, h
<1>7. InShape(of, of)
  <2>1. Skew(of, w, h) = 0
    BY <1>2 DEF Skew, w, h
  <2> QED
    BY <1>2, <2>1 DEF InShape, w, h
<1>8. WideEnough(of, of) /\ (limits = defaultLimits => w <= 1282)
  <2>1. CASE s = Size(w, h)
    <3>1. s.width = w /\ s.height = h /\ w >= 360
      BY <1>1, <2>1 DEF Size, AtLeastMin, minFrameDimension
    <3>2. ASSUME limits = defaultLimits, w > 1282 PROVE FALSE
      <4>1. limits.width = 1280 /\ limits.height = 720
        BY <3>2 DEF defaultLimits, maxFrameWidth, maxFrameHeight
      <4>2. h <= 720
        BY <4>1, <1>5 DEF RoundUpToEven
      <4>3. t = s
        BY <1>1, <1>2, <3>1, <4>1, <4>2 DEF HeightAtMost
      <4>4. Skew(t, w, h) = 0 /\ u # t
        BY <1>2, <1>3, <3>1, <3>2, <4>1, <4>3 DEF Skew
      <4>5. u.width = 1280 /\ 0 <= u.width * h - u.height * w
        BY <1>1, <4>1, <4>4 DEF WidthAtMost, Skew
      <4>6. (h - 1) * w <= u.height * w /\ (h - 1) * 1283 <= (h - 1) * w
        <5>1. h - 1 \in Nat /\ h - 1 <= u.height /\ w \in Nat /\ 1283 <= w
          BY <1>2, <1>3, <1>5, <3>2
        <5>2. (h - 1) * w <= u.height * w
          BY <1>3, <5>1, Monotone
        <5>3. (h - 1) * 1283 <= (h - 1) * w
          BY <5>1, Monotone
        <5> QED
          BY <5>2, <5>3
      <4>7. (h - 1) * 1283 <= 1280 * h
        BY <1>2, <1>3, <4>5, <4>6
      <4> QED
        BY <1>2, <3>2, <4>7
    <3> QED
      BY <1>2, <3>1, <3>2 DEF WideEnough, minFrameDimension, w
  <2>2. CASE w >= h /\ h < 360 /\ s.height = 360 /\ Skew(s, w, h) <= 0
    <3>1. s.width \in Nat /\ s.width * h - 360 * w <= 0 /\ t = s
      BY <1>1, <1>3, <2>2 DEF AtLeastMin, Sized, Skew, HeightAtMost
    <3>2. s.width <= 1080
      <4>1. h * s.width <= h * 1080
        BY <1>2, <3>1
      <4> QED
        BY <1>2, <3>1, <4>1, Cancel
    <3>3. u # t
      BY <1>3, <1>5, <2>2, <3>1
    <3>4. limits.width < 1080
      BY <1>1, <1>3, <3>1, <3>2, <3>3 DEF WidthAtMost
    <3>5. limits # defaultLimits
      BY <3>4 DEF defaultLimits, maxFrameWidth
    <3> QED
      BY <1>3, <3>4, <3>5 DEF WideEnough, minFrameDimension
  <2>3. CASE w < h /\ w < 360 /\ s.width = 360 /\ s.height > h
    <3>1. ASSUME limits.width >= 1080 PROVE w * limits.height < 360 * h
      <4>1. s.height \in Nat /\ (s.height > 360 => 0 <= 360 * h - s.height * w)
        BY <1>1, <2>3 DEF AtLeastMin, Sized, Skew, minFrameDimension
      <4>2. s.height > limits.height
        <5>1. ASSUME t = s PROVE FALSE
          <6>1. u = t
            BY <1>1, <1>3, <2>3, <3>1, <5>1 DEF WidthAtMost
          <6> QED
            BY <1>2, <1>3, <1>5, <2>3, <4>1, <5>1, <6>1
        <5> QED
          BY <1>1, <5>1 DEF HeightAtMost
      <4>3. limits.height * w < s.height * w
        BY <1>2, <1>3, <4>1, <4>2
      <4> QED
        BY <1>2, <1>3, <4>1, <4>2, <4>3
    <3>2. w * limits.height \in Nat /\ 360 * h \in Nat
      BY <1>2, <1>3
    <3> QED
      BY <1>2, <2>3, <3>1, <3>2 DEF WideEnough, minFrameDimension, w, h
  <2> QED
    BY <1>1, <2>1, <2>2, <2>3 DEF AtLeastMin, minFrameDimension
<1> QED
  BY <1>6, <1>7, <1>8 DEF w

-----------------------------------------------------------------------------
(* The encoded image. *)

(* The totals of a sequence of numbers are what the loops add up. *)
LEMMA Totals ==
    ASSUME NEW n \in Nat, NEW sizes \in [1..n -> Nat]
    PROVE  /\ totals(sizes) \in [0..n -> Nat]
           /\ totals(sizes)[0] = 0
           /\ \A k \in 1..n : totals(sizes)[k] = totals(sizes)[k - 1] + sizes[k]
<1> DEFINE IsTotal(sum) == sum = [k \in 0..n |-> IF k = 0 THEN 0 ELSE sum[k - 1] + sizes[k]]
           total == CHOOSE sum : IsTotal(sum)
<1>1. Len(sizes) = n
  OBVIOUS
<1>2. totals(sizes) = total
  BY <1>1 DEF totals
<1>3. PICK sum \in [0..n -> Nat] : IsTotal(sum)
  BY RunningTotals
<1>4. IsTotal(total)
  <2> HIDE DEF IsTotal
  <2> QED
    BY <1>3
<1> HIDE DEF total
<1>5. /\ total[0] = 0 /\ DOMAIN total = 0..n
      /\ \A k \in 1..n : total[k] = total[k - 1] + sizes[k]
  BY <1>4
<1> DEFINE P == {i \in Nat : i <= n => total[i] \in Nat}
<1>6. Nat \subseteq P
  <2>1. 0 \in P
    BY <1>5
  <2>2. \A m \in Nat : m \in P => m + 1 \in P
    <3> SUFFICES ASSUME NEW m \in Nat, m \in P, m + 1 <= n PROVE total[m + 1] \in Nat
      OBVIOUS
    <3>1. m + 1 \in 1..n /\ total[m] \in Nat /\ sizes[m + 1] \in Nat
      OBVIOUS
    <3>2. total[m + 1] = total[m] + sizes[m + 1]
      BY <1>5, <3>1
    <3> QED
      BY <3>1, <3>2
  <2> HIDE DEF P
  <2> QED
    BY <2>1, <2>2, SetInduction
<1>7. \A i \in 0..n : total[i] \in Nat
  BY <1>6
<1>8. total \in [0..n -> Nat]
  BY <1>4, <1>7
<1> QED
  BY <1>2, <1>5, <1>8

(* NAL units are sequences. *)
LEMMA NalsType ==
    ASSUME NEW nals \in Nals
    PROVE  /\ nals \in Seq([payload : Nat, long : BOOLEAN])
           /\ Len(nals) \in Nat /\ DOMAIN nals = 1..Len(nals)
           /\ \A k \in 1..Len(nals) : nals[k] \in [payload : Nat, long : BOOLEAN]
           /\ \A k \in 1..Len(nals) : nals[k].payload >= 4
<1>1. nals \in Seq([payload : Nat, long : BOOLEAN])
  BY EncoderAssumption
<1>2. \A k \in DOMAIN nals : nals[k].payload >= 4
  BY EncoderAssumption
<1>3. Len(nals) \in Nat /\ DOMAIN nals = 1..Len(nals)
  BY <1>1
<1>4. \A k \in 1..Len(nals) : nals[k] \in [payload : Nat, long : BOOLEAN]
  <2> DEFINE R == [payload : Nat, long : BOOLEAN]
  <2>1. nals \in Seq(R)
    BY <1>1
  <2> HIDE DEF R
  <2>2. \A k \in 1..Len(nals) : nals[k] \in R
    BY <2>1
  <2> QED
    BY <2>2 DEF R
<1> QED
  BY <1>1, <1>2, <1>3, <1>4

(* The size asked for is the size written: a long start code takes the place of each. *)
LEMMA RequiredIsWritten ==
    ASSUME NEW nals \in Nals
    PROVE  /\ requiredSize(nals) = imageLength(nals) /\ imageLength(nals) \in Nat
           /\ written(nals) \in [0..Len(nals) -> Nat]
           /\ Len(nals) \in Nat
           /\ written(nals)[0] = 0
           /\ \A k \in 1..Len(nals) :
                 /\ nals[k].payload \in Nat /\ naluSize(nals[k]) \in Nat
                 /\ written(nals)[k] = written(nals)[k - 1] + 4 + naluSize(nals[k])
<1> DEFINE n == Len(nals)
           asked == [k \in 1..n |-> nals[k].payload + (IF nals[k].long THEN 0 ELSE 1)]
           made == [k \in 1..n |-> 4 + naluSize(nals[k])]
<1>1. n \in Nat /\ \A k \in 1..n : /\ nals[k].payload \in Nat /\ nals[k].payload >= 4
                                   /\ nals[k].long \in BOOLEAN
  BY NalsType
<1>2. \A k \in 1..n : naluSize(nals[k]) \in Nat /\ asked[k] = made[k]
  BY <1>1 DEF naluSize, startCode
<1>3. asked = made /\ made \in [1..n -> Nat]
  BY <1>1, <1>2
<1>4. written(nals) = totals(made)
  BY DEF written
<1>5. requiredSize(nals) = totals(asked)[n]
  BY DEF requiredSize
<1>6. \A k \in 1..n : made[k] = 4 + naluSize(nals[k])
  OBVIOUS
<1> HIDE DEF n, asked, made
<1>7. /\ totals(made) \in [0..n -> Nat] /\ totals(made)[0] = 0
      /\ \A k \in 1..n : totals(made)[k] = totals(made)[k - 1] + made[k]
  BY <1>1, <1>3, Totals
<1>8. imageLength(nals) = written(nals)[n] /\ imageLength(nals) \in Nat
  BY <1>1, <1>4, <1>7 DEF imageLength, n
<1>9. requiredSize(nals) = imageLength(nals)
  BY <1>3, <1>4, <1>5, <1>8
<1>10. \A k \in 1..n : written(nals)[k] = written(nals)[k - 1] + 4 + naluSize(nals[k])
  <2> SUFFICES ASSUME NEW k \in 1..n
               PROVE  written(nals)[k] = written(nals)[k - 1] + 4 + naluSize(nals[k])
    OBVIOUS
  <2>1. totals(made)[k - 1] \in Nat /\ naluSize(nals[k]) \in Nat
    BY <1>1, <1>2, <1>7
  <2>2. totals(made)[k] = totals(made)[k - 1] + (4 + naluSize(nals[k]))
    BY <1>6, <1>7
  <2> QED
    BY <1>4, <2>1, <2>2
<1> QED
  BY <1>1, <1>2, <1>4, <1>7, <1>8, <1>9, <1>10 DEF n

(* The image of some NAL units. *)
ImageOf(nals) ==
    [nals |-> nals, length |-> imageLength(nals), fragments |-> fragments(nals)]

(* The fragments of an image are its NAL units, one after the other. *)
LEMMA ImageFits ==
    ASSUME NEW nals \in Nals, nals # <<>>, encodedImage = ImageOf(nals),
           imageLength(nals) <= bufferSize
    PROVE  FragmentsFit
<1> DEFINE n == Len(nals)
           f == fragments(nals)
           total == written(nals)
<1>1. /\ encodedImage.fragments = f /\ encodedImage.nals = nals
      /\ encodedImage.length = imageLength(nals)
  BY DEF ImageOf
<1>2. /\ total \in [0..n -> Nat] /\ total[0] = 0 /\ n \in Nat
      /\ \A k \in 1..n : /\ nals[k].payload \in Nat /\ naluSize(nals[k]) \in Nat
                          /\ total[k] = total[k - 1] + 4 + naluSize(nals[k])
  BY RequiredIsWritten
<1>3. DOMAIN nals = 1..n /\ n # 0
  BY NalsType
<1>4. \A k \in 1..n : f[k].offset = total[k - 1] + 4 /\ f[k].length = naluSize(nals[k])
  BY DEF fragments
<1>5. imageLength(nals) = total[n]
  BY DEF imageLength
<1> HIDE DEF f, total, n
<1>6. ASSUME NEW k \in 1..n PROVE f[k].offset + f[k].length = total[k]
  <2>1. total[k - 1] \in Nat
    BY <1>2
  <2> QED
    BY <1>2, <1>4, <2>1
<1>7. ASSUME NEW k \in 1..n PROVE f[k].length + startCode(nals[k]) = nals[k].payload
  <2>1. startCode(nals[k]) \in Nat
    BY DEF startCode
  <2>2. nals[k].payload \in Nat /\ f[k].length = nals[k].payload - startCode(nals[k])
    BY <1>2, <1>4 DEF naluSize
  <2> QED
    BY <2>1, <2>2
<1>8. ASSUME NEW k \in 1..n
      PROVE  f[k].offset = (IF k = 1 THEN 0 ELSE f[k - 1].offset + f[k - 1].length) + 4
  <2>1. CASE k = 1
    BY <1>2, <1>4, <2>1
  <2>2. CASE k # 1
    <3>1. k - 1 \in 1..n
      BY <1>2, <2>2
    <3>2. f[k - 1].offset + f[k - 1].length = total[k - 1]
      BY <1>6, <3>1
    <3> QED
      BY <1>4, <2>2, <3>2
  <2> QED
    BY <2>1, <2>2
<1>9. f[n].offset + f[n].length = imageLength(nals)
  BY <1>2, <1>3, <1>5, <1>6
<1> QED
  BY <1>1, <1>3, <1>7, <1>8, <1>9 DEF FragmentsFit, n

(* An unencoded frame has a size. *)
LEMMA UnencodedSize ==
    ASSUME NEW w \in Nat, NEW h \in Nat
    PROVE  CalcBufferSize(w, h) \in Nat
<1>1. /\ w * h \in Nat /\ (w + 1) \div 2 \in Nat /\ (h + 1) \div 2 \in Nat
  OBVIOUS
<1>2. \A a, b, c \in Nat : c + 2 * a * b \in Nat
  OBVIOUS
<1> QED
  BY <1>1, <1>2 DEF CalcBufferSize

(* The buffer is a number, and has room for what is asked of it. *)
LEMMA GrownBounds ==
    ASSUME NEW size \in Nat, NEW nals \in Nals, NEW s \in [width : Nat, height : Nat]
    PROVE  Grown(size, nals, s) \in Nat /\ imageLength(nals) <= Grown(size, nals, s)
<1>1. requiredSize(nals) = imageLength(nals) /\ imageLength(nals) \in Nat
  BY RequiredIsWritten
<1>2. CalcBufferSize(s.width, s.height) \in Nat
  BY UnencodedSize
<1> QED
  BY <1>1, <1>2 DEF Grown

-----------------------------------------------------------------------------
(* The inductive invariant, a part for each of the three components.  A frame is the
   scaled form of the application's, under the limits that hold; the image in the
   buffer is that of some NAL units, and has its room. *)

VideoInv ==
    /\ info \in EncoderInfos \cup {None}
    /\ limits = Limits(info)
    /\ lastTimestamp \in Timestamps \cup {0}
    /\ frame # None =>
          /\ frame.of \in Sizes /\ checkAspectRatio(frame.of) = "Success"
          /\ frame.size = scaled(frame.of)
          /\ frame.timestamp \in Timestamps /\ frame.timestamp <= lastTimestamp

EncoderInv ==
    /\ targetFps \in {30, 60} /\ frameCount \in {0, 1} /\ bufferSize \in Nat
    /\ reconfigFailed \in BOOLEAN
    /\ encoder # Nil => encoder \in [width : Nat, height : Nat, fps : {30, 60}]
    /\ EncoderRate
    /\ encodedImage # Nil =>
          \E nals \in Nals : /\ nals # <<>> /\ encodedImage = ImageOf(nals)
                             /\ imageLength(nals) <= bufferSize

MediaInv ==
    /\ IInv /\ VideoInv /\ EncoderInv
    /\ isOnline \in BOOLEAN /\ broadcasts \in 1..MaxBroadcasts

(* The limits a frame is scaled by, and what is known of a frame of the application. *)
LEMMA LimitsKnown ==
    ASSUME VideoInv
    PROVE  /\ limits \in LimitsType
           /\ limits.fps >= maxFps /\ limits.height >= maxFrameHeight
           /\ (info = None \/ info.targetBitrate <= maxBitsPerSecond) => limits = defaultLimits
           /\ interFrameLimit \in Nat
<1>1. info \in EncoderInfos \cup {None} /\ limits = Limits(info)
  BY DEF VideoInv
<1>2. /\ limits \in LimitsType
      /\ limits.fps >= 30 /\ limits.height >= maxFrameHeight
      /\ (info = None \/ info.targetBitrate <= maxBitsPerSecond) => limits = defaultLimits
  BY <1>1, LimitsBounds DEF maxFps
<1>3. limits.fps \in Nat
  BY <1>2 DEF LimitsType
<1>4. interFrameLimit \in Nat
  BY <1>2, <1>3, Quotient DEF interFrameLimit
<1> QED
  BY <1>2, <1>4 DEF maxFps

LEMMA SizeKnown ==
    ASSUME NEW of \in Sizes, checkAspectRatio(of) = "Success"
    PROVE  of \in Sized /\ of.width <= 3 * of.height
<1>1. of \in [width : Nat \ {0}, height : Nat \ {0}]
  BY VideoAssumption
<1> QED
  BY <1>1 DEF Sized, checkAspectRatio, isRatioGreater, isRatioLess

(* Times are numbers, and a frame handed on was no later than the last one seen. *)
LEMMA TimesKnown ==
    ASSUME VideoInv
    PROVE  /\ lastTimestamp \in Int
           /\ frame # None => frame.timestamp \in Int /\ frame.timestamp <= lastTimestamp
<1>1. Timestamps \subseteq Int
  BY VideoAssumption
<1>2. lastTimestamp \in Int
  BY <1>1 DEF VideoInv
<1>3. ASSUME frame # None PROVE frame.timestamp \in Int /\ frame.timestamp <= lastTimestamp
  <2>1. frame.timestamp \in Timestamps /\ frame.timestamp <= lastTimestamp
    BY <1>3 DEF VideoInv
  <2> QED
    BY <1>1, <2>1
<1> QED
  BY <1>2, <1>3

(* The size a frame is sent in is a size. *)
LEMMA FrameSize ==
    ASSUME VideoInv, frame # None
    PROVE  frame.size \in [width : Nat, height : Nat]
<1>1. frame.of \in Sized /\ frame.of.width <= 3 * frame.of.height /\ frame.size = scaled(frame.of)
  BY SizeKnown DEF VideoInv
<1>2. adapted(frame.of).height # frame.of.height => adapted(frame.of) \in [width : Nat, height : Nat]
  BY <1>1, LimitsKnown, ScaledFits
<1> QED
  BY <1>1, <1>2 DEF scaled, Sized

(* Init. *)
LEMMA MediaStarts == Init => MediaInv
<1> SUFFICES ASSUME Init PROVE MediaInv
  OBVIOUS
<1>1. IInv
  BY AudioStarts DEF Init
<1>2. VideoInv
  BY DEF Init, CapturerInit, VideoInv
<1>3. EncoderInv
  BY DEF Init, EncoderInit, EncoderInv, EncoderRate
<1>4. isOnline \in BOOLEAN
  BY DEF Init
<1>5. broadcasts \in 1..MaxBroadcasts
  BY BroadcastsAssumption DEF Init
<1> QED
  BY <1>1, <1>2, <1>3, <1>4, <1>5 DEF MediaInv

(* The capturer: a frame, a new broadcast, or nothing. *)
LEMMA VideoKept ==
    ASSUME VideoInv,
           \/ UNCHANGED videoVars
           \/ NewCapturer
           \/ \E size \in Sizes, timestamp \in Timestamps : SendVideo(size, timestamp)
    PROVE  VideoInv'
<1>1. CASE UNCHANGED videoVars
  BY <1>1 DEF VideoInv, videoVars, scaled, adapted, CapHeight, CapWidth
<1>2. CASE NewCapturer
  BY <1>2 DEF NewCapturer, VideoInv
<1>3. CASE \E size \in Sizes, timestamp \in Timestamps : SendVideo(size, timestamp)
  <2>1. PICK size \in Sizes, timestamp \in Timestamps : SendVideo(size, timestamp)
    BY <1>3
  <2>2. /\ limits' = limits /\ info' = info /\ lastTimestamp' = timestamp
        /\ checkAspectRatio(size) = "Success"
        /\ timestamp - lastTimestamp >= interFrameLimit
        /\ frame' = frame \/ frame' = [size |-> scaled(size), of |-> size, timestamp |-> timestamp]
    BY <2>1 DEF SendVideo, Dropped
  <2>3. \A s : scaled(s)' = scaled(s)
    <3>1. \A s : adapted(s)' = adapted(s)
      <4> SUFFICES ASSUME NEW s PROVE adapted(s)' = adapted(s)
        OBVIOUS
      <4> QED
        BY <2>2 DEF adapted, CapHeight, CapWidth
    <3> QED
      BY <3>1 DEF scaled
  <2>4. timestamp \in Int /\ lastTimestamp \in Int /\ lastTimestamp <= timestamp
    <3>1. timestamp \in Int /\ lastTimestamp \in Int
      BY VideoAssumption, TimesKnown
    <3>2. interFrameLimit \in Nat
      BY LimitsKnown
    <3> QED
      BY <2>2, <3>1, <3>2
  <2>5. CASE frame' = frame
    <3>1. ASSUME frame # None PROVE frame.timestamp <= timestamp
      BY <3>1, <2>4, TimesKnown
    <3> QED
      BY <2>2, <2>3, <2>5, <3>1 DEF VideoInv
  <2>6. CASE frame' = [size |-> scaled(size), of |-> size, timestamp |-> timestamp]
    <3>1. frame'.size = scaled(size) /\ frame'.of = size /\ frame'.timestamp = timestamp
      BY <2>6
    <3> QED
      BY <2>2, <2>3, <2>4, <3>1 DEF VideoInv
  <2> QED
    BY <2>2, <2>5, <2>6
<1> QED
  BY <1>1, <1>2, <1>3

(* The encoder: what its thread does, a new broadcast, or nothing. *)
LEMMA EncoderKept ==
    ASSUME EncoderInv, VideoInv,
           \/ UNCHANGED encoderVars
           \/ NewEncoder
           \/ frame # None /\ InitEncode(frame.size.width, frame.size.height)
           \/ frame # None /\ Encode(frame.size)
           \/ \E framerate \in Fps : SetRateAllocation(framerate)
           \/ Release
    PROVE  EncoderInv'
<1> USE DEF EncoderInv, EncoderRate
<1>1. CASE UNCHANGED encoderVars
  BY <1>1 DEF encoderVars
<1>2. CASE NewEncoder
  BY <1>2 DEF NewEncoder
<1>3. CASE frame # None /\ InitEncode(frame.size.width, frame.size.height)
  <2>1. frame.size.width \in Nat /\ frame.size.height \in Nat
    BY <1>3, FrameSize
  <2>2. CalcBufferSize(frame.size.width, frame.size.height) \in Nat
    BY <2>1, UnencodedSize
  <2>3. /\ encodedImage' = Nil /\ frameCount' = 0 /\ targetFps' = targetFps
        /\ reconfigFailed' = FALSE
        /\ \/ encoder' = Nil /\ bufferSize' = 0
           \/ /\ encoder' = [width |-> frame.size.width, height |-> frame.size.height,
                            fps |-> targetFps]
              /\ bufferSize' = CalcBufferSize(frame.size.width, frame.size.height)
    BY <1>3 DEF InitEncode
  <2>4. encoder' # Nil => /\ encoder' \in [width : Nat, height : Nat, fps : {30, 60}]
                         /\ encoder'.fps = targetFps'
    BY <2>1, <2>3
  <2>5. bufferSize' \in Nat
    BY <2>2, <2>3
  <2>6. reconfigFailed' \in BOOLEAN
    BY <2>3
  <2> QED
    BY <2>3, <2>4, <2>5, <2>6
<1>4. CASE frame # None /\ Encode(frame.size)
  <2>1. CASE EncodeFails
    BY <2>1 DEF EncodeFails
  <2>2. CASE \E nals \in Nals : Encoded(frame.size, nals)
    <3>1. PICK nals \in Nals : Encoded(frame.size, nals)
      BY <2>2
    <3>2. /\ bufferSize' = Grown(bufferSize, nals, frame.size)
          /\ encodedImage' = IF nals = <<>> THEN Nil ELSE ImageOf(nals)
          /\ frameCount' = 1
          /\ UNCHANGED <<encoder, height, targetFps, reconfigFailed>>
      BY <3>1 DEF Encoded, ImageOf
    <3>3. bufferSize' \in Nat /\ imageLength(nals) <= bufferSize'
      BY <1>4, <3>2, FrameSize, GrownBounds
    <3> QED
      BY <3>2, <3>3
  <2> QED
    BY <1>4, <2>1, <2>2 DEF Encode
<1>5. CASE \E framerate \in Fps : SetRateAllocation(framerate)
  <2>1. PICK framerate \in Fps : SetRateAllocation(framerate)
    BY <1>5
  <2>2. /\ targetFps' \in {30, 60}
        /\ \/ encoder' = [encoder EXCEPT !.fps = targetFps'] /\ UNCHANGED reconfigFailed
           \/ reconfigFailed' = TRUE /\ UNCHANGED encoder
        /\ encoder # Nil
        /\ UNCHANGED <<height, frameCount, bufferSize, encodedImage>>
    BY <2>1 DEF SetRateAllocation, NewTarget
  <2>3. encoder' # Nil => encoder' \in [width : Nat, height : Nat, fps : {30, 60}]
    BY <2>2
  <2>4. encoder' # Nil /\ ~reconfigFailed' => encoder'.fps = targetFps'
    BY <2>2
  <2>5. reconfigFailed' \in BOOLEAN
    BY <2>2
  <2> QED
    BY <2>2, <2>3, <2>4, <2>5
<1>6. CASE Release
  BY <1>6 DEF Release
<1> QED
  BY <1>1, <1>2, <1>3, <1>4, <1>5, <1>6

(* Every step of Media keeps the three. *)
LEMMA MediaStep == MediaInv /\ [Next]_vars => MediaInv'
<1> SUFFICES ASSUME MediaInv, [Next]_vars PROVE MediaInv'
  OBVIOUS
<1>0. /\ IInv /\ VideoInv /\ EncoderInv
      /\ isOnline \in BOOLEAN /\ broadcasts \in 1..MaxBroadcasts
  BY DEF MediaInv
<1>1. IInv'
  <2>1. [AudioNext]_audioVars
    BY DEF Next, vars, GoOnline, NextBroadcast, Audio, sendAudio, sendVideo, EncoderThread, AudioNext
  <2> QED
    BY <1>0, <2>1, AudioStep
<1>2. VideoInv'
  <2>1. \/ UNCHANGED videoVars
        \/ NewCapturer
        \/ \E size \in Sizes, timestamp \in Timestamps : SendVideo(size, timestamp)
    BY DEF Next, vars, GoOnline, NextBroadcast, Audio, sendVideo, EncoderThread
  <2> QED
    BY <1>0, <2>1, VideoKept
<1>3. EncoderInv'
  <2>1. \/ UNCHANGED encoderVars
        \/ NewEncoder
        \/ frame # None /\ InitEncode(frame.size.width, frame.size.height)
        \/ frame # None /\ Encode(frame.size)
        \/ \E framerate \in Fps : SetRateAllocation(framerate)
        \/ Release
    BY DEF Next, vars, GoOnline, NextBroadcast, Audio, sendVideo, EncoderThread
  <2> QED
    BY <1>0, <2>1, EncoderKept
<1>4. isOnline' \in BOOLEAN
  BY <1>0 DEF Next, vars, mediaVars, GoOnline, NextBroadcast, Audio, sendVideo, EncoderThread
<1>5. broadcasts' \in 1..MaxBroadcasts
  <2>1. \/ broadcasts' = broadcasts
        \/ broadcasts < MaxBroadcasts /\ broadcasts' = broadcasts + 1
    BY DEF Next, vars, mediaVars, GoOnline, NextBroadcast, Audio, sendVideo, EncoderThread
  <2> QED
    BY <1>0, <2>1, BroadcastsAssumption
<1> QED
  BY <1>1, <1>2, <1>3, <1>4, <1>5 DEF MediaInv

-----------------------------------------------------------------------------
(* What follows from it. *)

LEMMA MediaInvariant == Spec => []MediaInv
BY MediaStarts, MediaStep, PTL DEF Spec

(* Media.TypeOK. *)
THEOREM MediaTypeCorrect == Spec => []TypeOK
<1>1. MediaInv => TypeOK
  <2> SUFFICES ASSUME MediaInv PROVE TypeOK
    OBVIOUS
  <2>1. IInv /\ VideoInv /\ EncoderInv /\ isOnline \in BOOLEAN /\ broadcasts \in 1..MaxBroadcasts
    BY DEF MediaInv
  <2>2. DOMAIN limits = {"fps", "width", "height"}
    BY <2>1, LimitsKnown DEF LimitsType
  <2> QED
    BY <2>1, <2>2 DEF TypeOK, IInv, VideoInv, EncoderInv
<1> QED
  BY <1>1, MediaInvariant, PTL

(* However the application cuts its audio, with frames and broadcasts in between, the
   chunks are the audio. *)
THEOREM MediaSamplesInOrder == Spec => []SamplesInOrder
<1>1. MediaInv => SamplesInOrder
  BY DEF MediaInv, IInv
<1> QED
  BY <1>1, MediaInvariant, PTL

(* What is handed to the encoder fits the limits and keeps the shape of the
   application's frame, for every size of frame and all limits of the service. *)
THEOREM MediaFramesFit == Spec => []FramesFit
<1>1. MediaInv => FramesFit
  <2> SUFFICES ASSUME VideoInv, frame # None PROVE FramesFit
    BY DEF MediaInv, FramesFit
  <2> DEFINE size == frame.size
             of == frame.of
  <2>1. /\ limits \in LimitsType /\ limits.height >= maxFrameHeight
        /\ (info = None \/ info.targetBitrate <= maxBitsPerSecond) => limits = defaultLimits
    BY LimitsKnown
  <2>2. of \in Sized /\ of.width <= 3 * of.height
    BY SizeKnown DEF VideoInv
  <2>3. size = scaled(of) /\ size \in [width : Nat, height : Nat]
    BY FrameSize DEF VideoInv
  <2> HIDE DEF size, of
  <2>4. /\ InLimits(size, of) /\ InShape(size, of) /\ WideEnough(size, of)
        /\ size = of => (limits = defaultLimits => size.width <= 1282)
    <3>1. CASE adapted(of).height = of.height
      BY <2>1, <2>2, <2>3, <3>1, UnscaledFits DEF scaled
    <3>2. CASE adapted(of).height # of.height
      BY <2>1, <2>2, <2>3, <3>2, ScaledFits DEF scaled
    <3> QED
      BY <3>1, <3>2
  <2>5. ASSUME limits = defaultLimits
        PROVE  size.width <= 1282 /\ size.height <= 720 /\ limits.fps = 30
    <3>1. limits.width = 1280 /\ limits.height = 720 /\ limits.fps = 30
      BY <2>5 DEF defaultLimits, maxFrameWidth, maxFrameHeight, maxFps
    <3>2. RoundUpToEven(1280) = 1280 /\ RoundUpToEven(720) = 720
      BY DEF RoundUpToEven
    <3> QED
      BY <2>3, <2>4, <2>5, <3>1, <3>2 DEF InLimits
  <2> QED
    BY <2>1, <2>4, <2>5 DEF FramesFit, InLimits, InShape, WideEnough, Skew, size, of
<1> QED
  BY <1>1, MediaInvariant, PTL

(* Frames handed on keep their distance, whatever is dropped between them. *)
THEOREM MediaFramesApart == Spec => FramesApart
<1>1. MediaInv /\ [Next]_vars =>
         [frame # None /\ frame' \notin {None, frame} =>
             frame'.timestamp - frame.timestamp >= interFrameLimit]_vars
  <2> SUFFICES ASSUME VideoInv, Next, frame # None, frame' \notin {None, frame}
               PROVE  frame'.timestamp - frame.timestamp >= interFrameLimit
    BY DEF MediaInv
  <2>1. PICK size \in Sizes, timestamp \in Timestamps : SendVideo(size, timestamp)
    BY DEF Next, GoOnline, NextBroadcast, NewCapturer, Audio, sendVideo, EncoderThread, videoVars
  <2>2. frame'.timestamp = timestamp /\ timestamp - lastTimestamp >= interFrameLimit
    BY <2>1 DEF SendVideo, Dropped
  <2>3. /\ timestamp \in Int /\ lastTimestamp \in Int /\ frame.timestamp \in Int
        /\ frame.timestamp <= lastTimestamp
    BY VideoAssumption, TimesKnown
  <2>4. interFrameLimit \in Nat
    BY LimitsKnown
  <2> QED
    BY <2>2, <2>3, <2>4
<1> QED
  BY <1>1, MediaInvariant, PTL DEF Spec, FramesApart

(* The encoded image stays within the buffer, whatever the order of frames, failures
   and initializations, and its fragments are the NAL units. *)
THEOREM MediaFragmentsFit == Spec => []FragmentsFit
<1>1. MediaInv => FragmentsFit
  <2> SUFFICES ASSUME EncoderInv, encodedImage # Nil PROVE FragmentsFit
    BY DEF MediaInv, FragmentsFit
  <2>1. PICK nals \in Nals : /\ nals # <<>> /\ encodedImage = ImageOf(nals)
                             /\ imageLength(nals) <= bufferSize
    BY DEF EncoderInv
  <2> QED
    BY <2>1, ImageFits
<1> QED
  BY <1>1, MediaInvariant, PTL

(* x264 encodes at the chosen rate unless it has refused a change. *)
THEOREM MediaEncoderRate == Spec => []EncoderRate
<1>1. MediaInv => EncoderRate
  BY DEF MediaInv, EncoderInv
<1> QED
  BY <1>1, MediaInvariant, PTL
=============================================================================
