---------------------------- MODULE VideoCapturer ----------------------------
(***************************************************************************)
(* One frame from the application to the encoder: Policy's limits, those   *)
(* raised by the service's encoder info (Broadcast::start), the aspect     *)
(* ratio test of Broadcast::sendVideo, and VideoCapturer::sendVideo, which *)
(* drops frames that come too fast and scales the rest.  The adapter of    *)
(* libwebrtc is switched off (EnableFrameAdaption(false)): it drops a      *)
(* frame nobody wants and otherwise leaves its size alone.                 *)
(*                                                                         *)
(* lastTimestamp begins as seconds::min() in microseconds, which overflows;*)
(* -2^63 * 10^6 is 0 modulo 2^64.                                          *)
(***************************************************************************)
EXTENDS Integers

CONSTANTS
    Sizes,         \* sizes of the application's frames
    Timestamps,    \* their timestamps, in microseconds
    EncoderInfos,  \* [targetBitrate, framerate, width, height]
    None           \* no encoder info, no frame

(* The C API takes no frame without a width or a height. *)
ASSUME VideoAssumption ==
    /\ Sizes \subseteq [width : Nat \ {0}, height : Nat \ {0}]
    /\ Timestamps \subseteq Int
    /\ EncoderInfos \subseteq [targetBitrate : Int, framerate : Int, width : Int, height : Int]

maxBitsPerSecond == 2000000
maxFrameHeight == 720
maxFrameWidth == 1280
minFrameDimension == 360
maxFps == 30

VARIABLES
    limits,         \* what start() set: [fps, width, height]
    info,           \* the encoder info it set them by, or None
    lastTimestamp,
    frame           \* the last frame handed on, with its source and timestamp

videoVars == <<limits, info, lastTimestamp, frame>>

isRatioGreater(w1, h1, w2, h2) == w1 * h2 > w2 * h1
isRatioLess(w1, h1, w2, h2) == w1 * h2 < w2 * h1
checkAspectRatio(size) ==
    CASE isRatioGreater(size.width, size.height, 3, 1) -> "AspectTooWide"
      [] isRatioLess(size.width, size.height, 1, 3) -> "AspectTooNarrow"
      [] OTHER -> "Success"

defaultLimits == [fps |-> maxFps, width |-> maxFrameWidth, height |-> maxFrameHeight]

\* Variant: the frame size may be raised where the bit rate is not.
LimitsUnconditional(i) ==
    IF i = None THEN defaultLimits
    ELSE [fps |-> maxFps, width |-> i.width, height |-> i.height]

(* Frame rate and size are raised only along with the bit rate. *)
Limits(i) ==
    IF i = None \/ i.targetBitrate <= maxBitsPerSecond THEN defaultLimits
    ELSE LET larger == i.height > maxFrameHeight /\ checkAspectRatio(i) = "Success"
         IN [fps |-> IF i.framerate > maxFps THEN i.framerate ELSE maxFps,
             width |-> IF larger THEN i.width ELSE maxFrameWidth,
             height |-> IF larger THEN i.height ELSE maxFrameHeight]

CapturerInit ==
    /\ info \in EncoderInfos \cup {None}
    /\ limits = Limits(info)
    /\ lastTimestamp = 0
    /\ frame = None

(* A new broadcast asks for the encoder info anew and has a new capturer. *)
NewCapturer ==
    /\ info' \in EncoderInfos \cup {None}
    /\ limits' = Limits(info')
    /\ lastTimestamp' = 0
    /\ frame' = None

interFrameLimit == 1000000 \div (limits.fps + 2)

Size(w, h) == [width |-> w, height |-> h]

RaiseToMin(s, w, h) ==
    CASE w >= h /\ s.height < minFrameDimension ->
            Size((w * minFrameDimension) \div h, minFrameDimension)
      [] h > w /\ s.width < minFrameDimension ->
            Size(minFrameDimension, (h * minFrameDimension) \div w)
      [] OTHER -> s
CapHeight(s) ==
    IF s.height > limits.height
    THEN Size((s.width * limits.height) \div s.height, limits.height) ELSE s
CapWidth(s) ==
    IF s.width > limits.width
    THEN Size(limits.width, (s.height * limits.width) \div s.width) ELSE s
RoundUpToEven(n) == ((n + 1) \div 2) * 2
Even(s) == Size(RoundUpToEven(s.width), RoundUpToEven(s.height))

\* Variant: the height is capped before the width is worked out from it.
CapHeightFirst(s) ==
    IF s.height > limits.height THEN Size(s.width, limits.height) ELSE s
adaptedUneven(size) ==
    CapWidth(CapHeightFirst(RaiseToMin(size, size.width, size.height)))

adapted(size) == Even(CapWidth(CapHeight(RaiseToMin(size, size.width, size.height))))

(* A frame whose height is right is sent as it is. *)
scaled(size) == IF adapted(size).height = size.height THEN size ELSE adapted(size)

Dropped == UNCHANGED frame

\* Variant: only a frame that is handed on is remembered, and not when.
SendVideoForgets(size, timestamp) ==
    /\ checkAspectRatio(size) = "Success"
    /\ timestamp - lastTimestamp >= interFrameLimit
    /\ frame' = [size |-> scaled(size), of |-> size, timestamp |-> timestamp]
    /\ UNCHANGED <<lastTimestamp, limits, info>>

(* Too soon after the last: dropped; the last is then this one, whether the adapter
   drops it and the conversion fails, or not. *)
SendVideo(size, timestamp) ==
    /\ checkAspectRatio(size) = "Success"
    /\ timestamp - lastTimestamp >= interFrameLimit
    /\ lastTimestamp' = timestamp
    /\ \/ Dropped
       \/ frame' = [size |-> scaled(size), of |-> size, timestamp |-> timestamp]
    /\ UNCHANGED <<limits, info>>
=============================================================================
