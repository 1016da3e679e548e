----------------------------- MODULE X264Encoder -----------------------------
(***************************************************************************)
(* src/src/X264Encoder.cpp, called on libwebrtc's encoder thread.  x264    *)
(* is external: opening, reconfiguring and encoding may each fail.  A NAL  *)
(* unit is its length and whether its start code is the long one; where a  *)
(* fragment came from stands for its bytes.                                *)
(***************************************************************************)
EXTENDS Integers, Sequences

CONSTANTS
    Nals,  \* the NAL units x264 makes of a frame: sequences of [payload, long]
    Fps,   \* frame rates libwebrtc asks for
    Nil    \* nullptr

(* rtpFragmentize checks that no NAL unit is shorter than four bytes. *)
ASSUME EncoderAssumption ==
    \A nals \in Nals : /\ nals \in Seq([payload : Nat, long : BOOLEAN])
                       /\ \A k \in DOMAIN nals : nals[k].payload >= 4

kFpsHighThreshold == 50
kFpsLowThreshold == 35

VARIABLES
    encoder,           \* [width, height, fps] of x264, or Nil
    height,            \* of the frames that InitEncode or Encode saw
    targetFps,
    frameCount,        \* 0 or more: whether a frame has been encoded
    bufferSize,        \* encodedImage's, 0 without a buffer
    encodedImage,      \* what the buffer holds, or Nil
    reconfigFailed     \* history: since the encoder was opened

encoderVars ==
    <<encoder, height, targetFps, frameCount, bufferSize, encodedImage, reconfigFailed>>

CalcBufferSize(w, h) == w * h + 2 * ((w + 1) \div 2) * ((h + 1) \div 2)

EncoderInit ==
    /\ encoder = Nil
    /\ height = 0
    /\ targetFps = 30
    /\ frameCount = 0
    /\ bufferSize = 0
    /\ encodedImage = Nil
    /\ reconfigFailed = FALSE

NewEncoder ==
    /\ encoder' = Nil
    /\ height' = 0
    /\ targetFps' = 30
    /\ frameCount' = 0
    /\ bufferSize' = 0
    /\ encodedImage' = Nil
    /\ reconfigFailed' = FALSE

-----------------------------------------------------------------------------
(* rtpFragmentize: every start code is made a long one. *)

startCode(nal) == IF nal.long THEN 4 ELSE 3
naluSize(nal) == nal.payload - startCode(nal)

(* The totals of the first k sizes, as the loops over the NAL units add them up. *)
totals(sizes) ==
    LET sum[k \in 0..Len(sizes)] == IF k = 0 THEN 0 ELSE sum[k - 1] + sizes[k] IN sum

\* Variant: the byte by which a short start code grows is forgotten.
requiredSizeShort(nals) == totals([k \in 1..Len(nals) |-> nals[k].payload])[Len(nals)]

requiredSize(nals) ==
    totals([k \in 1..Len(nals) |-> nals[k].payload + (IF nals[k].long THEN 0 ELSE 1)])[Len(nals)]

(* The buffer grows to that of an unencoded frame, or more if need be. *)
Grown(size, nals, frame) ==
    LET required == requiredSize(nals)
        unencoded == CalcBufferSize(frame.width, frame.height)
    IN CASE size >= required -> size
         [] unencoded >= required -> unencoded
         [] OTHER -> required

written(nals) == totals([k \in 1..Len(nals) |-> 4 + naluSize(nals[k])])
fragments(nals) ==
    [k \in 1..Len(nals) |-> [offset |-> written(nals)[k - 1] + 4, length |-> naluSize(nals[k])]]
imageLength(nals) == written(nals)[Len(nals)]

-----------------------------------------------------------------------------

(* Release, then a new encoder: the defaults, the picture and x264 may each fail.  A call
   refused for its parameters returns before the Release and is no step. *)
InitEncode(w, h) ==
    /\ height' = h
    /\ frameCount' = 0
    /\ reconfigFailed' = FALSE
    /\ encodedImage' = Nil
    /\ \/ encoder' = Nil /\ bufferSize' = 0
       \/ /\ encoder' = [width |-> w, height |-> h, fps |-> targetFps]
          /\ bufferSize' = CalcBufferSize(w, h)
    /\ UNCHANGED targetFps

Release ==
    /\ encoder' = Nil
    /\ bufferSize' = 0
    /\ frameCount' = 0
    /\ encodedImage' = Nil
    /\ UNCHANGED <<height, targetFps, reconfigFailed>>

NewTarget(framerate) ==
    CASE framerate > kFpsHighThreshold /\ targetFps = 30 -> 60
      [] framerate < kFpsLowThreshold /\ targetFps = 60 -> 30
      [] OTHER -> targetFps

\* Variant: the target is changed also while the encoder is not to be touched.
SetRateAllocationEarly(framerate) ==
    /\ NewTarget(framerate) # targetFps
    /\ targetFps' = NewTarget(framerate)
    /\ IF frameCount = 0 \/ encoder = Nil
       THEN UNCHANGED <<encoder, reconfigFailed>>
       ELSE \/ encoder' = [encoder EXCEPT !.fps = targetFps'] /\ UNCHANGED reconfigFailed
            \/ reconfigFailed' = TRUE /\ UNCHANGED encoder
    /\ UNCHANGED <<height, frameCount, bufferSize, encodedImage>>

(* The target changes before the encoder does, which may refuse. *)
SetRateAllocation(framerate) ==
    /\ frameCount > 0 /\ encoder # Nil
    /\ NewTarget(framerate) # targetFps
    /\ targetFps' = NewTarget(framerate)
    /\ \/ encoder' = [encoder EXCEPT !.fps = targetFps'] /\ UNCHANGED reconfigFailed
       \/ reconfigFailed' = TRUE /\ UNCHANGED encoder
    /\ UNCHANGED <<height, frameCount, bufferSize, encodedImage>>

Encoded(frame, nals) ==
    /\ bufferSize' = Grown(bufferSize, nals, frame)
    /\ encodedImage' = IF nals = <<>> THEN Nil
                       ELSE [nals |-> nals, length |-> imageLength(nals),
                             fragments |-> fragments(nals)]
    /\ frameCount' = 1
    /\ UNCHANGED <<encoder, height, targetFps, reconfigFailed>>

EncodeFails ==
    /\ encoder' = Nil
    /\ UNCHANGED <<height, targetFps, frameCount, bufferSize, encodedImage, reconfigFailed>>

(* Not initialized: refused.  Empty frames are skipped.  An encoder that failed is
   closed; frames x264 skips are counted and not delivered. *)
Encode(frame) ==
    /\ encoder # Nil
    /\ EncodeFails \/ \E nals \in Nals : Encoded(frame, nals)
=============================================================================
