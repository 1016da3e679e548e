-------------------------------- MODULE Media --------------------------------
(***************************************************************************)
(* The media of one Instance: sendAudio and sendVideo do something only    *)
(* while the broadcast is online (Broadcast.cpp); the AudioDevice is the   *)
(* Instance's and outlives the broadcast, the VideoCapturer and the encoder*)
(* are of one broadcast.  libwebrtc, between them, is external: its encoder*)
(* thread takes the last frame handed on, initializes the encoder when the *)
(* frame's size is not the one it has, and encodes the frame.              *)
(***************************************************************************)
EXTENDS AudioDevice, VideoCapturer, X264Encoder

CONSTANT MaxBroadcasts  \* bound

ASSUME BroadcastsAssumption == MaxBroadcasts \in Nat \ {0}

VARIABLES
    isOnline,
    broadcasts  \* how many there have been

mediaVars == <<isOnline, broadcasts>>
vars == <<audioVars, videoVars, encoderVars, mediaVars>>

Init ==
    /\ AudioInit /\ CapturerInit /\ EncoderInit
    /\ isOnline = FALSE
    /\ broadcasts = 1

GoOnline ==
    /\ ~isOnline
    /\ isOnline' = TRUE
    /\ UNCHANGED <<audioVars, videoVars, encoderVars, broadcasts>>

(* The audio device keeps what it has of a chunk. *)
NextBroadcast ==
    /\ isOnline
    /\ broadcasts < MaxBroadcasts
    /\ broadcasts' = broadcasts + 1
    /\ isOnline' = FALSE
    /\ NewCapturer /\ NewEncoder
    /\ UNCHANGED audioVars

sendAudio ==
    /\ isOnline
    /\ \E samplesPerChannel \in 1..MaxBuffer : SendAudio(samplesPerChannel)

Audio == (sendAudio \/ Copy) /\ UNCHANGED <<videoVars, encoderVars, mediaVars>>

sendVideo ==
    /\ isOnline
    /\ \E size \in Sizes, timestamp \in Timestamps : SendVideo(size, timestamp)
    /\ UNCHANGED <<audioVars, encoderVars, mediaVars>>

Initialized == encoder # Nil /\ Size(encoder.width, encoder.height) = frame.size

EncoderThread ==
    /\ \/ frame # None /\ ~Initialized /\ InitEncode(frame.size.width, frame.size.height)
       \/ frame # None /\ Initialized /\ Encode(frame.size)
       \/ \E framerate \in Fps : SetRateAllocation(framerate)
       \/ Release
    /\ UNCHANGED <<audioVars, videoVars, mediaVars>>

Next == GoOnline \/ NextBroadcast \/ Audio \/ sendVideo \/ EncoderThread

Spec == Init /\ [][Next]_vars
-----------------------------------------------------------------------------
(* Properties; SamplesInOrder is in AudioDevice. *)

(* Type invariant. *)
TypeOK ==
    /\ AudioTypes
    /\ info \in EncoderInfos \cup {None}
    /\ DOMAIN limits = {"fps", "width", "height"}
    /\ lastTimestamp \in Timestamps \cup {0}
    /\ frame # None => frame.of \in Sizes /\ frame.timestamp \in Timestamps
    /\ targetFps \in {30, 60}
    /\ frameCount \in {0, 1} /\ bufferSize \in Nat
    /\ isOnline \in BOOLEAN /\ reconfigFailed \in BOOLEAN
    /\ broadcasts \in 1..MaxBroadcasts

(* What is handed to the encoder fits the height and frame rate of the platform, 720
   lines thirty times a second, unless the service allows a higher bit rate, and has
   the aspect ratio the application had to within the rounding.  A frame that is scaled
   fits in width, too, and is even; one that is sent as it is (its height came out as it
   was) is over the limit in width by less than a line's share.  A frame whose aspect
   ratio leaves room for 360 columns at the height limit has them. *)
FramesFit ==
    frame # None =>
        LET size == frame.size
            of == frame.of
            skew == size.width * of.height - size.height * of.width
        IN /\ size # of => size.width <= RoundUpToEven(limits.width) /\ size.width % 2 = 0
           /\ size = of => size.width * (size.height - 1) < (limits.width + 1) * size.height
           /\ size.height <= RoundUpToEven(limits.height) /\ size.height % 2 = 0
           /\ info = None \/ info.targetBitrate <= maxBitsPerSecond =>
                 size.width <= 1282 /\ size.height <= 720 /\ limits.fps = 30
           /\ skew < 2 * of.width + of.height /\ -skew < of.width + of.height
           /\ /\ limits.width >= 3 * minFrameDimension
              /\ of.width * limits.height >= minFrameDimension * of.height
              => size.width >= minFrameDimension

(* What the comments of VideoCapturer::sendVideo say of every frame: a minimum of 360 on
   the smaller side (VideoCapturer.cpp:120), the width capped (136), an even size (142). *)
FramesAsCommented ==
    frame # None =>
        /\ frame.size.width >= minFrameDimension /\ frame.size.height >= minFrameDimension
        /\ frame.size.width <= RoundUpToEven(limits.width)
        /\ frame.size.width % 2 = 0 /\ frame.size.height % 2 = 0

(* However the frames come, and whichever of them are dropped on the way, those
   handed on within one broadcast are at least the limit apart. *)
FramesApart ==
    [][frame # None /\ frame' \notin {None, frame} =>
          frame'.timestamp - frame.timestamp >= interFrameLimit]_vars

(* rtpFragmentize writes no further than the buffer goes, in whatever order frames
   of different sizes, failures and new initializations come, and its fragments
   are the NAL units, in order, between start codes of four bytes. *)
FragmentsFit ==
    encodedImage # Nil =>
        LET f == encodedImage.fragments
            nals == encodedImage.nals
            Ends(k) == f[k].offset + f[k].length
        IN /\ encodedImage.length <= bufferSize
           /\ \A k \in DOMAIN nals :
                 /\ f[k].length + startCode(nals[k]) = nals[k].payload
                 /\ f[k].offset = (IF k = 1 THEN 0 ELSE Ends(k - 1)) + 4
           /\ Ends(Len(nals)) = encodedImage.length

(* x264 encodes at the rate the encoder has chosen, whether the choice or the encoder
   came first, unless x264 has refused a change. *)
EncoderRate == encoder # Nil /\ ~reconfigFailed => encoder.fps = targetFps
=============================================================================
