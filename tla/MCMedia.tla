------------------------------- MODULE MCMedia -------------------------------
(* Frames of every kind of shape the limits tell apart; NAL units that fill the
   buffer of a 640 x 360 frame to the last byte and go beyond it. *)
EXTENDS Media

MCSizes ==
    {[width |-> w, height |-> h] : <<w, h>> \in
        {<<640, 360>>, <<641, 360>>, <<1, 1>>, <<1281, 428>>, <<1920, 1080>>, <<333, 999>>, <<2160, 721>>, <<4000, 1333>>}}

MCInfos ==
    {[targetBitrate |-> 2000000, framerate |-> 60, width |-> 1920, height |-> 1080],
     [targetBitrate |-> 2000001, framerate |-> 60, width |-> 1921, height |-> 1081],
     [targetBitrate |-> 2000001, framerate |-> 24, width |-> 4000, height |-> 721]}

Unencoded == CalcBufferSize(640, 360)
Nal(payload, long) == [payload |-> payload, long |-> long]
MCNals ==
    {<<>>, <<Nal(30, TRUE), Nal(5, TRUE), Nal(Unencoded - 36, FALSE)>>,
     <<Nal(30, TRUE), Nal(Unencoded - 30, FALSE)>>}
=============================================================================
