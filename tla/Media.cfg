CONSTANTS
    chunkSize = 3
    MaxBuffer = 7
    MaxSamples = 7
    Sizes <- MCSizes
    Timestamps = {0, 16129, 31250, 47379}
    EncoderInfos <- MCInfos
    Nals <- MCNals
    Fps = {34, 35, 50, 51}
    MaxBroadcasts = 2
    None = None
    Nil = Nil
SPECIFICATION Spec
INVARIANTS TypeOK SamplesInOrder FramesFit FragmentsFit EncoderRate
PROPERTIES FramesApart
CHECK_DEADLOCK FALSE
