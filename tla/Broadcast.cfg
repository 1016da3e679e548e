SPECIFICATION Spec
CONSTANTS
    c1 = c1
    c2 = c2
    Capturers <- MCCapturers
    MaxFailures <- MCMaxFailures
INVARIANTS
    TypeOK
    Coherent
    LiveIsReady
    ScreenshotSetOnce
    NoSilentExit
    StopSignalsServer
PROPERTIES
    StopIsFinal
    QuietAfterStop
    StopReturns
    LiveOrEnds
    ImplementsContract
CHECK_DEADLOCK FALSE
