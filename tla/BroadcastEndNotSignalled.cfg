SPECIFICATION Spec
CONSTANTS
    c1 = c1
    c2 = c2
    Capturers <- MCCapturers
    MaxFailures <- MCMaxFailures
INVARIANT EndSignalsServer
CHECK_DEADLOCK FALSE
