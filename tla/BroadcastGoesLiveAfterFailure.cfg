SPECIFICATION Spec
CONSTANTS
    c1 = c1
    c2 = c2
    Capturers <- MCCapturers
    MaxFailures <- MCMaxFailures
PROPERTY FailedToStartNeverLive
CHECK_DEADLOCK FALSE
