SPECIFICATION Spec
CONSTANTS
    Subs <- MCSubs
    Conns <- MCConns
    None <- MCNone
    MaxDisruptions <- MCMaxDisruptions
INVARIANT DestroyedByDetachedThread
CHECK_DEADLOCK FALSE
