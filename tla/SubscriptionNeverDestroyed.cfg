SPECIFICATION Spec
CONSTANTS
    Subs <- MCSubs
    Conns <- MCConns
    None <- MCNone
    MaxDisruptions <- MCMaxDisruptions
PROPERTY EventuallyDestroyed
CHECK_DEADLOCK FALSE
