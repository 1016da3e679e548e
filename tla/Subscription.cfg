SPECIFICATION Spec
CONSTANTS
    Subs <- MCSubs
    Conns <- MCConns
    None <- MCNone
    MaxDisruptions <- MCMaxDisruptions
INVARIANTS
    TypeOK
    OneSubscription
    HandlersHoldBroadcast
PROPERTIES
    Resubscribes
    DestroyedUnlessDropped
CHECK_DEADLOCK FALSE
