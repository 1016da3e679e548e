SPECIFICATION Spec
CONSTANTS
    a1 = a1
    a2 = a2
    w = w
    App <- MCApp
    worker <- w
    Broadcasts <- MCBroadcasts
    None <- MCNone
    MaxTasks <- MCMaxTasks
INVARIANT FailureEndsOwnBroadcast
