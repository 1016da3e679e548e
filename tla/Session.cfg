SPECIFICATION Spec
CONSTANTS
    alice = alice
    bob = bob
    None = None
    Threads <- MCThreads
    Accounts <- MCAccounts
    numRetries <- MCNumRetries
    MaxRefused <- MCMaxRefused
INVARIANTS
    TypeOK
    CredentialsOutliveRequests
    SessionIsWhole
    AllowedToBroadcast
PROPERTIES
    RequestsReturn
CHECK_DEADLOCK FALSE
