CONSTANTS
    Clients <- MCClients
    Parallel = 1
    StoragePermits = 1
    MaxLogins = 5
SPECIFICATION FairSpec
CHECK_DEADLOCK FALSE
INVARIANTS
    RequestOfOneLogin
    ResentOnlyWhenUnanswered
PROPERTY
    CallsEnd
