SPECIFICATION FairSpec
CONSTANTS
    c1 = c1
    c2 = c2
    w1 = w1
    w2 = w2
    Contacts <- MCOneContact
    Workers <- MCWorkers
    NRows = 2
    BatchSize = 2
    MaxAttempts = 2
    Backoff <- MCBackoff
    Holds <- MCNow
    TokenDelay = 1
    Kinds = {"reply", "contact_token"}
    Faults = {"claim", "db", "crash"}
INVARIANTS OneClaimPerRow BoundedSends
PROPERTIES ActionsOnce EveryRowSettles
