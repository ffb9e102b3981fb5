SPECIFICATION Spec
CONSTANTS
    c1 = c1
    c2 = c2
    w1 = w1
    w2 = w2
    Contacts <- MCOneContact
    Workers <- MCOneWorker
    NRows = 3
    BatchSize = 2
    MaxAttempts = 2
    Backoff <- MCBackoff
    Holds <- MCNowOrHeld
    TokenDelay = 1
    Kinds = {"reply", "contact_token"}
    Faults = {"stop"}
SYMMETRY Symmetry
INVARIANTS NoOvertaking NoneStranded
PROPERTIES FifoSpec
