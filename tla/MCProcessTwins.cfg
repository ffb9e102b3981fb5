SPECIFICATION Spec
CONSTANTS
    Absent = Absent
    Broken = Broken
    r1 = r1
    r2 = r2
    p1 = p1
    ReplyField = "reply"
    TokenField = "token"
    Env <- MCEnv
    Plugins = {"read"}
    Start <- MCStart
    Edits <- TwinEdits
    Versions = {"v1", "v2"}
    Slots = {r1, r2}
    Routes = {"message", "plugin"}
    Transcribes = TRUE
    Splits = TRUE
    SeesImages = TRUE
    HasFallback = TRUE
    RateLimit = 2
    DailyCap = 2
    Bounds <- MCBounds
    ana = ana
    bea = bea
    Subscribers = {ana, bea}
    Channels = {"whatsapp", "instagram"}
    Processes = {p1}
    Self = p1
    Contacts = {1, 2, 3, 4}
    Movers = {2}
    Beginnings <- MCBeginnings
    MIN_PER_SIDE = 1
    MAX_PER_SIDE = 2
    MAX_PROPOSALS_PER_RUN = 1
    OutputCost = 1
    MaxRunCost = 3
    Outputs <- MCOutputs
INVARIANT ServedIsSound
