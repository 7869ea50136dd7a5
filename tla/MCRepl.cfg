SPECIFICATION MCSpec
CONSTANTS
    None = None
    k1 = k1
    k2 = k2
    Kernel = {k1, k2}
    lsp = lsp
    app = app
    Reader = {lsp}
    Project = {app}
    ProjectOf <- MCProjectOf
    Port = {1, 2}
    Stranger = Stranger
    MaxServers = 2
    MaxCrashes = 2
    Racing = FALSE
    Sharing = FALSE
    Usurping = FALSE
    MaxRequests <- MCRequests
    MaxPrints <- MCPrints
    MaxAsks = 1
    MaxLookups = 2
CHECK_DEADLOCK FALSE
INVARIANTS
    TypeOK
    OwnServer
    RightAnswers
    OutputInOrder
PROPERTIES
    InterruptEnds
