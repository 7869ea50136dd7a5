SPECIFICATION MCSpec
CONSTANTS
    module = module
    main = main
    good = good
    bad = bad
    Uri = {module, main}
    Text = {good, bad}
    NoText = NoText
    NoNote = NoNote
    Reads <- MCReads
    Faulty = {bad}
    Broken = {}
    CoreSource = {}
    FreshVersions = TRUE
    JanetFails = TRUE
    Settings = {"off", "hint", "strict"}
    MaxVersion = 3
    MaxRequests = 1
    MaxNotes = 4
    MaxWaiting = 2
    MaxResults = 0
    Files = 1
INVARIANTS
    TypeOK
    NoGhosts
    CheckedText
    SettledBuffers
    SettledProject
