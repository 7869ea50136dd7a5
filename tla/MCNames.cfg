SPECIFICATION Typing
CONSTANTS
    module = module
    main = main
    good = good
    bad = bad
    Uri = {module, main}
    Text = {good, bad}
    NoText = NoText
    NoNote = NoNote
    Reads <- MCReads
    Faulty = {bad}
    Broken = {}
    CoreSource = {}
    FreshVersions = TRUE
    JanetFails = FALSE
    Settings = {"hint"}
    MaxVersion = 3
    MaxRequests = 0
    MaxNotes = 4
    MaxWaiting = 2
    MaxResults = 0
    Files = 0
INVARIANTS
    SettledNames
