SPECIFICATION FairTyping
CONSTANTS
    module = module
    main = main
    good = good
    bad = bad
    Uri = {module, main}
    Text = {good, bad}
    NoText = NoText
    NoNote = NoNote
    Reads <- MCReads
    Faulty = {bad}
    Broken = {}
    CoreSource = {}
    FreshVersions = TRUE
    JanetFails = FALSE
    Settings = {"hint"}
    MaxVersion = 2
    MaxRequests = 0
    MaxNotes = 3
    MaxWaiting = 2
    MaxResults = 0
    Files = 0
PROPERTIES
    Settles
