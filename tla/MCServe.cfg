SPECIFICATION MCSpec
CONSTANTS
    Note = {edit}
    NoNote = NoNote
    Checked = {check}
    MaxRequests = 2
    MaxNotes = 1
    MaxWaiting = 2
    MaxResults = 1
    Files = 1
    a = a
    b = b
    clean = clean
    failed = failed
    MaxVersion = 2
    MaxJobs = 3
INVARIANTS
    AnsweredOnce
    SeesWhatPrecedes
    InOrder
PROPERTIES
    Answered
    Promised
