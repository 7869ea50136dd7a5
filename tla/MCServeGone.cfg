SPECIFICATION MCSpec
CONSTANTS
    Note = {edit}
    NoNote = NoNote
    Checked = {check}
    MaxRequests = 1
    MaxNotes = 1
    MaxWaiting = 2
    MaxResults = 0
    Files = 1
    a = a
    b = b
    clean = clean
    failed = failed
    MaxVersion = 1
    MaxJobs = 0
PROPERTIES
    GoneStops
