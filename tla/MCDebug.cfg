SPECIFICATION MCSpec
CONSTANTS
    None = None
    main = main
    task = task
    Main = main
    Task = {task}
    MaxRequests = 4
    MaxStops = 2
    Cancelling = FALSE
CHECK_DEADLOCK FALSE
INVARIANTS
    TypeOK
    AnsweredOnce
    InStep
PROPERTIES
    BreakpointsFirst
    AllAnswered
