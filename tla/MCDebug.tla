-------------------------------- MODULE MCDebug --------------------------------
(* Debug.tla on a small instance, for TLC: a program and a task. *)
EXTENDS Debug, TLC

CONSTANTS
    main, task,
    Cancelling  \* whether fibers are cancelled while their stop is served

\* The last request of all is made in a launched session with breakpoints only.
LastConfigured ==
    sent' = MaxRequests /\ sent' # sent =>
        mode = "launch" /\ breakpoints # 0 /\ Last(asked').kind # "breakpoints"

MCNext ==
    /\ Next
    /\ LastConfigured
    /\ Cancelling \/ Uncancelled

MCSpec == Init /\ [][MCNext]_vars /\ Fairness
=============================================================================
