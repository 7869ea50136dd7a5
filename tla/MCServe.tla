------------------------------ MODULE MCServe ------------------------------
(* Two threads of the server on small instances, for TLC: the message loop  *)
(* (Serve.tla) and the checking thread (Checker.tla). They are checked side  *)
(* by side, a behaviour is of one or the other; LanguageServer.tla puts them *)
(* together.                                                                 *)
EXTENDS Serve

CONSTANTS a, b, clean, failed, MaxVersion, MaxJobs

VARIABLES
    part,       \* "loop" or "checker"
    jobs, pending, phase, checked, latest

checkerVars == <<jobs, pending, phase, checked, latest>>

MCJob == [uri : {a, b}, version : 1 .. MaxVersion]

C == INSTANCE Checker WITH
        Uri <- {a, b}, Job <- MCJob, Report <- {clean, failed}, results <- checked

ASSUME C!CheckerAssumption

MCInit == part \in {"loop", "checker"} /\ Init /\ C!Init

MCNext ==
    \/ part = "loop" /\ Next /\ UNCHANGED <<part, checkerVars>>
    \/ part = "checker" /\ C!Next /\ UNCHANGED <<part, vars>>
    \/ part = "checker" /\ C!Resting /\ UNCHANGED <<part, vars, checkerVars>>

\* The thread whose behaviour it is, is scheduled fairly; the other stands still.
MCSpec ==
    /\ MCInit /\ [][MCNext]_<<part, vars, checkerVars>>
    /\ part = "loop" => Fairness
    /\ part = "checker" => C!Fairness

Promised == C!Promised
=============================================================================
