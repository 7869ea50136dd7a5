---------------------------- MODULE CheckService ----------------------------
(***************************************************************************)
(* What the checking thread of janet-lsp-plus/src/lsp/diagnostics.rs       *)
(* promises the server: the jobs of one buffer come back in the order they *)
(* were queued; a job may be passed over, but never the last one.          *)
(* Checker.tla, the thread as it is written, implements this.              *)
(***************************************************************************)
EXTENDS Integers, Sequences

CONSTANTS
    Uri,     \* the buffers
    Job,     \* what a check takes: at least its `uri` and `version`
    Report   \* what Janet may make of it

VARIABLES
    owed,    \* by buffer, the jobs queued and not yet answered
    results  \* the channel the answers arrive on

serviceVars == <<owed, results>>

ServiceInit ==
    /\ owed = [u \in Uri |-> <<>>]
    /\ results = <<>>

\* The server queues a check.
Request(job) ==
    /\ owed' = [owed EXCEPT ![job.uri] = Append(@, job)]
    /\ UNCHANGED results

\* A later version of the buffer waits: this one is not checked.
Supersede(u) ==
    /\ Len(owed[u]) > 1
    /\ owed' = [owed EXCEPT ![u] = Tail(@)]
    /\ UNCHANGED results

\* The first job owed is answered, with the version it checked.
Deliver(u, report) ==
    /\ owed[u] # <<>>
    /\ owed' = [owed EXCEPT ![u] = Tail(@)]
    /\ results' = Append(results,
           [uri |-> u, version |-> Head(owed[u]).version, report |-> report])

\* The server takes an answer.
Take ==
    /\ results # <<>>
    /\ results' = Tail(results)
    /\ UNCHANGED owed

ServiceNext ==
    \/ \E job \in Job : Request(job)
    \/ \E u \in Uri : Supersede(u)
    \/ \E u \in Uri, report \in Report : Deliver(u, report)
    \/ Take

ServiceSpec == ServiceInit /\ [][ServiceNext]_serviceVars

\* Whatever is owed is answered, passed over or not.
ServiceFairness ==
    \A u \in Uri : WF_serviceVars(Supersede(u) \/ \E report \in Report : Deliver(u, report))

FairServiceSpec == ServiceSpec /\ ServiceFairness
=============================================================================
