------------------------------ MODULE Checker ------------------------------
(***************************************************************************)
(* The checking thread of the language server: `Checker::check`,           *)
(* `check_queued` and `coalesce` of janet-lsp-plus/src/lsp/diagnostics.rs. *)
(* Checking itself, which runs the user's `janet`, is one step: it comes   *)
(* back with a report, of a failure, a timeout or a panic too.             *)
(***************************************************************************)
EXTENDS Integers, Sequences, SequencesExt

CONSTANTS
    Uri,         \* the buffers
    Job,         \* what a check takes: at least its `uri` and `version`
    Report,      \* what Janet may make of it
    MaxVersion,  \* bound: the versions of a buffer
    MaxJobs      \* bound: jobs and results waiting on the two channels

CheckerAssumption ==
    /\ \A job \in Job : job.uri \in Uri /\ job.version \in 1 .. MaxVersion
    /\ MaxVersion \in Nat

VARIABLES
    jobs,        \* the channel from the server
    pending,     \* `pending` of coalesce, then the batch being checked
    phase,       \* where the thread stands
    results      \* the channel to the server

checkerVars == <<jobs, pending, phase, results>>

Checks == [uri : Uri, version : 1 .. MaxVersion, report : Report]

CheckerTypeOK ==
    /\ jobs \in Seq(Job)
    /\ pending \in Seq(Job)
    /\ phase \in {"idle", "gathering", "checking"}
    /\ phase = "idle" <=> pending = <<>>
    /\ results \in Seq(Checks)

CheckerInit == jobs = <<>> /\ pending = <<>> /\ phase = "idle" /\ results = <<>>

-----------------------------------------------------------------------------
\* `Checker::check`, for each job of `batch` in order: the channel is unbounded.
Submit(batch) == jobs' = jobs \o batch

\* `queue.recv`: the thread wakes for the first job.
TakeFirst ==
    /\ phase = "idle"
    /\ jobs # <<>>
    /\ pending' = <<Head(jobs)>>
    /\ jobs' = Tail(jobs)
    /\ phase' = "gathering"
    /\ UNCHANGED results

\* Mutants of Gather: all jobs of a buffer are kept, or its first one.
GatherAll ==
    /\ phase = "gathering"
    /\ jobs # <<>>
    /\ pending' = Append(pending, Head(jobs))
    /\ jobs' = Tail(jobs)
    /\ UNCHANGED <<phase, results>>

GatherFirst ==
    /\ phase = "gathering"
    /\ jobs # <<>>
    /\ pending' = IF \E i \in DOMAIN pending : pending[i].uri = Head(jobs).uri
                  THEN pending ELSE Append(pending, Head(jobs))
    /\ jobs' = Tail(jobs)
    /\ UNCHANGED <<phase, results>>

\* `coalesce`: while jobs arrive, the latest of each buffer is kept, last.  One job
\* of a buffer at most is there to be dropped.
Gather ==
    /\ phase = "gathering"
    /\ jobs # <<>>
    /\ LET job == Head(jobs)
           Same(queued) == queued.uri = job.uri
       IN pending' = Append(RemoveFirstMatch(pending, Same), job)
    /\ jobs' = Tail(jobs)
    /\ UNCHANGED <<phase, results>>

\* No job for a moment, or none left once the longest delay is over (a job that
\* is there is received even then): the buffer queued last is checked first.
Settle ==
    /\ phase = "gathering"
    /\ jobs = <<>>
    /\ pending' = Reverse(pending)
    /\ phase' = "checking"
    /\ UNCHANGED <<jobs, results>>

\* Mutant of CheckOne: the thread waits again after the first of a batch.
CheckFirst(report) ==
    /\ phase = "checking"
    /\ pending # <<>>
    /\ results' = Append(results,
           [uri |-> Head(pending).uri, version |-> Head(pending).version, report |-> report])
    /\ pending' = Tail(pending)
    /\ phase' = "idle"
    /\ UNCHANGED jobs

\* Mutant of CheckOne: the channel to the server holds one report, and is waited for.
CheckBlocking(report) ==
    /\ phase = "checking"
    /\ pending # <<>>
    /\ results = <<>>
    /\ results' = Append(results,
           [uri |-> Head(pending).uri, version |-> Head(pending).version, report |-> report])
    /\ pending' = Tail(pending)
    /\ phase' = IF Len(pending) = 1 THEN "idle" ELSE "checking"
    /\ UNCHANGED jobs

\* One buffer is checked, and the report sent with the version it is about.
CheckOne(report) ==
    /\ phase = "checking"
    /\ pending # <<>>
    /\ results' = Append(results,
           [uri |-> Head(pending).uri, version |-> Head(pending).version, report |-> report])
    /\ pending' = Tail(pending)
    /\ phase' = IF Len(pending) = 1 THEN "idle" ELSE "checking"
    /\ UNCHANGED jobs

-----------------------------------------------------------------------------
(* The thread on its own: a server that queues jobs of the same or a later  *)
(* version of its buffers, and takes what comes back.                       *)

\* The jobs of the buffer `u` in a queue.
Of(u, queue) ==
    LET of[n \in 0 .. Len(queue)] ==
            IF n = 0 THEN <<>>
            ELSE IF queue[n].uri = u THEN Append(of[n - 1], queue[n])
            ELSE of[n - 1]
    IN of[Len(queue)]

\* Everything of the buffer `u` on its way: the batch in the order it will be
\* checked in, then the channel.
InFlight(u) == Of(u, (IF phase = "gathering" THEN Reverse(pending) ELSE pending) \o jobs)

VARIABLE latest  \* by buffer, the version last queued

ServerQueues(job) ==
    /\ Len(jobs) + Len(results) < MaxJobs
    /\ job.version >= latest[job.uri]
    /\ latest' = [latest EXCEPT ![job.uri] = job.version]
    /\ Submit(<<job>>)
    /\ UNCHANGED <<pending, phase, results>>

ServerTakes ==
    /\ results # <<>>
    /\ results' = Tail(results)
    /\ UNCHANGED <<jobs, pending, phase, latest>>

Thread ==
    \/ TakeFirst \/ Gather \/ Settle
    \/ \E report \in Report : CheckOne(report)

\* There is nothing to check.
Resting == phase = "idle" /\ jobs = <<>> /\ results = <<>>

vars == <<checkerVars, latest>>

Init == CheckerInit /\ latest = [u \in Uri |-> 0]

Next ==
    \/ \E job \in Job : ServerQueues(job)
    \/ ServerTakes
    \/ Thread /\ UNCHANGED latest

Spec == Init /\ [][Next]_vars

\* The operating system runs the thread, and jobs, which come at the speed of
\* typing and of saving, are taken off the channel as fast as they come.  Then a
\* burst of edits cannot keep the thread gathering: MAX_DELAY after the first
\* job, the next time the channel is found empty ends the wait, so it cannot be
\* found empty again and again without `Settle`.
Fairness ==
    /\ []<>(jobs = <<>>)
    /\ WF_vars(Thread /\ UNCHANGED latest)
    /\ SF_vars(Settle /\ UNCHANGED latest)

FairSpec == Spec /\ Fairness

-----------------------------------------------------------------------------
(* Properties.                                                              *)

Service == INSTANCE CheckService WITH owed <- [u \in Uri |-> InFlight(u)]

\* The thread does what CheckService.tla promises, and answers in the end: jobs of
\* one buffer are answered in the order they were queued, although a batch is
\* reversed before it is checked; one is passed over only for a later one, so
\* the last is never; and none is answered twice.
Promised == Service!FairServiceSpec
=============================================================================
