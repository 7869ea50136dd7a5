-------------------------------- MODULE Worker --------------------------------
(* The long-lived `janet` that checks buffers. On one side the worker, which   *)
(* asks, waits, kills and remembers what hung; on the other `check.janet`,     *)
(* which keeps imported modules loaded from one request to the next and drops  *)
(* those whose files changed, with their importers.                            *)
(*                                                                             *)
(* What a module holds is the set of <<file, text>> pairs it was loaded from:  *)
(* its own, those of what it imports, and those of the program it runs in.     *)
EXTENDS Integers, Sequences, FiniteSets, FiniteSetsExt, Functions, SequencesExt

CONSTANTS
    File,           \* modules and programs on disk
    Text,           \* what they may say
    Says,           \* what each may say
    Buffer,         \* what the checked buffer may say
    Imports,        \* the files a text imports, in order
    Setting,        \* what else a request carries: [ambient, program]
    Installed,      \* the files found on the syspath or by a custom loader
    None,           \* no file, no request, nothing
    MaxWrites,      \* bound: times a file is written
    MaxTime,        \* bound: seconds
    MaxFailures     \* bound: processes that exit by themselves, replies that are errors

Request == [text : Buffer, setting : Setting]

\* What `check/fingerprint` returns of a file that is there, and the key of a program.
FilePrint == [second : Nat, text : Text \cup {None}]
Key       == [paths : Seq(File), fingerprints : Seq(FilePrint \cup {None})]

ASSUME WorkerAssumption ==
    /\ Says \in [File -> SUBSET Text]
    /\ Imports \in [Text \cup Buffer -> Seq(File)]
    /\ \A s \in Setting : s.program \in Seq(File)
    /\ None \notin File \cup Text /\ None \notin Request
    /\ Installed \subseteq File
    /\ None \notin FilePrint /\ None \notin Key /\ None \notin Nat
    /\ MaxWrites \in Nat /\ MaxTime \in Nat \ 0..1 /\ MaxFailures \in Nat

VARIABLES
    disk,       \* what each file says, since when, by which write
    writes,     \* how many writes there were
    now,        \* the second it is
    asked,      \* the request `check` waits on, or None
    hung,       \* the last check that did not finish and what it read, or NoHung
    answer,     \* what the last `check` returned, while none is under way
    names,      \* the text whose macros' names were last reported, for each file
    process,    \* "none", "running" or "exited"
    stdin,      \* requests the process has not read
    stdout,     \* replies the worker has not read
    held,       \* what the process keeps between requests
    run,        \* where it is in one
    since,      \* history: what each file said while the last request was waited for
    began,      \* history: the disk when the request that is waited for was sent
    gaveUp,     \* history: the disk when what `hung` is about was sent, and given up
    missed,     \* history: what was loaded that no fingerprint tells from what is there
    lost,       \* history: files whose names went with a reply that was an error
    failures

rust    == <<asked, hung, answer, names>>
pipes   == <<process, stdin, stdout>>
script  == <<held, run>>
history == <<since, began, gaveUp, missed, lost>>
vars    == <<disk, writes, now, rust, pipes, script, history, failures>>

Empty  == [x \in {} |-> x]
NoHung == [request |-> None, inputs |-> Empty]

NoneGivenUp == [request |-> None, began |-> Empty, disk |-> Empty]

\* A process that has just started.
Fresh ==
    [cache |-> Empty, fingerprints |-> Empty, importers |-> [f \in File |-> {}],
     key |-> None, program |-> {}, ambient |-> None]

Waiting == [phase |-> "waiting", request |-> None, todo |-> <<>>, stack |-> <<>>]

-----------------------------------------------------------------------------
(* The disk. *)

NoFile == [text |-> None, second |-> 0, stamp |-> 0]

IsThere(f) == disk[f] # NoFile

\* Modules loaded and not noted yet, which `remember-loaded` looks at.
Unnoted == {f \in DOMAIN held.cache \ DOMAIN held.fingerprints : IsThere(f)}

\* The modules being loaded, which may not be asked for again.
Loading == {run.stack[i].file : i \in 2..Len(run.stack)}

\* A fingerprint is taken after a module is loaded, and before a file of the program
\* is: what is written between the two is told by none.
MissedBy(f, text) ==
    (IF f \in Unnoted \cup Loading THEN {<<f, disk[f].text>>} ELSE {})
        \cup (IF run.phase = "loading" /\ f \in Range(held.key.paths) THEN {<<f, text>>} ELSE {})

\* A file is saved, created or deleted.
Write(f, text) ==
    /\ writes < MaxWrites
    /\ text # disk[f].text
    /\ writes' = writes + 1
    /\ disk' = [disk EXCEPT ![f] = IF text = None THEN NoFile
                                   ELSE [text |-> text, second |-> now, stamp |-> writes']]
    /\ since' = IF asked = None THEN since ELSE [since EXCEPT ![f] = @ \cup {text}]
    /\ missed' = missed \cup MissedBy(f, text)
    /\ UNCHANGED <<now, rust, began, gaveUp, lost, pipes, script, failures>>

Tick ==
    /\ now < MaxTime
    /\ now' = now + 1
    /\ UNCHANGED <<disk, writes, rust, pipes, script, history, failures>>

-----------------------------------------------------------------------------
(* Worker::check. *)

\* The files a walk along imports meets from `starts`, read from disk. Those found
\* on the syspath or by a custom loader do not resolve without Janet.
Follow(starts) ==
    {f \in File : \A S \in SUBSET File :
        (/\ starts \subseteq S
         /\ \A g \in S : IsThere(g) => Range(Imports[disk[g].text]) \ Installed \subseteq S) => f \in S}

Starts(request) == (Range(Imports[request.text]) \ Installed) \cup Range(request.setting.program)

InputsNamed(request) == [f \in Starts(request) |-> IF IsThere(f) THEN disk[f].stamp ELSE None]

\* The files a check reads, as far as they resolve, each with when it was modified.
Inputs(request) == [f \in Follow(Starts(request)) |-> IF IsThere(f) THEN disk[f].stamp ELSE None]

Answer(kind, replied, read) ==
    [request |-> asked, kind |-> kind, replied |-> replied, read |-> read]

\* The same request over the same files fails at once; any other is sent.
Ask(request) ==
    /\ asked = None
    /\ IF hung.request = request /\ hung.inputs = Inputs(request)
       THEN /\ answer' = [request |-> request, kind |-> "refused", replied |-> request, read |-> {}]
            /\ UNCHANGED <<asked, hung, names, pipes, script, history>>
       ELSE /\ asked' = request
            /\ hung' = NoHung
            /\ answer' = None
            /\ since' = [f \in File |-> {disk[f].text}]
            /\ began' = disk
            /\ gaveUp' = NoneGivenUp
            /\ missed' = IF process = "none" THEN {} ELSE missed
            /\ stdin' = Append(stdin, request)
            /\ process' = IF process = "none" THEN "running" ELSE process
            /\ UNCHANGED <<names, stdout, script, lost>>
    /\ UNCHANGED <<disk, writes, now, failures>>

\* The process is dropped, and killed with it: its pipes and all it held go.
Dropped ==
    /\ process' = "none"
    /\ stdin' = <<>> /\ stdout' = <<>>
    /\ held' = Fresh /\ run' = Waiting

Kept == UNCHANGED <<pipes, script>>

\* A reply that is an error, or that cannot be decoded, fails the check, and the
\* process is kept.
Receive ==
    /\ asked # None
    /\ stdout # <<>>
    /\ LET reply == Head(stdout) IN
        /\ answer' = Answer(IF reply.error THEN "failed" ELSE "report", reply.request, reply.read)
        /\ names' = [f \in File |-> IF f \in DOMAIN reply.names THEN reply.names[f] ELSE names[f]]
    /\ asked' = None
    /\ began' = None
    /\ stdout' = Tail(stdout)
    /\ UNCHANGED <<disk, writes, now, hung, since, gaveUp, missed, lost, process, stdin, script, failures>>

\* The reply does not come in time. What the check read is looked at only now.
GiveUp ==
    /\ asked # None
    /\ answer' = Answer("timed out", asked, {})
    /\ asked' = None
    /\ hung' = [request |-> asked, inputs |-> Inputs(asked)]
    /\ gaveUp' = [request |-> asked, began |-> began, disk |-> disk]
    /\ began' = None
    /\ UNCHANGED <<disk, writes, now, names, since, missed, lost, failures>>

TimeOutKeeping == GiveUp /\ Kept

TimeOut == GiveUp /\ Dropped

\* The request cannot be written, or stdout ends before the reply.
Fail ==
    /\ asked # None
    /\ process = "exited" /\ stdout = <<>>
    /\ answer' = Answer("failed", asked, {})
    /\ asked' = None
    /\ began' = None
    /\ Dropped
    /\ UNCHANGED <<disk, writes, now, hung, names, since, gaveUp, missed, lost, failures>>

\* `janet` crashes, or what it checks ends it.
Exit ==
    /\ process = "running"
    /\ failures < MaxFailures
    /\ process' = "exited"
    /\ held' = Fresh /\ run' = Waiting
    /\ failures' = failures + 1
    /\ UNCHANGED <<disk, writes, now, rust, stdin, stdout, history>>

-----------------------------------------------------------------------------
(* check.janet: its module cache. *)

FingerprintByTime(f) == [second |-> disk[f].second, text |-> None]

\* When a file was modified, in seconds; and its contents, while they could
\* change again within that second. (Its size shows less: say all are as long.)
Fingerprint(f) ==
    IF ~IsThere(f) THEN None
    ELSE [second |-> disk[f].second, text |-> IF disk[f].second >= now - 1 THEN disk[f].text ELSE None]

UnloadedAlone(h, changed) == changed

\* What `check/unload` visits: the importers of a module as long as it is loaded.
Unloaded(h, changed) ==
    {f \in File : \A S \in SUBSET File :
        (changed \subseteq S /\ \A g \in S \cap DOMAIN h.cache : h.importers[g] \subseteq S) => f \in S}

\* unload-changed: without the modules whose fingerprints are no longer theirs.
Current(h) ==
    LET changed == {f \in DOMAIN h.fingerprints : h.fingerprints[f] # Fingerprint(f)}
        dropped == Unloaded(h, changed)
    IN  [h EXCEPT !.cache = Restrict(@, DOMAIN @ \ dropped),
                  !.fingerprints = Restrict(@, DOMAIN @ \ dropped)]

\* remember-loaded, as far as it came.
Noting(files) ==
    [held EXCEPT !.fingerprints = [f \in DOMAIN @ \cup files |->
                                      IF f \in files THEN Fingerprint(f) ELSE @[f]]]

-----------------------------------------------------------------------------
(* check.janet: a request. The stack is that of the files running: the one at *)
(* the bottom is the buffer or a program file, those above it are modules.    *)

Frame(f, text, own) == [file |-> f, left |-> Imports[text], seen |-> own]

Checking(request) ==
    [phase |-> "checking", request |-> request, todo |-> <<>>,
     stack |-> <<Frame(None, request.text, {})>>]

Cleared(h) == [h EXCEPT !.cache = Empty, !.fingerprints = Empty]

\* A request arrives. Other ambient names clear the cache; a program that is
\* another or has changed is loaded again, and every module with it.
Read ==
    /\ process = "running" /\ run = Waiting
    /\ stdin # <<>>
    /\ stdin' = Tail(stdin)
    /\ LET request == Head(stdin)
           paths   == request.setting.program
           ambient == request.setting.ambient
           h       == IF held.ambient = ambient THEN held
                      ELSE [Cleared(held) EXCEPT !.ambient = ambient, !.key = None]
           key     == [paths |-> paths, fingerprints |-> [i \in DOMAIN paths |-> Fingerprint(paths[i])]]
       IN  IF h.key = key
           THEN /\ held' = Current(h)
                /\ run' = Checking(request)
                /\ missed' = missed
           ELSE /\ held' = [Cleared(h) EXCEPT !.key = key, !.program = {}]
                /\ run' = [phase |-> "loading", request |-> request, todo |-> paths, stack |-> <<>>]
                /\ missed' = {}
    /\ UNCHANGED <<disk, writes, now, rust, process, stdout, since, began, gaveUp, lost, failures>>

Error == [request |-> asked, error |-> TRUE, read |-> {}, names |-> Empty]

\* The root of the project is not there to work in: the reply is an error.
ReadFails ==
    /\ process = "running" /\ run = Waiting
    /\ stdin # <<>>
    /\ failures < MaxFailures
    /\ stdin' = Tail(stdin)
    /\ stdout' = Append(stdout, [Error EXCEPT !.request = Head(stdin)])
    /\ failures' = failures + 1
    /\ UNCHANGED <<disk, writes, now, rust, process, script, history>>

\* The next file of the program runs, if it is there.
BeginProgram ==
    /\ run.phase = "loading" /\ run.stack = <<>> /\ run.todo # <<>>
    /\ LET f == Head(run.todo) IN
        run' = [run EXCEPT
                    !.todo = Tail(@),
                    !.stack = IF IsThere(f) THEN <<Frame(f, disk[f].text, {<<f, disk[f].text>>})>>
                              ELSE <<>>]
    /\ UNCHANGED <<disk, writes, now, rust, pipes, held, history, failures>>

\* What it imported is not in the key.
EndProgram ==
    /\ run.phase = "loading" /\ Len(run.stack) = 1 /\ run.stack[1].left = <<>>
    /\ held' = [held EXCEPT !.program = @ \cup run.stack[1].seen]
    /\ run' = [run EXCEPT !.stack = <<>>]
    /\ missed' = missed \cup {pair \in run.stack[1].seen : pair[1] \notin Range(held.key.paths)}
    /\ UNCHANGED <<disk, writes, now, rust, pipes, since, began, gaveUp, lost, failures>>

\* The program is there: what changed is unloaded, and the buffer runs.
BeginBuffer ==
    /\ run.phase = "loading" /\ run.stack = <<>> /\ run.todo = <<>>
    /\ held' = Current(held)
    /\ run' = Checking(run.request)
    /\ UNCHANGED <<disk, writes, now, rust, pipes, history, failures>>

Top == Last(run.stack)

Importing(m) == Len(run.stack) > 0 /\ Top.left # <<>> /\ m = Head(Top.left)

\* The import at the head of a frame is done, having brought `pairs`.
Imported(frame, pairs) == [frame EXCEPT !.left = Tail(@), !.seen = @ \cup pairs]

\* note-import: `require` asks where the module is even when it is loaded.
Noted(m) ==
    IF IsThere(m) /\ Top.file # None THEN [held.importers EXCEPT ![m] = @ \cup {Top.file}]
    ELSE held.importers

ImportLoaded(m) ==
    /\ Importing(m) /\ IsThere(m) /\ m \in DOMAIN held.cache
    /\ run' = [run EXCEPT !.stack[Len(run.stack)] = Imported(@, held.cache[m])]
    /\ held' = [held EXCEPT !.importers = Noted(m)]
    /\ UNCHANGED <<disk, writes, now, rust, pipes, history, failures>>

BeginModule(m) ==
    /\ Importing(m) /\ IsThere(m) /\ m \notin DOMAIN held.cache \cup Loading
    /\ run' = [run EXCEPT !.stack = Append(@, Frame(m, disk[m].text, {<<m, disk[m].text>>}))]
    /\ held' = [held EXCEPT !.importers = Noted(m)]
    /\ UNCHANGED <<disk, writes, now, rust, pipes, history, failures>>

\* A module that is not there, or is being loaded, fails all that is running but
\* the bottom: a buffer goes on with its next form, a program file ends.
ImportFails(m) ==
    /\ Importing(m)
    /\ ~IsThere(m) \/ m \in Loading \ DOMAIN held.cache
    /\ LET bottom == run.stack[1]
           left   == IF run.phase = "checking" THEN Tail(bottom.left) ELSE <<>>
       IN  run' = [run EXCEPT !.stack = <<[bottom EXCEPT !.left = left]>>]
    /\ held' = [held EXCEPT !.importers = Noted(m)]
    /\ UNCHANGED <<disk, writes, now, rust, pipes, history, failures>>

\* A module ran: it sees the program as far as that has run.
EndModule ==
    /\ Len(run.stack) > 1 /\ Top.left = <<>>
    /\ LET program == held.program \cup (IF run.phase = "loading" THEN run.stack[1].seen ELSE {})
           module  == Top.seen \cup program
           below   == Front(run.stack)
       IN  /\ held' = [held EXCEPT !.cache = [f \in DOMAIN @ \cup {Top.file} |->
                                                 IF f = Top.file THEN module ELSE @[f]]]
           /\ run' = [run EXCEPT !.stack = [below EXCEPT ![Len(below)] = Imported(@, module)]]
    /\ UNCHANGED <<disk, writes, now, rust, pipes, history, failures>>

Done == run.phase = "checking" /\ Len(run.stack) = 1 /\ Top.left = <<>>

Reply ==
    /\ Done
    /\ held' = Noting(Unnoted)
    /\ stdout' = Append(stdout, [request |-> run.request, error |-> FALSE, read |-> Top.seen,
                                 names |-> [f \in Unnoted |-> disk[f].text]])
    /\ run' = Waiting
    /\ lost' = lost \ Unnoted
    /\ UNCHANGED <<disk, writes, now, rust, process, stdin, since, began, gaveUp, missed, failures>>

\* Something between the check and the end of its reply fails, when some of the
\* modules are noted: `error` comes instead, and the names they bind with nothing.
ReplyFails ==
    /\ Done
    /\ failures < MaxFailures
    /\ \E files \in SUBSET Unnoted :
        /\ held' = Noting(files)
        /\ lost' = lost \cup files
    /\ stdout' = Append(stdout, [Error EXCEPT !.request = run.request])
    /\ run' = Waiting
    /\ failures' = failures + 1
    /\ UNCHANGED <<disk, writes, now, rust, process, stdin, since, began, gaveUp, missed>>

-----------------------------------------------------------------------------

Init ==
    /\ disk \in [File -> [text : Text, second : {0}, stamp : {0}] \cup {NoFile}]
    /\ \A f \in File : disk[f].text \in Says[f] \cup {None}
    /\ writes = 0
    /\ now = 2
    /\ asked = None /\ hung = NoHung /\ answer = None
    /\ names = [f \in File |-> None]
    /\ process = "none" /\ stdin = <<>> /\ stdout = <<>>
    /\ held = Fresh /\ run = Waiting
    /\ since = [f \in File |-> {disk[f].text}]
    /\ began = None /\ gaveUp = NoneGivenUp
    /\ missed = {} /\ lost = {}
    /\ failures = 0

Outside == Tick \/ Exit \/ \E f \in File : \E text \in Says[f] \cup {None} : Write(f, text)

Checks == Receive \/ TimeOut \/ Fail \/ \E request \in Request : Ask(request)

Script ==
    \/ Read \/ ReadFails \/ BeginProgram \/ EndProgram \/ BeginBuffer
    \/ EndModule \/ Reply \/ ReplyFails
    \/ \E m \in File : ImportLoaded(m) \/ BeginModule(m) \/ ImportFails(m)

Next == Outside \/ Checks \/ Script

Spec == Init /\ [][Next]_vars

-----------------------------------------------------------------------------
(* What is to hold. *)

Pair == File \X Text

\* The types of the worker and its process, which holds nothing while it is not
\* there, and has no module loaded that is still loading.
TypeOK ==
    /\ disk \in [File -> [text : Text \cup {None}, second : 0..MaxTime, stamp : 0..MaxWrites]]
    /\ asked \in Request \cup {None}
    /\ hung.request \in Request \cup {None} /\ DOMAIN hung.inputs \subseteq File
    /\ names \in [File -> Text \cup {None}]
    /\ process \in {"none", "running", "exited"}
    /\ process # "running" => held = Fresh /\ run = Waiting
    /\ held.cache \in [DOMAIN held.cache -> SUBSET Pair]
    /\ DOMAIN held.cache \subseteq File /\ DOMAIN held.fingerprints \subseteq DOMAIN held.cache
    /\ held.importers \in [File -> SUBSET File]
    /\ run.phase \in {"waiting", "loading", "checking"}
    /\ Loading \cap DOMAIN held.cache = {}
    /\ Len(stdin) + Len(stdout) <= 1

\* A report is about files as they were during the check: every module it used,
\* kept from whichever request, says what its file said since this one was made;
\* but for what no fingerprint tells.
ReadFromDisk ==
    answer # None => \A pair \in answer.read \ missed : pair[2] \in since[pair[1]]

\* A reply is taken for the request it is to, whatever timed out before.
AnswersMatch == answer # None => answer.replied = answer.request

\* Names that macros of a loaded module bind are reported once, and not lost: they
\* are those of the text it was loaded from, but for one written before it was noted,
\* and unless the reply they went with was an error.
NamesKnown ==
    asked = None /\ process = "running" =>
        \A f \in DOMAIN held.fingerprints \ lost :
            \E text \in Text : /\ <<f, text>> \in held.cache[f]
                               /\ text = names[f] \/ <<f, text>> \in missed

\* What the server makes of a check is of that check and of the files there are.
CheckedFromDisk == ReadFromDisk /\ AnswersMatch /\ NamesKnown

Refusing == answer' \notin {answer, None} /\ answer'.kind = "refused"

\* A check is refused only over what it hung on: the request is the last that was
\* given up, and nothing its imports lead to has been written since.
RefusedUnchanged ==
    [][Refusing =>
        /\ answer'.request = gaveUp.request
        /\ \A f \in Follow(Starts(answer'.request)) : disk[f] = gaveUp.disk[f]]_vars

-----------------------------------------------------------------------------
(* What the code says of itself. *)

\* "the same request over unchanged files fails at once": nothing it reads has been
\* written since the check that hung was sent.
RefusedOverSame ==
    [][Refusing => \A f \in Follow(Starts(answer'.request)) : disk[f] = gaveUp.began[f]]_vars

\* A module whose file changed is loaded again, with its importers: what a check uses
\* is what its files said since the request, always.
AllFromDisk == answer # None => \A pair \in answer.read : pair[2] \in since[pair[1]]
=============================================================================
