--------------------------------- MODULE Debug ---------------------------------
(* A debug session: the editor, the adapter (janet-lsp-plus dap) and the       *)
(* driver, which runs among the fibers of the program it debugs. The adapter   *)
(* handles what reaches it one thing at a time, in the order of each sender    *)
(* and of no other: requests, the lines of the driver, the exit of the process.*)
(*                                                                             *)
(* The program is what its fibers do: run, stop, end. A stop has a number; a   *)
(* request about a stop is about the one the editor was shown when it sent it. *)
EXTENDS Integers, Sequences, FiniteSets, SequencesExt, FiniteSetsExt

CONSTANTS
    Main,           \* the fiber of the program itself
    Task,           \* the tasks of its event loop
    None,           \* no fiber
    MaxRequests,    \* bound: requests of the editor
    MaxStops        \* bound: stops of the program

Fiber == {Main} \cup Task

ASSUME DebugAssumption ==
    /\ Main \notin Task /\ None \notin Fiber
    /\ MaxRequests \in Nat /\ MaxStops \in Nat

VARIABLES
    mode,           \* "launch" or "attach"
    \* The editor.
    asked,          \* its requests on their way
    sent,           \* how many it sent
    view,           \* the stop it shows, or 0
    answers,        \* history: how often each request was answered
    \* The adapter.
    session,        \* "configuring", "starting", "running" or "gone"
    stopped,
    threads,        \* the fibers it lists
    pending,        \* requests the driver is to answer
    breakpoints,    \* the breakpoints of the editor: the request that set them
    connected,      \* whether it has the driver's connection to write to
    hears,          \* whether it reads the connection
    watching,       \* whether it waits for the exit of the program
    \* The connection.
    cmds, wire,     \* lines to the driver, and from it
    \* The driver and the program.
    process,        \* "none", "alive" or "dead"
    fiber,          \* what each fiber does: "none", "running", "halted" or "done"
    computing,      \* the fiber that computes and lets no other run, or None
    attached,       \* whether the driver reads the connection
    commands,       \* the channel of those about a stop
    wanted,         \* the breakpoints it has
    serving,        \* the fiber whose stop it serves
    number,         \* how many stops it served
    named,          \* the fibers that stopped and have not ended
    served          \* history: the last command about a stop, and the stop it was taken by

editor  == <<asked, sent, view, answers>>
adapter == <<session, stopped, threads, pending, breakpoints, connected, hears, watching>>
program == <<process, fiber, computing>>
driver  == <<attached, commands, wanted, serving, number, named, served>>
vars    == <<mode, editor, adapter, cmds, wire, program, driver>>

Id == 1..MaxRequests

\* No fiber computes: the event loop runs those that are ready, the driver's own
\* among them.  Fibers of the program may run all the same, and wait for their turn
\* or for what the loop brings.
Idle == computing = None

\* A fiber runs on: it computes already, or the loop gets to it.
Runs(f) == fiber[f] = "running" /\ computing \in {None, f}

-----------------------------------------------------------------------------
(* The editor. *)

Ask(kind) ==
    /\ sent < MaxRequests /\ session # "gone"
    /\ sent' = sent + 1
    /\ asked' = Append(asked, [id |-> sent + 1, kind |-> kind, about |-> view])
    /\ UNCHANGED <<mode, answers, adapter, cmds, wire, program, driver>>

\* It configures the session, and starts it once.
Configures ==
    /\ sent + 1 < MaxRequests
    /\ Ask("breakpoints") /\ UNCHANGED view

Starts ==
    /\ session = "configuring" /\ \A i \in DOMAIN asked : asked[i].kind # "configurationDone"
    /\ Ask("configurationDone") /\ UNCHANGED view

Started == session = "running"

\* It asks about a stop it shows, and shows it no more once it resumes.
Inspects   == Started /\ view # 0 /\ Ask("inspect") /\ UNCHANGED view
Resumes    == Started /\ view # 0 /\ Ask("resume") /\ view' = 0
Evaluates  == Started /\ Ask("evaluate") /\ UNCHANGED view
Pauses     == Started /\ view = 0 /\ Ask("pause") /\ UNCHANGED view
Terminates == Started /\ Ask("terminate") /\ UNCHANGED view
Leaves     == Ask("disconnect") /\ UNCHANGED view

Asks == Configures \/ Starts \/ Inspects \/ Resumes \/ Evaluates \/ Pauses \/ Terminates \/ Leaves

-----------------------------------------------------------------------------
(* The adapter: Session::request. *)

Request == Head(asked)

Takes(kinds) ==
    /\ session \in {"configuring", "running"}
    /\ asked # <<>> /\ Request.kind \in kinds
    /\ asked' = Tail(asked)

Answered(ids) == [id \in Id |-> answers[id] + IF id \in ids THEN 1 ELSE 0]

\* The driver has closed its end of the connection: writing to it fails, or not yet.
WriteFails == connected /\ ~attached

SetBreakpointsKept ==
    /\ Takes({"breakpoints"})
    /\ answers' = Answered({Request.id})
    /\ breakpoints' = Request.id
    /\ UNCHANGED <<mode, sent, view, session, stopped, threads, pending, connected, hears, watching,
                   cmds, wire, program, driver>>

\* They are kept until there is a driver to be told, and told it from then on.
SetBreakpoints ==
    /\ Takes({"breakpoints"})
    /\ answers' = Answered({Request.id})
    /\ \/ /\ breakpoints' = Request.id
          /\ cmds' = IF connected
                     THEN Append(cmds, [kind |-> "breakpoints", id |-> Request.id]) ELSE cmds
       \/ WriteFails /\ UNCHANGED <<breakpoints, cmds>>
    /\ UNCHANGED <<mode, sent, view, session, stopped, threads, pending, connected, hears, watching,
                   wire, program, driver>>

\* The janet of the program is run, or the REPL found...
Start ==
    /\ Takes({"configurationDone"})
    /\ session' = "starting"
    /\ process' = "alive"
    /\ pending' = {Request.id}
    /\ UNCHANGED <<mode, sent, view, answers, stopped, threads, breakpoints, connected, hears,
                   watching, cmds, wire, fiber, computing, driver>>

\* ...and does not connect in time, or exits...
StartFails ==
    /\ session = "starting"
    /\ session' = "running"
    /\ process' = IF mode = "launch" THEN "dead" ELSE process
    /\ answers' = Answered(pending) /\ pending' = {}
    /\ UNCHANGED <<mode, asked, sent, view, stopped, threads, breakpoints, connected, hears,
                   watching, cmds, wire, fiber, computing, driver>>

ConnectRunning ==
    /\ session = "starting"
    /\ session' = "running"
    /\ connected' = TRUE /\ hears' = TRUE
    /\ watching' = (mode = "launch")
    /\ attached' = TRUE
    /\ cmds' = (IF mode = "launch" THEN <<[kind |-> "launch", id |-> breakpoints]>> ELSE <<>>) \o
               <<[kind |-> "breakpoints", id |-> breakpoints]>>
    /\ answers' = Answered(pending) /\ pending' = {}
    /\ UNCHANGED <<mode, asked, sent, view, stopped, threads, breakpoints, wire, program, commands,
                   wanted, serving, number, named, served>>

\* ...or the driver connects, and is told the breakpoints before the program.
Connect ==
    /\ session = "starting"
    /\ session' = "running"
    /\ connected' = TRUE /\ hears' = TRUE
    /\ watching' = (mode = "launch")
    /\ attached' = TRUE
    /\ cmds' = <<[kind |-> "breakpoints", id |-> breakpoints]>> \o
               (IF mode = "launch" THEN <<[kind |-> "launch", id |-> breakpoints]>> ELSE <<>>)
    /\ answers' = Answered(pending) /\ pending' = {}
    /\ UNCHANGED <<mode, asked, sent, view, stopped, threads, breakpoints, wire, program, commands,
                   wanted, serving, number, named, served>>

\* A request of the editor becomes a line for the driver, which answers it.
Forwards(kind) ==
    /\ connected
    /\ cmds' = Append(cmds, [kind |-> kind, id |-> Request.id, about |-> Request.about])
    /\ pending' = pending \cup {Request.id}
    /\ UNCHANGED answers

Refuses ==
    /\ answers' = Answered({Request.id})
    /\ UNCHANGED <<cmds, pending, stopped>>

\* evaluate_running: the program is asked as it runs.
Running == Request.kind = "evaluate" /\ ~stopped

ForwardStopped ==
    /\ Takes({"inspect", "resume", "evaluate"})
    /\ \/ Running /\ Forwards("eval") /\ UNCHANGED stopped
       \/ stopped /\ Forwards(Request.kind) /\ UNCHANGED stopped
       \/ ((~stopped /\ ~Running) \/ ~connected \/ WriteFails) /\ Refuses
    /\ UNCHANGED <<mode, sent, view, session, threads, breakpoints, connected, hears, watching,
                   wire, program, driver>>

\* Requests about a stop: one that resumes the program is the last about it.
Forward ==
    /\ Takes({"inspect", "resume", "evaluate"})
    /\ \/ Running /\ Forwards("eval") /\ UNCHANGED stopped
       \/ stopped /\ Forwards(Request.kind) /\ stopped' = (Request.kind # "resume")
       \/ ((~stopped /\ ~Running) \/ ~connected \/ WriteFails) /\ Refuses
    /\ UNCHANGED <<mode, sent, view, session, threads, breakpoints, connected, hears, watching,
                   wire, program, driver>>

\* A signal to the process: the fiber it finds running stops.
Pause ==
    /\ Takes({"pause"})
    /\ answers' = Answered({Request.id})
    /\ \/ UNCHANGED <<fiber, computing>>
       \/ \E f \in Fiber :
            /\ connected /\ ~stopped
            /\ Runs(f) /\ number < MaxStops
            /\ fiber' = [fiber EXCEPT ![f] = "halted"]
            /\ computing' = None
    /\ UNCHANGED <<mode, sent, view, adapter, cmds, wire, process, driver>>

\* The process ends, whatever its fibers were doing.
Dies ==
    /\ process' = "dead"
    /\ fiber' = [f \in Fiber |-> "none"]
    /\ computing' = None
    /\ attached' = FALSE
    /\ cmds' = <<>> /\ commands' = <<>>
    /\ serving' = None /\ named' = {}
    /\ UNCHANGED <<wanted, number, served>>

Kills == IF watching /\ process = "alive" THEN Dies ELSE UNCHANGED <<cmds, program, driver>>

Terminate ==
    /\ Takes({"terminate"})
    /\ answers' = Answered({Request.id})
    /\ Kills
    /\ UNCHANGED <<mode, sent, view, adapter, wire>>

\* The session is over with a disconnect, or with the editor's pipe: a launched
\* program is killed, the REPL sees the connection close.
Disconnect ==
    /\ Takes({"disconnect"})
    /\ answers' = Answered({Request.id})
    /\ session' = "gone" /\ stopped' = FALSE
    /\ connected' = FALSE /\ hears' = FALSE /\ watching' = FALSE
    /\ Kills
    /\ UNCHANGED <<mode, sent, view, threads, pending, breakpoints, wire>>

\* The adapter is killed, and kills nothing itself: a janet that has not connected
\* yet finds nobody and ends, the driver of any other sees the connection close.
AdapterDies ==
    /\ session # "gone"
    /\ session' = "gone" /\ stopped' = FALSE
    /\ connected' = FALSE /\ hears' = FALSE /\ watching' = FALSE
    /\ IF session = "starting" /\ mode = "launch" THEN Dies ELSE UNCHANGED <<cmds, program, driver>>
    /\ UNCHANGED <<mode, editor, threads, pending, breakpoints, wire>>

-----------------------------------------------------------------------------
(* The adapter: what the driver tells it. *)

Hears(kind) ==
    /\ session = "running" /\ hears
    /\ wire # <<>> /\ Head(wire).kind = kind
    /\ wire' = Tail(wire)

TakeAnswerKeeping ==
    /\ Hears("answer")
    /\ answers' = Answered({Head(wire).id} \cap pending)
    /\ UNCHANGED <<mode, asked, sent, view, adapter, cmds, program, driver>>

TakeAnswer ==
    /\ Hears("answer")
    /\ answers' = Answered({Head(wire).id} \cap pending)
    /\ pending' = pending \ {Head(wire).id}
    /\ UNCHANGED <<mode, asked, sent, view, session, stopped, threads, breakpoints, connected,
                   hears, watching, cmds, program, driver>>

TakeStopped ==
    /\ Hears("stopped")
    /\ stopped' = TRUE
    /\ threads' = threads \cup {Head(wire).fiber}
    /\ view' = Head(wire).number
    /\ UNCHANGED <<mode, asked, sent, answers, session, pending, breakpoints, connected, hears,
                   watching, cmds, program, driver>>

TakeEnded ==
    /\ Hears("ended")
    /\ threads' = threads \ {Head(wire).fiber}
    /\ UNCHANGED <<mode, editor, session, stopped, pending, breakpoints, connected, hears, watching,
                   cmds, program, driver>>

DriverClosedKeeping ==
    /\ session = "running" /\ hears
    /\ wire = <<>> /\ ~attached
    /\ hears' = FALSE /\ connected' = FALSE
    /\ stopped' = (stopped /\ mode = "launch")
    /\ view' = IF mode = "launch" THEN view ELSE 0
    /\ UNCHANGED <<mode, asked, sent, answers, pending, session, threads, breakpoints, watching,
                   cmds, wire, program, driver>>

\* The connection closes: what the driver was to answer is answered, and with
\* the REPL the session is over.
DriverClosed ==
    /\ session = "running" /\ hears
    /\ wire = <<>> /\ ~attached
    /\ hears' = FALSE /\ connected' = FALSE
    /\ answers' = Answered(pending) /\ pending' = {}
    /\ stopped' = (stopped /\ mode = "launch")
    /\ view' = IF mode = "launch" THEN view ELSE 0
    /\ UNCHANGED <<mode, asked, sent, session, threads, breakpoints, watching, cmds, wire, program,
                   driver>>

\* The process has exited: nothing orders this after the last lines of the driver.
Exited ==
    /\ session = "running" /\ watching
    /\ process = "dead"
    /\ watching' = FALSE /\ stopped' = FALSE /\ connected' = FALSE
    /\ view' = 0
    /\ UNCHANGED <<mode, asked, sent, answers, session, threads, pending, breakpoints, hears, cmds,
                   wire, program, driver>>

-----------------------------------------------------------------------------
(* The driver: its reader, driver/read-commands. *)

Reads(kind) ==
    /\ attached /\ Idle
    /\ cmds # <<>> /\ Head(cmds).kind = kind
    /\ cmds' = Tail(cmds)

Tell(message) == wire' = IF hears THEN Append(wire, message) ELSE wire

ReadBreakpoints ==
    /\ Reads("breakpoints")
    /\ wanted' = Head(cmds).id
    /\ UNCHANGED <<mode, editor, adapter, wire, program, attached, commands, serving, number, named,
                   served>>

ReadLaunch ==
    /\ Reads("launch")
    /\ fiber' = [fiber EXCEPT ![Main] = "running"]
    /\ UNCHANGED <<mode, editor, adapter, wire, process, computing, driver>>

\* What is asked of the running program, whatever it is doing by now.
ReadEval ==
    /\ Reads("eval")
    /\ Tell([kind |-> "answer", id |-> Head(cmds).id])
    /\ UNCHANGED <<mode, editor, adapter, program, driver>>

ReadAboutStop ==
    /\ \E kind \in {"inspect", "resume", "evaluate"} : Reads(kind)
    /\ commands' = Append(commands, Head(cmds))
    /\ UNCHANGED <<mode, editor, adapter, wire, program, attached, wanted, serving, number, named,
                   served>>

HangUpQuietly ==
    /\ attached /\ Idle
    /\ session = "gone" /\ cmds = <<>>
    /\ wanted' = IF mode = "attach" THEN 0 ELSE wanted
    /\ UNCHANGED <<mode, editor, adapter, cmds, wire, program, attached, commands, serving, number,
                   named, served>>

\* The adapter is gone: the channel closes, and a REPL loses its breakpoints.
HangUp ==
    /\ attached /\ Idle
    /\ session = "gone" /\ cmds = <<>>
    /\ attached' = FALSE
    /\ commands' = <<>>
    /\ wanted' = IF mode = "attach" THEN 0 ELSE wanted
    /\ UNCHANGED <<mode, editor, adapter, cmds, wire, program, serving, number, named, served>>

-----------------------------------------------------------------------------
(* The driver: a stop, driver/serve. *)

ServeAtOnce(f) ==
    /\ Idle
    /\ fiber[f] = "halted" /\ serving # f
    /\ serving' = f
    /\ number' = number + 1
    /\ named' = named \cup {f}
    /\ wire' = IF attached /\ hears
               THEN Append(wire, [kind |-> "stopped", fiber |-> f, number |-> number + 1])
               ELSE wire
    /\ UNCHANGED <<mode, editor, adapter, cmds, program, attached, commands, wanted, served>>

\* One stop is served at a time; the others wait for the lock.
Serve(f) ==
    /\ Idle
    /\ fiber[f] = "halted" /\ serving = None
    /\ serving' = f
    /\ number' = number + 1
    /\ named' = named \cup {f}
    /\ wire' = IF attached /\ hears
               THEN Append(wire, [kind |-> "stopped", fiber |-> f, number |-> number + 1])
               ELSE wire
    /\ UNCHANGED <<mode, editor, adapter, cmds, program, attached, commands, wanted, served>>

TakesCommand(kinds) ==
    /\ Idle
    /\ serving # None /\ attached
    /\ commands # <<>> /\ Head(commands).kind \in kinds
    /\ commands' = Tail(commands)
    /\ served' = [about |-> Head(commands).about, by |-> number]
    /\ Tell([kind |-> "answer", id |-> Head(commands).id])

Inspect ==
    /\ TakesCommand({"inspect", "evaluate"})
    /\ UNCHANGED <<mode, editor, adapter, cmds, program, attached, wanted, serving, number, named>>

ResumeHolding ==
    /\ TakesCommand({"resume"})
    /\ fiber' = [fiber EXCEPT ![serving] = "running"]
    /\ computing' = serving
    /\ UNCHANGED <<mode, editor, adapter, cmds, process, attached, wanted, serving, number, named>>

Resume ==
    /\ TakesCommand({"resume"})
    /\ fiber' = [fiber EXCEPT ![serving] = "running"]
    /\ computing' = serving
    /\ serving' = None
    /\ UNCHANGED <<mode, editor, adapter, cmds, process, attached, wanted, number, named>>

\* With the channel closed the adapter is taken to be gone: a launched program
\* ends, an evaluation of the REPL goes on.
Disconnected ==
    /\ Idle
    /\ serving # None /\ ~attached
    /\ \/ mode = "launch" /\ Dies
       \/ /\ mode = "attach"
          /\ fiber' = [fiber EXCEPT ![serving] = "running"]
          /\ computing' = serving
          /\ serving' = None
          /\ UNCHANGED <<process, cmds, attached, commands, wanted, number, named, served>>
    /\ UNCHANGED <<mode, editor, adapter, wire>>

-----------------------------------------------------------------------------
(* The program. *)

\* A fiber goes on without coming back to the event loop, perhaps for ever...
Compute(f) ==
    /\ fiber[f] = "running" /\ Idle
    /\ computing' = f
    /\ UNCHANGED <<mode, editor, adapter, cmds, wire, process, fiber, driver>>

\* ...or waits for what the loop brings, if only its next turn.
Yield ==
    /\ ~Idle
    /\ computing' = None
    /\ UNCHANGED <<mode, editor, adapter, cmds, wire, process, fiber, driver>>

\* The kernel evaluates something in a REPL.
Run ==
    /\ mode = "attach" /\ process = "alive" /\ Idle
    /\ fiber[Main] = "none"
    /\ fiber' = [fiber EXCEPT ![Main] = "running"]
    /\ computing' = Main
    /\ UNCHANGED <<mode, editor, adapter, cmds, wire, process, driver>>

Spawn(f) ==
    /\ Runs(Main) /\ fiber[f] = "none"
    /\ fiber' = [fiber EXCEPT ![f] = "running"]
    /\ UNCHANGED <<mode, editor, adapter, cmds, wire, process, computing, driver>>

\* A breakpoint, or an error while those stop; not in a REPL nobody debugs.
Halt(f) ==
    /\ Runs(f) /\ number < MaxStops
    /\ attached \/ mode = "launch"
    /\ fiber' = [fiber EXCEPT ![f] = "halted"]
    /\ computing' = None
    /\ UNCHANGED <<mode, editor, adapter, cmds, wire, process, driver>>

EndTaskUntold(f) ==
    /\ f # Main /\ Runs(f)
    /\ fiber' = [fiber EXCEPT ![f] = "none"]
    /\ computing' = None
    /\ named' = named \ {f}
    /\ UNCHANGED <<mode, editor, adapter, cmds, wire, process, attached, commands, wanted, serving,
                   number, served>>

EndTask(f) ==
    /\ f # Main /\ Runs(f)
    /\ fiber' = [fiber EXCEPT ![f] = "none"]
    /\ computing' = None
    /\ named' = named \ {f}
    /\ wire' = IF f \in named /\ attached /\ hears
               THEN Append(wire, [kind |-> "ended", fiber |-> f]) ELSE wire
    /\ UNCHANGED <<mode, editor, adapter, cmds, process, attached, commands, wanted, serving, number,
                   served>>

\* The file of a launched program has run: the driver closes its connection,
\* and tasks go on without it. An evaluation of the REPL just ends.
EndMain ==
    /\ Runs(Main)
    /\ IF mode = "launch"
       THEN /\ fiber' = [fiber EXCEPT ![Main] = "done"]
            /\ attached' = FALSE
            /\ commands' = <<>> /\ cmds' = <<>>
       ELSE /\ fiber' = [fiber EXCEPT ![Main] = "none"]
            /\ UNCHANGED <<attached, commands, cmds>>
    /\ computing' = None
    /\ UNCHANGED <<mode, editor, adapter, wire, process, wanted, serving, number, named, served>>

\* It exits when nothing is left to run, or a fiber says so; the REPL too.
Exit ==
    /\ process = "alive" /\ session # "starting"
    /\ \/ \E f \in Fiber : Runs(f)
       \/ fiber[Main] = "done" /\ \A f \in Task : fiber[f] = "none"
       \/ mode = "attach"
    /\ Dies
    /\ UNCHANGED <<mode, editor, adapter, wire>>

\* The program cancels a fiber that waits, as a deadline of it does, or the
\* kernel interrupts the evaluation.
Cancel(f) ==
    /\ fiber[f] = "halted"
    /\ fiber' = [fiber EXCEPT ![f] = "none"]
    /\ serving' = IF serving = f THEN None ELSE serving
    /\ UNCHANGED <<mode, editor, adapter, cmds, wire, process, computing, attached, commands, wanted, number,
                   named, served>>

-----------------------------------------------------------------------------

Init ==
    /\ mode \in {"launch", "attach"}
    /\ asked = <<>> /\ sent = 0 /\ view = 0
    /\ answers = [id \in Id |-> 0]
    /\ session = "configuring" /\ stopped = FALSE /\ threads = {Main} /\ pending = {}
    /\ breakpoints = 0
    /\ connected = FALSE /\ hears = FALSE /\ watching = FALSE
    /\ cmds = <<>> /\ wire = <<>>
    /\ process = "none" /\ fiber = [f \in Fiber |-> "none"] /\ computing = None
    /\ attached = FALSE /\ commands = <<>> /\ wanted = 0
    /\ serving = None /\ number = 0 /\ named = {}
    /\ served = [about |-> 0, by |-> 0]

Adapter ==
    \/ SetBreakpoints \/ Start \/ StartFails \/ Connect \/ Forward \/ Pause \/ Terminate \/ Disconnect
    \/ TakeAnswer \/ TakeStopped \/ TakeEnded \/ DriverClosed \/ Exited

Reader == ReadBreakpoints \/ ReadLaunch \/ ReadEval \/ ReadAboutStop \/ HangUp

Server == Inspect \/ Resume \/ Disconnected \/ \E f \in Fiber : Serve(f)

Program ==
    \/ Run \/ Yield \/ EndMain \/ Exit
    \/ \E f \in Task : Spawn(f) \/ EndTask(f)
    \/ \E f \in Fiber : Compute(f) \/ Halt(f)

Next == Asks \/ Adapter \/ AdapterDies \/ Reader \/ Server \/ Program \/ \E f \in Fiber : Cancel(f)

Spec == Init /\ [][Next]_vars

\* What the code does not guard against, and some properties exclude: a fiber is
\* cancelled while its stop is served.
Uncancelled == serving # None /\ process' # "dead" => fiber'[serving] # "none"

\* The adapter handles what it is sent, and the event loop gets to the driver's
\* fibers whenever the program comes around to it, as to any that are ready.  Nobody
\* has to ask anything, and a fiber of the program may compute for ever.
Fairness == WF_vars(Adapter) /\ SF_vars(Reader) /\ SF_vars(Server)

FairSpec == Spec /\ Fairness

-----------------------------------------------------------------------------
(* What is to hold. *)

\* The types of the session; who is served has stopped, and is named.
TypeOK ==
    /\ mode \in {"launch", "attach"}
    /\ sent \in 0..MaxRequests /\ view \in 0..number /\ breakpoints \in 0..MaxRequests
    /\ answers \in [Id -> Nat]
    /\ session \in {"configuring", "starting", "running", "gone"}
    /\ threads \subseteq Fiber /\ pending \subseteq Id /\ named \subseteq Fiber
    /\ {stopped, connected, hears, watching, attached} \subseteq BOOLEAN
    /\ process \in {"none", "alive", "dead"}
    /\ fiber \in [Fiber -> {"none", "running", "halted", "done"}]
    /\ serving # None => fiber[serving] = "halted" /\ serving \in named
    /\ connected => hears
    /\ computing \in Fiber \cup {None} /\ (computing # None => fiber[computing] = "running")
    /\ process # "alive" => (\A f \in Fiber : fiber[f] # "running") /\ ~attached

\* A request is answered once, by the adapter or by the driver, although both
\* answer what the driver was told just before its connection closed.
AnsweredOnce == \A id \in Id : answers[id] <= 1

\* A command about a stop is carried out at the stop it is about, whose frames
\* and values it names, and not at a later one.
AboutTheStop == served.about \in {0, served.by}

\* Once what was said has been heard, the adapter takes the program for stopped
\* exactly when a stop is being served, and the editor shows that stop.
StoppedTruly ==
    connected /\ attached /\ wire = <<>> /\ cmds = <<>> /\ commands = <<>> =>
        /\ stopped <=> serving # None
        /\ stopped => view \in {0, number}

\* The driver has the breakpoints of the editor once it has heard of them.
BreakpointsTold == connected /\ attached /\ cmds = <<>> => wanted = breakpoints

\* A launched program starts with the breakpoints that were set before.
BreakpointsFirst ==
    [][mode = "launch" /\ fiber[Main] = "none" /\ fiber'[Main] = "running"
        => wanted = Head(cmds).id]_vars

\* The threads listed are the program and the tasks that stopped and have not
\* run to their end.
ThreadsListed ==
    connected /\ attached /\ wire = <<>> => threads = {Main} \cup named

\* The tasks of a program keep its process alive, although one of them is stopped
\* and nothing else runs, unless the editor has it end.
StopsSpare ==
    [][serving # None /\ process = "alive" /\ process' = "dead" /\ mode = "launch" /\ session = "running"
        => \E f \in Fiber : fiber[f] = "running" \/ asked' # asked]_vars

\* Every request is answered while the adapter is there, provided the program
\* comes around to its event loop now and then: none of its fibers computes for ever.
RequestsAnswered ==
    []<>Idle => \A id \in Id : (sent >= id) ~> (answers[id] = 1 \/ session = "gone")

\* Once the adapter is gone nothing waits for it: stopped fibers run on or end.
GoesOn ==
    []<>Idle => \A f \in Fiber : (session = "gone" /\ fiber[f] = "halted") ~> (fiber[f] # "halted")

\* The adapter and the driver agree on where the program stands: on the stop that
\* is served and what is asked about it, on the threads and the breakpoints.
InStep == AboutTheStop /\ StoppedTruly /\ ThreadsListed /\ BreakpointsTold

\* Nobody waits for ever, the editor for an answer or a fiber for the adapter.
AllAnswered == RequestsAnswered /\ GoesOn
=============================================================================
