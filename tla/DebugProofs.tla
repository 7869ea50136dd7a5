------------------------------ MODULE DebugProofs ------------------------------
(* Proofs about a debug session: the types of its variables, that a request is *)
(* answered once, that the adapter and the driver agree on the breakpoints, on *)
(* the threads and on the stop that is served.                                 *)
EXTENDS Debug, SequenceTheorems, TLAPS

USE DebugAssumption DEF DebugAssumption, Id, Fiber

-----------------------------------------------------------------------------
(* What travels: requests, the lines of the adapter and those of the driver. *)

AboutStop == {"inspect", "resume", "evaluate"}

Requests == [id : Id, kind : AboutStop \cup {"breakpoints", "configurationDone", "pause",
                                             "terminate", "disconnect"}, about : Nat]

Commands == [kind : AboutStop, id : Id, about : Nat]

Lines == Commands \cup [kind : {"eval"}, id : Id, about : Nat]
                  \cup [kind : {"breakpoints", "launch"}, id : 0..MaxRequests]

Messages == [kind : {"answer"}, id : Id]
            \cup [kind : {"stopped"}, fiber : Fiber, number : Nat]
            \cup [kind : {"ended"}, fiber : Fiber]

-----------------------------------------------------------------------------
(* The inductive invariant, in parts. *)

TypedEditor ==
    /\ mode \in {"launch", "attach"}
    /\ asked \in Seq(Requests) /\ sent \in 0..MaxRequests /\ view \in Nat
    /\ answers \in [Id -> Nat]

TypedAdapter ==
    /\ session \in {"configuring", "starting", "running", "gone"}
    /\ stopped \in BOOLEAN /\ threads \subseteq Fiber /\ pending \subseteq Id
    /\ breakpoints \in 0..MaxRequests
    /\ connected \in BOOLEAN /\ hears \in BOOLEAN /\ watching \in BOOLEAN

TypedConnection == cmds \in Seq(Lines) /\ wire \in Seq(Messages)

TypedProgram ==
    /\ process \in {"none", "alive", "dead"}
    /\ fiber \in [Fiber -> {"none", "running", "halted", "done"}]
    /\ computing \in Fiber \cup {None}
    /\ computing # None => fiber[computing] = "running"

TypedDriver ==
    /\ attached \in BOOLEAN /\ commands \in Seq(Commands)
    /\ wanted \in 0..MaxRequests /\ serving \in Fiber \cup {None}
    /\ number \in Nat /\ named \subseteq Fiber
    /\ served \in [about : Nat, by : Nat]

Typed == TypedEditor /\ TypedAdapter /\ TypedConnection /\ TypedProgram /\ TypedDriver

\* The session is started once, and not asked about the program before.
StartedOnce ==
    \A i \in DOMAIN asked :
        /\ asked[i].kind = "configurationDone" =>
            /\ session \in {"configuring", "gone"}
            /\ \A j \in DOMAIN asked : asked[j].kind = "configurationDone" => j = i
        /\ asked[i].kind \in AboutStop => session \in {"running", "gone"}

\* Before the driver connects nothing has been said, and nothing has stopped.
NotStarted ==
    session \in {"configuring", "starting"} =>
        /\ ~attached /\ ~connected /\ ~hears /\ ~watching /\ ~stopped
        /\ cmds = <<>> /\ wire = <<>> /\ commands = <<>>
        /\ serving = None /\ number = 0 /\ named = {} /\ threads = {Main} /\ view = 0
        /\ \A f \in Fiber : fiber[f] \in {"none", "running"} /\ (mode = "launch" => fiber[f] = "none")
        /\ process = IF session = "starting" THEN "alive" ELSE "none"

\* Only a process that lives has fibers and a driver, and only a session that
\* runs a connection; who is served is halted.
Alive ==
    /\ process # "alive" => ~attached /\ \A f \in Fiber : fiber[f] = "none"
    /\ connected => hears
    /\ hears => session = "running"
    /\ serving # None => fiber[serving] = "halted" /\ serving \in named

\* A launched program is started once, by the line after its breakpoints.
LaunchLine ==
    \A i \in DOMAIN cmds : cmds[i].kind = "launch" =>
        /\ mode = "launch" /\ i \in {1, 2}
        /\ \A f \in Fiber : fiber[f] = "none"
        /\ \A j \in DOMAIN cmds : cmds[j].kind = "launch" => j = i
        /\ i = 1 => wanted = cmds[1].id
        /\ i = 2 => cmds[1].kind = "breakpoints" /\ cmds[1].id = cmds[2].id

\* What the editor is shown is a stop there was.
Numbers ==
    /\ view \in 0..number
    /\ \A i \in DOMAIN wire : wire[i].kind = "stopped" => wire[i].number \in 1..number

\* A request on its way is newer than those before it, and is neither answered
\* nor the driver's to answer; what the driver is to answer is not answered.
Unanswered ==
    /\ \A i \in DOMAIN asked :
        /\ asked[i].id <= sent
        /\ answers[asked[i].id] = 0 /\ asked[i].id \notin pending
        /\ \A j \in DOMAIN asked : i < j => asked[i].id < asked[j].id
    /\ \A id \in Id : id > sent => answers[id] = 0 /\ id \notin pending
    /\ \A id \in pending : answers[id] = 0

\* The last line about breakpoints holds those of the editor.
LastBreakpoints ==
    connected /\ attached =>
        /\ \A i \in DOMAIN cmds : cmds[i].kind = "breakpoints" =>
                \/ cmds[i].id = breakpoints
                \/ \E j \in DOMAIN cmds : i < j /\ cmds[j].kind = "breakpoints"
        /\ wanted = breakpoints \/ \E i \in DOMAIN cmds : cmds[i].kind = "breakpoints"

\* What the messages on their way make of the threads that are listed.
Says(i, kind, f) == wire[i].kind = kind /\ wire[i].fiber = f

Told(f) ==
    IF f \in {Main} \cup named
    THEN /\ \A i \in DOMAIN wire : Says(i, "ended", f) =>
                \E j \in DOMAIN wire : i < j /\ Says(j, "stopped", f)
         /\ f \in threads \/ \E i \in DOMAIN wire : Says(i, "stopped", f)
    ELSE /\ \A i \in DOMAIN wire : Says(i, "stopped", f) =>
                \E j \in DOMAIN wire : i < j /\ Says(j, "ended", f)
         /\ f \notin threads \/ \E i \in DOMAIN wire : Says(i, "ended", f)

ThreadsTold == connected /\ attached => \A f \in Fiber : Told(f)

\* What the driver is to do about a stop is about the one it serves, and a
\* resume is the last of it.
AtTheStop ==
    attached =>
        /\ serving = None =>
            /\ commands = <<>>
            /\ \A i \in DOMAIN cmds : cmds[i].kind \notin AboutStop
        /\ \A i \in DOMAIN cmds : cmds[i].kind \in AboutStop =>
            /\ cmds[i].about \in {0, number}
            /\ \A j \in DOMAIN cmds : i < j /\ cmds[i].kind = "resume" => cmds[j].kind \notin AboutStop
        /\ \A i \in DOMAIN commands :
            /\ commands[i].about \in {0, number}
            /\ commands[i].kind = "resume" =>
                /\ i = Len(commands)
                /\ \A j \in DOMAIN cmds : cmds[j].kind \notin AboutStop

Resuming ==
    \/ \E i \in DOMAIN cmds : cmds[i].kind = "resume"
    \/ \E i \in DOMAIN commands : commands[i].kind = "resume"

Stopping == \E i \in DOMAIN wire : wire[i].kind = "stopped"

OneStop ==
    \A i \in DOMAIN wire : wire[i].kind = "stopped" =>
        wire[i].number = number /\ \A j \in DOMAIN wire : wire[j].kind = "stopped" => j = i

\* Nothing is on its way to the stop that is served.
Unasked == commands = <<>> /\ \A i \in DOMAIN cmds : cmds[i].kind \notin AboutStop

\* The adapter lags behind the driver by at most one step: a stop it has not
\* heard of, or a resume the driver has not.
StopKnown ==
    connected /\ attached =>
        /\ serving = None => ~stopped /\ ~Stopping
        /\ stopped => ~Stopping /\ ~Resuming
        /\ serving # None /\ ~stopped => (Stopping /\ Unasked) \/ (~Stopping /\ Resuming)
        /\ OneStop

Asking == \E i \in DOMAIN asked : asked[i].kind = "resume"

\* The editor lags behind the adapter: it asks about the stop it was shown, up
\* to its own resume of it.
StopShown ==
    connected /\ attached =>
        /\ ~stopped => view = 0 /\ ~Asking
        /\ stopped => view = IF Asking THEN 0 ELSE number
        /\ \A i \in DOMAIN asked : asked[i].kind \in AboutStop =>
            /\ asked[i].about = 0 \/ (stopped /\ asked[i].about = number)
            /\ asked[i].kind = "resume" =>
                \A j \in DOMAIN asked : i < j /\ asked[j].kind \in AboutStop =>
                    asked[j].kind # "resume" /\ asked[j].about = 0

Agreed == AtTheStop /\ StopKnown /\ StopShown /\ AboutTheStop

-----------------------------------------------------------------------------
(* Facts about sequences and about what travels in them. *)

\* A queue after its first element was taken: everything moved up by one.
LEMMA TailAt ==
    ASSUME NEW S, NEW s \in Seq(S), s # <<>>
    PROVE  /\ 1 \in DOMAIN s /\ Head(s) = s[1] /\ Head(s) \in S
           /\ Tail(s) \in Seq(S) /\ Len(Tail(s)) = Len(s) - 1
           /\ DOMAIN s \subseteq Nat /\ DOMAIN Tail(s) \subseteq Nat \ {0}
           /\ \A i \in DOMAIN Tail(s) : i + 1 \in DOMAIN s /\ Tail(s)[i] = s[i + 1]
           /\ \A i \in DOMAIN s : i # 1 => i - 1 \in DOMAIN Tail(s) /\ s[i] = Tail(s)[i - 1]
OBVIOUS

\* A queue after an element was added: everything stays where it was.
LEMMA AppendAt ==
    ASSUME NEW S, NEW s \in Seq(S), NEW e \in S
    PROVE  /\ Append(s, e) \in Seq(S) /\ Len(Append(s, e)) = Len(s) + 1
           /\ DOMAIN s \subseteq Nat
           /\ \A i \in DOMAIN s : i \in DOMAIN Append(s, e) /\ Append(s, e)[i] = s[i]
           /\ Append(s, e)[Len(s) + 1] = e /\ Len(s) + 1 \in DOMAIN Append(s, e)
           /\ \A i \in DOMAIN Append(s, e) : i \in DOMAIN s \/ i = Len(s) + 1
OBVIOUS

\* A request, a command and a message have the fields of their kind.
LEMMA RequestFields ==
    ASSUME NEW r \in Requests PROVE r.id \in Id /\ r.about \in Nat
BY DEF Requests

\* A line about a stop is a command.
LEMMA LineFields ==
    ASSUME NEW c \in Lines
    PROVE  /\ c.kind \in AboutStop => c \in Commands
           /\ c.kind \in AboutStop \cup {"eval"} => c.id \in Id /\ c.about \in Nat
           /\ c.id \in 0..MaxRequests
BY DEF Lines, Commands, AboutStop

LEMMA CommandFields ==
    ASSUME NEW c \in Commands PROVE c.kind \in AboutStop /\ c.id \in Id /\ c.about \in Nat
BY DEF Commands, AboutStop

LEMMA MessageFields ==
    ASSUME NEW m \in Messages
    PROVE  /\ m.kind = "answer" => m.id \in Id
           /\ m.kind \in {"stopped", "ended"} => m.fiber \in Fiber
           /\ m.kind = "stopped" => m.number \in Nat
BY DEF Messages

LEMMA LinesMade ==
    /\ \A kind \in AboutStop \cup {"eval"}, id \in Id, about \in Nat :
            [kind |-> kind, id |-> id, about |-> about] \in Lines
    /\ \A kind \in {"breakpoints", "launch"}, id \in 0..MaxRequests :
            [kind |-> kind, id |-> id] \in Lines
BY DEF Lines, Commands

LEMMA MessagesMade ==
    /\ \A id \in Id : [kind |-> "answer", id |-> id] \in Messages
    /\ \A f \in Fiber : [kind |-> "ended", fiber |-> f] \in Messages
    /\ \A f \in Fiber, n \in Nat : [kind |-> "stopped", fiber |-> f, number |-> n] \in Messages
BY DEF Messages

-----------------------------------------------------------------------------
(* Types. *)

\* Every initial state has its types.
LEMMA InitTyped == Init => Typed
<1>. SUFFICES ASSUME Init PROVE Typed
  OBVIOUS
<1>. USE DEF Init
<1>1. TypedEditor
  BY DEF TypedEditor
<1>2. TypedAdapter
  <2>1. stopped \in BOOLEAN /\ connected \in BOOLEAN /\ hears \in BOOLEAN /\ watching \in BOOLEAN
    BY Zenon
  <2>. QED
    BY <2>1 DEF TypedAdapter
<1>3. TypedConnection /\ TypedProgram
  BY DEF TypedConnection, TypedProgram
<1>4. TypedDriver
  <2>1. attached \in BOOLEAN
    BY Zenon
  <2>2. served \in [about : Nat, by : Nat]
    OBVIOUS
  <2>. QED
    BY <2>1, <2>2 DEF TypedDriver
<1>. QED
  BY <1>1, <1>2, <1>3, <1>4 DEF Typed

\* A request the adapter takes is one.
LEMMA RequestTaken ==
    ASSUME TypedEditor, NEW kinds, Takes(kinds)
    PROVE  Request \in Requests /\ asked' \in Seq(Requests) /\ Request.id \in Id /\ Request.about \in Nat
BY RequestFields DEF TypedEditor, Takes, Request

\* Answering counts.
LEMMA AnsweredTyped ==
    ASSUME answers \in [Id -> Nat], NEW ids PROVE Answered(ids) \in [Id -> Nat]
BY DEF Answered

\* The editor only asks.
LEMMA AsksOnly ==
    Asks => /\ UNCHANGED <<mode, answers, adapter, cmds, wire, program, driver>>
            /\ session # "running" => view' = view
BY DEF Asks, Ask, Configures, Starts, Inspects, Resumes, Evaluates, Pauses, Terminates, Leaves, Started

\* The editor.
LEMMA EditorTyped == Typed /\ Next => TypedEditor'
<1>. SUFFICES ASSUME Typed, Next PROVE TypedEditor'
  OBVIOUS
<1>. USE DEF Typed, TypedEditor
<1>1. ASSUME NEW kind \in AboutStop \cup {"breakpoints", "configurationDone", "pause", "terminate",
                                          "disconnect"},
             Ask(kind), view' \in {0, view}
      PROVE  TypedEditor'
  <2>1. [id |-> sent + 1, kind |-> kind, about |-> view] \in Requests
    BY <1>1 DEF Ask, Requests
  <2>. QED
    BY <1>1, <2>1 DEF Ask
<1>2. CASE Asks
  BY <1>1, <1>2 DEF Asks, Configures, Starts, Inspects, Resumes, Evaluates, Pauses, Terminates, Leaves, AboutStop
<1>3. ASSUME NEW kinds, NEW ids, Takes(kinds), answers' = Answered(ids),
             UNCHANGED <<mode, sent, view>>
      PROVE  TypedEditor'
  BY <1>3, RequestTaken, AnsweredTyped
<1>4. ASSUME NEW kinds, Takes(kinds), UNCHANGED <<mode, sent, view, answers>> PROVE TypedEditor'
  BY <1>4, RequestTaken
<1>5. CASE SetBreakpoints \/ Pause \/ Terminate \/ Disconnect
  BY <1>3, <1>5 DEF SetBreakpoints, Pause, Terminate, Disconnect
<1>6. CASE Start \/ Forward
  BY <1>3, <1>4, <1>6 DEF Start, Forward, Forwards, Refuses
<1>7. CASE StartFails \/ Connect \/ TakeAnswer \/ DriverClosed \/ Exited
  <2>1. CASE StartFails
    BY <2>1, AnsweredTyped DEF StartFails
  <2>2. CASE Connect
    BY <2>2, AnsweredTyped DEF Connect
  <2>3. CASE TakeAnswer
    BY <2>3, AnsweredTyped DEF TakeAnswer
  <2>4. CASE DriverClosed
    BY <2>4, AnsweredTyped DEF DriverClosed
  <2>5. CASE Exited
    BY <2>5 DEF Exited
  <2>. QED
    BY <1>7, <2>1, <2>2, <2>3, <2>4, <2>5
<1>8. CASE TakeStopped
  <2>1. Head(wire) \in Messages
    BY <1>8, TailAt DEF TakeStopped, Hears, TypedConnection
  <2>. QED
    BY <1>8, <2>1, MessageFields DEF TakeStopped, Hears
<1>9. CASE AdapterDies \/ TakeEnded \/ Reader \/ Server \/ Program \/ \E f \in Fiber : Cancel(f)
  BY <1>9 DEF AdapterDies, TakeEnded, editor, Reader, ReadBreakpoints, ReadLaunch, ReadEval, ReadAboutStop, HangUp,
     Server, Inspect, Resume, Disconnected, Serve, Program, Run, EndMain, Exit, Spawn, EndTask, Compute, Yield, Runs, Halt, Cancel
<1>. QED
  BY <1>2, <1>5, <1>6, <1>7, <1>8, <1>9 DEF Next, Adapter

\* The adapter.
LEMMA AdapterTyped == Typed /\ Next => TypedAdapter'
<1>. SUFFICES ASSUME Typed, Next PROVE TypedAdapter'
  OBVIOUS
<1>. USE DEF Typed, TypedAdapter
<1>1. CASE Asks \/ Reader \/ Server \/ Program \/ \E f \in Fiber : Cancel(f)
  <2>1. CASE Asks
    BY <2>1 DEF adapter, Asks, Ask, Configures, Starts, Inspects, Resumes, Evaluates, Pauses, Terminates, Leaves
  <2>2. CASE Reader
    BY <2>2 DEF adapter, Reader, ReadBreakpoints, ReadLaunch, ReadEval, ReadAboutStop, HangUp
  <2>3. CASE Server
    BY <2>3 DEF adapter, Server, Inspect, Resume, Disconnected, Serve
  <2>4. CASE Program
    <3>1. CASE Run \/ Yield \/ EndMain \/ Exit
      BY <3>1 DEF adapter, Run, Yield, EndMain, Exit
    <3>2. CASE \E f \in Task : Spawn(f) \/ EndTask(f)
      BY <3>2 DEF adapter, Spawn, EndTask
    <3>3. CASE \E f \in Fiber : Compute(f) \/ Halt(f)
      BY <3>3 DEF adapter, Compute, Halt
    <3>. QED
      BY <2>4, <3>1, <3>2, <3>3 DEF Program
  <2>5. CASE \E f \in Fiber : Cancel(f)
    BY <2>5 DEF adapter, Cancel
  <2>. QED
    BY <1>1, <2>1, <2>2, <2>3, <2>4, <2>5
<1>2. CASE SetBreakpoints \/ Start
  <2>1. Request.id \in Id
    BY <1>2, RequestTaken DEF SetBreakpoints, Start
  <2>2. Request.id \in 0..MaxRequests
    BY <2>1
  <2>3. CASE SetBreakpoints
    BY <2>2, <2>3 DEF SetBreakpoints
  <2>4. CASE Start
    BY <2>1, <2>4 DEF Start
  <2>. QED
    BY <1>2, <2>3, <2>4
<1>6. CASE Forward
  <2>1. Request.id \in Id /\ stopped' \in BOOLEAN
    BY <1>6, RequestTaken DEF Forward, Refuses
  <2>2. pending' \subseteq Id
    BY <1>6, <2>1 DEF Forward, Forwards, Refuses
  <2>. QED
    BY <1>6, <2>1, <2>2 DEF Forward
<1>3. CASE Pause \/ Terminate \/ Disconnect \/ AdapterDies
  BY <1>3 DEF Pause, Terminate, Disconnect, AdapterDies, adapter
<1>4. CASE StartFails \/ Connect \/ DriverClosed \/ Exited \/ TakeAnswer
  BY <1>4 DEF StartFails, Connect, DriverClosed, Exited, TakeAnswer
<1>5. CASE TakeStopped \/ TakeEnded
  <2>1. Head(wire) \in Messages
    BY <1>5, TailAt DEF TakeStopped, TakeEnded, Hears, TypedConnection
  <2>. QED
    BY <1>5, <2>1, MessageFields DEF TakeStopped, TakeEnded, Hears
<1>. QED
  BY <1>1, <1>2, <1>3, <1>4, <1>5, <1>6 DEF Next, Adapter

\* The lines of the adapter and of the driver.
LEMMA ConnectionTyped == Typed /\ Next => TypedConnection'
<1>. SUFFICES ASSUME Typed, Next PROVE TypedConnection'
  OBVIOUS
<1>. USE DEF Typed, TypedConnection
<1>1. ASSUME UNCHANGED <<cmds, wire>> PROVE TypedConnection'
  BY <1>1
<1>2. CASE Asks
  BY <1>1, <1>2 DEF Asks, Ask, Configures, Starts, Inspects, Resumes, Evaluates, Pauses, Terminates, Leaves
<1>3. CASE SetBreakpoints
  <2>1. [kind |-> "breakpoints", id |-> Request.id] \in Lines /\ UNCHANGED wire
    BY <1>3, RequestTaken, LinesMade DEF SetBreakpoints
  <2>2. cmds' \in {cmds, Append(cmds, [kind |-> "breakpoints", id |-> Request.id])}
    BY <1>3 DEF SetBreakpoints
  <2>. QED
    BY <2>1, <2>2
<1>4. CASE Forward
  <2>1. Takes(AboutStop) /\ Request.kind \in AboutStop /\ UNCHANGED wire
    BY <1>4 DEF Forward, Takes, AboutStop
  <2>2. \A kind \in AboutStop \cup {"eval"} :
            [kind |-> kind, id |-> Request.id, about |-> Request.about] \in Lines
    BY <2>1, RequestTaken, LinesMade
  <2>3. CASE UNCHANGED cmds
    BY <2>1, <2>3, <1>1
  <2>4. ASSUME NEW kind \in AboutStop \cup {"eval"}, Forwards(kind) PROVE cmds' \in Seq(Lines)
    BY <2>2, <2>4 DEF Forwards
  <2>. QED
    BY <1>4, <2>1, <2>3, <2>4 DEF Forward, Refuses
<1>5. CASE Connect
  <2>1. /\ [kind |-> "breakpoints", id |-> breakpoints] \in Lines
        /\ [kind |-> "launch", id |-> breakpoints] \in Lines
    BY LinesMade DEF TypedAdapter
  <2>. QED
    BY <1>5, <2>1 DEF Connect
<1>6. CASE Start \/ StartFails \/ Pause \/ DriverClosed \/ Exited
  BY <1>1, <1>6 DEF Start, StartFails, Pause, DriverClosed, Exited
<1>7. ASSUME cmds' \in {cmds, <<>>, Tail(cmds)}, cmds' = Tail(cmds) => cmds # <<>>, UNCHANGED wire
      PROVE  TypedConnection'
  <2>1. <<>> \in Seq(Lines)
    OBVIOUS
  <2>2. cmds # <<>> => Tail(cmds) \in Seq(Lines)
    OBVIOUS
  <2>. QED
    BY <1>7, <2>1, <2>2
<1>8. CASE Terminate \/ Disconnect \/ AdapterDies \/ Disconnected \/ Exit
  <2>1. cmds' \in {cmds, <<>>} /\ UNCHANGED wire
    BY <1>8 DEF Terminate, Disconnect, AdapterDies, Disconnected, Exit, Kills, Dies
  <2>. QED
    BY <2>1, <1>7
<1>16. CASE TakeAnswer \/ TakeStopped \/ TakeEnded
  <2>1. UNCHANGED cmds /\ wire # <<>> /\ wire' = Tail(wire)
    BY <1>16 DEF TakeAnswer, TakeStopped, TakeEnded, Hears
  <2>. QED
    BY <2>1
<1>9. ASSUME NEW m \in Messages, Tell(m) PROVE wire' \in Seq(Messages)
  BY <1>9 DEF Tell
<1>10. CASE Reader
  <2>1. CASE ReadBreakpoints \/ ReadLaunch \/ ReadAboutStop \/ HangUp
    BY <2>1, <1>7 DEF ReadBreakpoints, ReadLaunch, ReadAboutStop, HangUp, Reads
  <2>2. CASE ReadEval
    <3>1. [kind |-> "answer", id |-> Head(cmds).id] \in Messages
      BY <2>2, TailAt, LineFields, MessagesMade DEF ReadEval, Reads
    <3>. QED
      BY <2>2, <3>1, <1>9 DEF ReadEval, Reads
  <2>. QED
    BY <1>10, <2>1, <2>2 DEF Reader
<1>11. ASSUME NEW kinds, TakesCommand(kinds) PROVE wire' \in Seq(Messages)
  <2>1. [kind |-> "answer", id |-> Head(commands).id] \in Messages
    BY <1>11, TailAt, CommandFields, MessagesMade DEF TakesCommand, TypedDriver
  <2>. QED
    BY <1>11, <2>1, <1>9 DEF TakesCommand
<1>12. CASE Inspect \/ Resume
  BY <1>11, <1>12 DEF Inspect, Resume
<1>13. ASSUME NEW f \in Fiber, Serve(f) PROVE TypedConnection'
  BY <1>13, MessagesMade DEF Serve, TypedDriver
<1>14. ASSUME NEW f \in Task, EndTask(f) PROVE TypedConnection'
  BY <1>14, MessagesMade DEF EndTask
<1>15. CASE Run \/ Yield \/ EndMain \/ (\E f \in Task : Spawn(f)) \/ (\E f \in Fiber : Compute(f) \/ Halt(f) \/ Cancel(f))
  BY <1>7, <1>15 DEF Run, EndMain, Spawn, Compute, Yield, Runs, Halt, Cancel
<1>. QED
  BY <1>2, <1>3, <1>4, <1>5, <1>6, <1>8, <1>10, <1>12, <1>13, <1>14, <1>15, <1>16
     DEF Next, Adapter, Server, Program

\* The program.
LEMMA ProgramTyped == Typed /\ Next => TypedProgram'
<1>. SUFFICES ASSUME Typed, Next PROVE TypedProgram'
  OBVIOUS
<1>. USE DEF Typed, TypedProgram
<1>1. CASE UNCHANGED program
  BY <1>1 DEF program
<1>2. CASE Dies
  BY <1>2 DEF Dies
<1>3. CASE Asks
  BY <1>1, <1>3, AsksOnly
<1>4. CASE Start \/ StartFails \/ Pause
  <2>1. CASE Start \/ StartFails
    BY <2>1 DEF Start, StartFails
  <2>2. CASE Pause
    BY <2>2 DEF Pause, Runs
  <2>. QED
    BY <1>4, <2>1, <2>2
<1>5. CASE SetBreakpoints \/ Connect \/ Forward \/ TakeAnswer \/ TakeStopped \/ TakeEnded \/ DriverClosed
           \/ Exited
  BY <1>1, <1>5 DEF SetBreakpoints, Connect, Forward, TakeAnswer, TakeStopped, TakeEnded, DriverClosed, Exited
<1>6. CASE Terminate \/ Disconnect \/ AdapterDies \/ Exit
  BY <1>1, <1>2, <1>6 DEF Terminate, Disconnect, AdapterDies, Exit, Kills
<1>7. CASE Reader
  <2>1. CASE ReadLaunch
    BY <2>1 DEF ReadLaunch, Reads, Idle
  <2>2. CASE ReadBreakpoints \/ ReadEval \/ ReadAboutStop \/ HangUp
    BY <1>1, <2>2 DEF ReadBreakpoints, ReadEval, ReadAboutStop, HangUp
  <2>. QED
    BY <1>7, <2>1, <2>2 DEF Reader
<1>8. CASE Server
  <2>1. CASE Resume
    BY <2>1 DEF Resume, TakesCommand, TypedDriver
  <2>2. CASE Disconnected
    BY <1>2, <2>2 DEF Disconnected, TypedDriver
  <2>3. CASE Inspect \/ \E f \in Fiber : Serve(f)
    BY <1>1, <2>3 DEF Inspect, Serve
  <2>. QED
    BY <1>8, <2>1, <2>2, <2>3 DEF Server
<1>9. CASE Run \/ Yield \/ EndMain
  BY <1>9 DEF Run, Yield, EndMain
<1>10. ASSUME NEW f \in Task, Spawn(f) \/ EndTask(f) PROVE TypedProgram'
  BY <1>10 DEF Spawn, EndTask, Runs
<1>11. ASSUME NEW f \in Fiber, Compute(f) \/ Halt(f) \/ Cancel(f) PROVE TypedProgram'
  BY <1>11 DEF Compute, Halt, Cancel, Runs
<1>. QED
  BY <1>3, <1>4, <1>5, <1>6, <1>7, <1>8, <1>9, <1>10, <1>11 DEF Next, Adapter, Program

\* The driver.
LEMMA DriverTyped == Typed /\ Next => TypedDriver'
<1>. SUFFICES ASSUME Typed, Next PROVE TypedDriver'
  OBVIOUS
<1>. USE DEF Typed, TypedDriver
<1>1. CASE UNCHANGED driver
  BY <1>1 DEF driver
<1>2. CASE Dies
  <2>1. attached' \in BOOLEAN
    BY <1>2, Zenon DEF Dies
  <2>. QED
    BY <1>2, <2>1 DEF Dies
<1>3. CASE Asks \/ Adapter \/ AdapterDies
  BY <1>1, <1>2, <1>3 DEF Asks, Ask, Configures, Starts, Inspects, Resumes, Evaluates, Pauses, Terminates,
     Leaves, Adapter, SetBreakpoints, Start, StartFails, Connect, Forward, Pause, Terminate, Disconnect, AdapterDies,
     Kills, TakeAnswer, TakeStopped, TakeEnded, DriverClosed, Exited, driver
<1>4. CASE Reader
  <2>1. ASSUME NEW kind, Reads(kind)
        PROVE  Head(cmds).id \in 0..MaxRequests /\ (kind \in AboutStop => Head(cmds) \in Commands)
    BY <2>1, TailAt, LineFields DEF Reads, TypedConnection
  <2>2. CASE ReadAboutStop
    BY <2>1, <2>2 DEF ReadAboutStop, AboutStop
  <2>3. CASE HangUp
    <3>1. attached' \in BOOLEAN
      BY <2>3, Zenon DEF HangUp
    <3>. QED
      BY <2>3, <3>1 DEF HangUp
  <2>. QED
    BY <1>1, <1>4, <2>1, <2>2, <2>3 DEF Reader, ReadBreakpoints, ReadLaunch, ReadEval
<1>5. ASSUME NEW kinds, TakesCommand(kinds)
      PROVE  commands' \in Seq(Commands) /\ served' \in [about : Nat, by : Nat]
  BY <1>5, TailAt, CommandFields DEF TakesCommand
<1>6. CASE Inspect \/ Resume
  BY <1>5, <1>6 DEF Inspect, Resume
<1>7. CASE Disconnected
  BY <1>2, <1>7 DEF Disconnected
<1>8. CASE \E f \in Fiber : Serve(f) \/ Cancel(f)
  BY <1>8 DEF Serve, Cancel
<1>9. CASE EndMain
  <2>1. attached' \in BOOLEAN
    BY <1>9, Zenon DEF EndMain
  <2>2. commands' \in {commands, <<>>} /\ UNCHANGED <<wanted, serving, number, named, served>>
    BY <1>9 DEF EndMain
  <2>3. <<>> \in Seq(Commands)
    OBVIOUS
  <2>. QED
    BY <2>1, <2>2, <2>3
<1>10. CASE Program
  BY <1>1, <1>2, <1>9, <1>10 DEF Program, Run, Exit, Spawn, EndTask, Compute, Yield, Runs, Halt
<1>. QED
  BY <1>3, <1>4, <1>6, <1>7, <1>8, <1>10 DEF Next, Server

\* Types are kept.
LEMMA StepTyped == Typed /\ [Next]_vars => Typed'
<1>1. Typed /\ UNCHANGED vars => Typed'
  BY DEF Typed, TypedEditor, TypedAdapter, TypedConnection, TypedProgram, TypedDriver, vars, editor,
     adapter, program, driver
<1>. QED
  BY <1>1, EditorTyped, AdapterTyped, ConnectionTyped, ProgramTyped, DriverTyped DEF Typed

-----------------------------------------------------------------------------
(* How the parts of a session come and go. *)

\* A request that is asked goes to the end of the queue.
LEMMA AskAt ==
    ASSUME Typed, NEW kind \in AboutStop \cup {"breakpoints", "configurationDone", "pause", "terminate",
                                                "disconnect"},
           Ask(kind)
    PROVE  /\ [id |-> sent + 1, kind |-> kind, about |-> view] \in Requests
           /\ asked' = Append(asked, [id |-> sent + 1, kind |-> kind, about |-> view])
           /\ DOMAIN asked = 1..Len(asked) /\ Len(asked) \in Nat
           /\ \A i \in DOMAIN asked : i \in DOMAIN asked' /\ asked'[i] = asked[i]
           /\ \A i \in DOMAIN asked' : i \in DOMAIN asked \/ i = Len(asked) + 1
           /\ Len(asked) + 1 \in DOMAIN asked'
           /\ asked'[Len(asked) + 1] = [id |-> sent + 1, kind |-> kind, about |-> view]
           /\ asked'[Len(asked) + 1].id = sent + 1 /\ asked'[Len(asked) + 1].kind = kind
           /\ asked'[Len(asked) + 1].about = view
<1>1. [id |-> sent + 1, kind |-> kind, about |-> view] \in Requests
  BY DEF Ask, Requests, Typed, TypedEditor
<1>. QED
  BY <1>1, AppendAt DEF Ask, Typed, TypedEditor

\* A request that is taken leaves the front of it.
LEMMA TakesAt ==
    ASSUME Typed, NEW kinds, Takes(kinds)
    PROVE  /\ session \in {"configuring", "running"}
           /\ 1 \in DOMAIN asked /\ Request = asked[1] /\ Request.kind \in kinds /\ Request \in Requests
           /\ DOMAIN asked \subseteq Nat /\ DOMAIN asked' \subseteq Nat \ {0}
           /\ \A i \in DOMAIN asked' : i + 1 \in DOMAIN asked /\ asked'[i] = asked[i + 1]
           /\ \A i \in DOMAIN asked : i # 1 => i - 1 \in DOMAIN asked' /\ asked[i] = asked'[i - 1]
BY TailAt DEF Takes, Request, Typed, TypedEditor

\* Everything else leaves the queue of requests alone.
TakesRequest == SetBreakpoints \/ Start \/ Forward \/ Pause \/ Terminate \/ Disconnect

LEMMA OthersLeaveAsked == Next /\ ~Asks /\ ~TakesRequest => UNCHANGED <<asked, sent>>
BY DEF Next, Adapter, AdapterDies, TakesRequest, StartFails, Connect, TakeAnswer, TakeStopped, TakeEnded, DriverClosed,
   Exited, editor, Reader, ReadBreakpoints, ReadLaunch, ReadEval, ReadAboutStop, HangUp,
   Server, Inspect, Resume, Disconnected, Serve, Program, Run, EndMain, Exit, Spawn, EndTask, Compute, Yield, Runs, Halt, Cancel

\* The state of the session changes with a start, its outcome and its end.
LEMMA SessionSteps ==
    Next => \/ UNCHANGED session
            \/ Start
            \/ session = "starting" /\ session' = "running"
            \/ Disconnect \/ AdapterDies
<1>. SUFFICES ASSUME Next, ~Start, ~Disconnect, ~AdapterDies
              PROVE  UNCHANGED session \/ (session = "starting" /\ session' = "running")
  OBVIOUS
<1>1. CASE Asks
  BY <1>1, AsksOnly DEF adapter
<1>2. CASE Adapter
  BY <1>2 DEF Adapter, SetBreakpoints, StartFails, Connect, Forward, Pause, Terminate, TakeAnswer, TakeStopped,
     TakeEnded, DriverClosed, Exited, adapter
<1>3. CASE Reader \/ Server \/ Program \/ \E f \in Fiber : Cancel(f)
  BY <1>3 DEF Reader, ReadBreakpoints, ReadLaunch, ReadEval, ReadAboutStop, HangUp,
     Server, Inspect, Resume, Disconnected, Serve, Program, Run, EndMain, Exit, Spawn, EndTask, Compute, Yield, Runs, Halt, Cancel,
     adapter
<1>. QED
  BY <1>1, <1>2, <1>3 DEF Next

\* A second start is never asked for.
LEMMA StepStartedOnce == Typed /\ StartedOnce /\ [Next]_vars => StartedOnce'
<1>. SUFFICES ASSUME Typed, StartedOnce, [Next]_vars PROVE StartedOnce'
  OBVIOUS
<1>. USE DEF StartedOnce
<1>1. CASE UNCHANGED vars
  BY <1>1 DEF vars, editor, adapter
<1>2. CASE Asks
  <2>1. CASE Starts
    BY <2>1, AskAt DEF Starts, adapter, Ask, AboutStop
  <2>2. ASSUME NEW kind \in AboutStop \cup {"breakpoints", "pause", "terminate", "disconnect"}, Ask(kind),
               kind \in AboutStop => Started
        PROVE  StartedOnce'
    <3>1. UNCHANGED session /\ (kind \in AboutStop => session = "running")
      BY <2>2 DEF Ask, adapter, Started
    <3>. QED
      BY <2>2, <3>1, AskAt DEF AboutStop
  <2>. QED
    BY <1>2, <2>1, <2>2
       DEF Asks, Configures, Inspects, Resumes, Evaluates, Pauses, Terminates, Leaves, AboutStop
<1>3. CASE TakesRequest
  <2>1. CASE Start
    BY <2>1, TakesAt DEF Start
  <2>2. ASSUME NEW kinds, Takes(kinds), session' \in {session, "gone"} PROVE StartedOnce'
    BY <2>2, TakesAt
  <2>. QED
    BY <1>3, <2>1, <2>2 DEF TakesRequest, SetBreakpoints, Forward, Pause, Terminate, Disconnect, adapter
<1>4. CASE Next /\ ~Asks /\ ~TakesRequest
  <2>1. UNCHANGED asked /\ (UNCHANGED session \/ session' = "gone" \/ (session = "starting" /\ session' = "running"))
    BY <1>4, OthersLeaveAsked, SessionSteps DEF TakesRequest, AdapterDies
  <2>. QED
    BY <2>1
<1>. QED
  BY <1>1, <1>2, <1>3, <1>4

\* Nothing happens before the driver connects, but what a REPL is evaluating.
LEMMA StepNotStarted == Typed /\ StartedOnce /\ NotStarted /\ [Next]_vars => NotStarted'
<1>. SUFFICES ASSUME Typed, StartedOnce, NotStarted, [Next]_vars, session' \in {"configuring", "starting"}
              PROVE  NotStarted'
  BY DEF NotStarted
<1>. USE DEF NotStarted
<1>1. CASE UNCHANGED vars
  BY <1>1 DEF vars, editor, adapter, program, driver
<1>2. CASE Asks
  BY <1>2, AsksOnly DEF adapter, program, driver
<1>3. CASE SetBreakpoints
  <2>1. UNCHANGED <<mode, session, stopped, threads, connected, hears, watching, wire, view,
                    program, driver>>
    BY <1>3 DEF SetBreakpoints
  <2>2. ~connected => UNCHANGED cmds
    BY <1>3 DEF SetBreakpoints
  <2>. QED
    BY <2>1, <2>2 DEF program, driver
<1>10. CASE Start
  <2>1. session = "configuring"
    BY <1>10, TakesAt DEF Start, StartedOnce
  <2>. QED
    BY <1>10, <2>1 DEF Start, driver
<1>4. CASE Forward
  BY <1>4 DEF Forward, Forwards, Refuses, Takes, program, driver
<1>5. CASE Pause \/ Terminate
  BY <1>5 DEF Pause, Terminate, Kills, Takes, adapter, program, driver
<1>6. CASE StartFails \/ Connect \/ Disconnect \/ AdapterDies \/ TakeAnswer \/ TakeStopped \/ TakeEnded
           \/ DriverClosed \/ Exited
  BY <1>6 DEF StartFails, Connect, Disconnect, AdapterDies, TakeAnswer, TakeStopped, TakeEnded, Hears, DriverClosed, Exited
<1>7. CASE Reader \/ Inspect \/ Resume \/ Disconnected
  BY <1>7 DEF Reader, ReadBreakpoints, ReadLaunch, ReadEval, ReadAboutStop, Reads, HangUp, Inspect, Resume,
     TakesCommand, Disconnected, adapter
<1>8. CASE \E f \in Fiber : Serve(f) \/ Halt(f) \/ Cancel(f)
  BY <1>8 DEF Serve, Compute, Yield, Runs, Halt, Cancel, adapter, Typed, TypedEditor
<1>9. CASE Run \/ Yield \/ EndMain \/ Exit \/ (\E f \in Task : Spawn(f) \/ EndTask(f)) \/ \E f \in Fiber : Compute(f)
  <2>1. CASE Run \/ Yield
    BY <2>1 DEF Run, Yield, adapter, editor, driver, Typed, TypedEditor, TypedProgram
  <2>2. CASE EndMain
    BY <2>2 DEF EndMain, Runs, adapter, editor, driver, Typed, TypedEditor, TypedProgram
  <2>3. CASE Exit
    BY <2>3 DEF Exit, adapter, editor, driver, Typed, TypedEditor, TypedProgram
  <2>4. CASE \E f \in Task : Spawn(f) \/ EndTask(f)
    BY <2>4 DEF Spawn, EndTask, Runs, adapter, editor, driver, Typed, TypedEditor, TypedProgram
  <2>5. CASE \E f \in Fiber : Compute(f)
    BY <2>5 DEF Compute, Runs, adapter, editor, driver, Typed, TypedEditor, TypedProgram
  <2>. QED
    BY <1>9, <2>1, <2>2, <2>3, <2>4, <2>5
<1>. QED
  BY <1>1, <1>2, <1>3, <1>4, <1>5, <1>6, <1>7, <1>8, <1>9, <1>10 DEF Next, Adapter, Server, Program

\* Only what lives acts; who is served is halted until it is resumed, cancelled or dead.
LEMMA StepAlive == Typed /\ StartedOnce /\ NotStarted /\ LaunchLine /\ Alive /\ [Next]_vars => Alive'
<1>. SUFFICES ASSUME Typed, StartedOnce, NotStarted, LaunchLine, Alive, [Next]_vars PROVE Alive'
  OBVIOUS
<1>. USE DEF Alive
<1>1. CASE UNCHANGED vars
  BY <1>1 DEF vars, adapter, program, driver
<1>2. CASE Asks
  BY <1>2, AsksOnly DEF adapter, program, driver
<1>3. CASE SetBreakpoints \/ Forward \/ TakeAnswer \/ TakeStopped \/ TakeEnded \/ DriverClosed \/ Exited
  BY <1>3 DEF SetBreakpoints, Forward, TakeAnswer, TakeStopped, TakeEnded, DriverClosed, Exited, program, driver
<1>4. CASE Start \/ StartFails \/ Connect
  <2>1. CASE Start
    <3>1. session = "configuring"
      BY <2>1, TakesAt DEF Start, StartedOnce
    <3>. QED
      BY <2>1, <3>1 DEF Start, NotStarted, driver
  <2>2. CASE StartFails
    BY <1>4, <2>2 DEF StartFails, NotStarted, driver, Typed, TypedEditor
  <2>3. CASE Connect
    BY <1>4, <2>3 DEF Connect, NotStarted, program
  <2>. QED
    BY <1>4, <2>1, <2>2, <2>3
<1>5. CASE Pause
  BY <1>5 DEF Pause, Runs, adapter, driver, Typed, TypedProgram, TypedDriver
<1>6. CASE Terminate \/ Disconnect \/ AdapterDies \/ Exit \/ Disconnected
  BY <1>6 DEF Terminate, Disconnect, AdapterDies, Exit, Disconnected, Kills, Dies, adapter, program, driver, Typed,
     TypedProgram, TypedDriver
<1>7. CASE ReadBreakpoints \/ ReadEval \/ ReadAboutStop \/ HangUp
  BY <1>7 DEF ReadBreakpoints, ReadEval, ReadAboutStop, HangUp, Reads, adapter, program, driver
<1>8. CASE ReadLaunch
  <2>1. fiber[Main] = "none" /\ attached /\ serving # Main
    BY <1>8, TailAt DEF ReadLaunch, Reads, LaunchLine, Typed, TypedConnection
  <2>. QED
    BY <1>8, <2>1 DEF ReadLaunch, adapter, driver, Typed, TypedProgram, TypedDriver
<1>9. CASE Inspect \/ Resume
  BY <1>9 DEF Inspect, Resume, TakesCommand, adapter, program, Typed, TypedProgram, TypedDriver
<1>10. CASE Yield \/ \E f \in Fiber : Serve(f) \/ Compute(f) \/ Halt(f) \/ Cancel(f)
  <2>. USE DEF adapter, driver, Typed, TypedProgram, TypedDriver
  <2>1. CASE Yield \/ \E f \in Fiber : Compute(f)
    BY <2>1 DEF Yield, Compute
  <2>2. CASE \E f \in Fiber : Serve(f)
    BY <2>2 DEF Serve, program
  <2>3. CASE \E f \in Fiber : Halt(f)
    BY <2>3 DEF Halt, Runs
  <2>4. CASE \E f \in Fiber : Cancel(f)
    BY <2>4 DEF Cancel
  <2>. QED
    BY <1>10, <2>1, <2>2, <2>3, <2>4
<1>11. CASE Run \/ EndMain \/ \E f \in Task : Spawn(f) \/ EndTask(f)
  <2>. USE DEF adapter, driver, Typed, TypedProgram, TypedDriver
  <2>1. CASE Run
    BY <2>1 DEF Run
  <2>2. CASE EndMain
    BY <2>2 DEF EndMain, Runs
  <2>3. CASE \E f \in Task : Spawn(f)
    BY <2>3 DEF Spawn, Runs
  <2>4. CASE \E f \in Task : EndTask(f)
    BY <2>4 DEF EndTask, Runs
  <2>. QED
    BY <1>11, <2>1, <2>2, <2>3, <2>4
<1>. QED
  BY <1>1, <1>2, <1>3, <1>4, <1>5, <1>6, <1>7, <1>8, <1>9, <1>10, <1>11
     DEF Next, Adapter, Reader, Server, Program

-----------------------------------------------------------------------------
(* The lines to the driver. *)

\* A line the driver reads leaves the front of the queue.
LEMMA ReadsAt ==
    ASSUME Typed, NEW kind, Reads(kind)
    PROVE  /\ attached /\ Idle
           /\ 1 \in DOMAIN cmds /\ Head(cmds) = cmds[1] /\ cmds[1].kind = kind /\ cmds[1] \in Lines
           /\ DOMAIN cmds \subseteq Nat \ {0} /\ DOMAIN cmds' \subseteq Nat \ {0}
           /\ \A i \in DOMAIN cmds' : i + 1 \in DOMAIN cmds /\ cmds'[i] = cmds[i + 1]
           /\ \A i \in DOMAIN cmds : i # 1 => i - 1 \in DOMAIN cmds' /\ cmds[i] = cmds'[i - 1]
BY TailAt DEF Reads, Typed, TypedConnection

\* A line for the driver goes to the end of it.
LEMMA SendsAt ==
    ASSUME Typed, NEW line \in Lines, cmds' = Append(cmds, line)
    PROVE  /\ DOMAIN cmds \subseteq 1..Len(cmds) /\ Len(cmds) \in Nat
           /\ \A i \in DOMAIN cmds : i \in DOMAIN cmds' /\ cmds'[i] = cmds[i]
           /\ \A i \in DOMAIN cmds' : i \in DOMAIN cmds \/ i = Len(cmds) + 1
           /\ Len(cmds) + 1 \in DOMAIN cmds' /\ cmds'[Len(cmds) + 1] = line
BY AppendAt DEF Typed, TypedConnection

\* What the editor asks for becomes at most one line, of the same number.
LEMMA ForwardSends ==
    ASSUME Typed, Forward
    PROVE  \/ /\ UNCHANGED <<cmds, stopped, pending>> /\ answers' = Answered({Request.id})
              /\ ~(stopped /\ connected /\ attached)
           \/ \E kind \in AboutStop \cup {"eval"} :
                /\ [kind |-> kind, id |-> Request.id, about |-> Request.about] \in Lines
                /\ cmds' = Append(cmds, [kind |-> kind, id |-> Request.id, about |-> Request.about])
                /\ connected /\ pending' = pending \cup {Request.id} /\ UNCHANGED answers
                /\ \/ kind = "eval" /\ Request.kind = "evaluate" /\ ~stopped /\ ~stopped'
                   \/ kind = Request.kind /\ stopped /\ (stopped' <=> kind # "resume")
<1>1. Request.kind \in AboutStop
  BY TakesAt DEF Forward, AboutStop
<1>2. \A kind \in AboutStop \cup {"eval"} :
        [kind |-> kind, id |-> Request.id, about |-> Request.about] \in Lines
  BY RequestTaken, LinesMade DEF Forward, Typed
<1>3. CASE Running /\ Forwards("eval") /\ UNCHANGED stopped
  BY <1>2, <1>3 DEF Running, Forwards
<1>4. CASE stopped /\ Forwards(Request.kind) /\ stopped' = (Request.kind # "resume")
  BY <1>1, <1>2, <1>4 DEF Forwards
<1>5. CASE /\ (~stopped /\ ~Running) \/ ~connected \/ WriteFails
           /\ Refuses
  BY <1>5 DEF Refuses, WriteFails
<1>. QED
  BY <1>3, <1>4, <1>5 DEF Forward

\* What a change of breakpoints sends.
LEMMA SetBreakpointsSends ==
    ASSUME Typed, SetBreakpoints
    PROVE  /\ [kind |-> "breakpoints", id |-> Request.id] \in Lines
           /\ \/ UNCHANGED <<cmds, breakpoints>> /\ ~(connected /\ attached)
              \/ /\ cmds' = Append(cmds, [kind |-> "breakpoints", id |-> Request.id])
                 /\ breakpoints' = Request.id
              \/ ~connected /\ UNCHANGED cmds /\ breakpoints' = Request.id
<1>1. [kind |-> "breakpoints", id |-> Request.id] \in Lines
  BY RequestTaken, LinesMade DEF SetBreakpoints, Typed
<1>. QED
  BY <1>1 DEF SetBreakpoints, WriteFails

\* Two lines sent at once.
LEMMA TwoLines ==
    ASSUME NEW a, NEW b
    PROVE  DOMAIN (<<a>> \o <<b>>) = {1, 2} /\ (<<a>> \o <<b>>)[1] = a /\ (<<a>> \o <<b>>)[2] = b
<1>1. <<a>> \in Seq({a, b}) /\ <<b>> \in Seq({a, b}) /\ Len(<<a>>) = 1 /\ Len(<<b>>) = 1
  OBVIOUS
<1>2. Len(<<a>> \o <<b>>) = 2 /\ <<a>> \o <<b>> \in Seq({a, b})
  BY <1>1
<1>3. DOMAIN (<<a>> \o <<b>>) = 1..2
  BY <1>2
<1>. QED
  BY <1>1, <1>3

\* A launched program is started once, with its breakpoints in place.
LEMMA StepLaunchLine == Typed /\ NotStarted /\ Alive /\ LaunchLine /\ [Next]_vars => LaunchLine'
<1>. SUFFICES ASSUME Typed, NotStarted, Alive, LaunchLine, [Next]_vars PROVE LaunchLine'
  OBVIOUS
<1>. USE DEF LaunchLine
<1>1. CASE UNCHANGED vars
  BY <1>1 DEF vars, program, driver
<1>2. CASE Asks
  BY <1>2, AsksOnly DEF program, driver
<1>3. ASSUME UNCHANGED <<mode, program, wanted>>, NEW line \in Lines, line.kind # "launch",
             cmds' = Append(cmds, line)
      PROVE  LaunchLine'
  BY <1>3, SendsAt DEF program
<1>4. CASE UNCHANGED <<cmds, mode, program, wanted>>
  BY <1>4 DEF program
<1>5. CASE SetBreakpoints
  BY <1>3, <1>4, <1>5, SetBreakpointsSends DEF SetBreakpoints, driver
<1>6. CASE Forward
  BY <1>3, <1>4, <1>6, ForwardSends DEF Forward, driver, AboutStop
<1>7. CASE Start \/ TakeAnswer \/ TakeStopped \/ TakeEnded \/ DriverClosed \/ Exited
  BY <1>7 DEF Start, TakeAnswer, TakeStopped, TakeEnded, DriverClosed, Exited, driver, program
<1>8. CASE StartFails
  BY <1>8 DEF StartFails, NotStarted
<1>9. CASE Connect
  <2>1. UNCHANGED <<mode, program, wanted>>
    BY <1>9 DEF Connect
  <2>2. CASE mode = "launch"
    <3>1. cmds' = <<[kind |-> "breakpoints", id |-> breakpoints]>> \o
                  <<[kind |-> "launch", id |-> breakpoints]>>
      BY <1>9, <2>2 DEF Connect
    <3>2. /\ DOMAIN cmds' = {1, 2} /\ cmds'[1].id = cmds'[2].id
          /\ cmds'[1].kind = "breakpoints" /\ cmds'[2].kind = "launch"
      BY <3>1, TwoLines
    <3>3. \A f \in Fiber : fiber[f] = "none"
      BY <1>9, <2>2 DEF Connect, NotStarted
    <3>. QED
      BY <2>1, <2>2, <3>2, <3>3 DEF program
  <2>3. CASE mode # "launch"
    <3>1. cmds' = <<[kind |-> "breakpoints", id |-> breakpoints]>>
      BY <1>9, <2>3 DEF Connect
    <3>. QED
      BY <3>1
  <2>. QED
    BY <2>2, <2>3
<1>10. CASE cmds' = <<>>
  BY <1>10
<1>11. CASE Terminate \/ Disconnect \/ AdapterDies \/ Exit \/ Disconnected
  BY <1>4, <1>10, <1>11 DEF Terminate, Disconnect, AdapterDies, Exit, Disconnected, Kills, Dies, driver, program, Alive
<1>12. CASE Pause
  BY <1>4, <1>12 DEF Pause, Runs, program, driver
<1>13. CASE Reader
  <2>1. CASE ReadBreakpoints
    BY <2>1, ReadsAt DEF ReadBreakpoints, program
  <2>2. CASE ReadLaunch
    BY <2>2, ReadsAt DEF ReadLaunch
  <2>3. ASSUME NEW kind, Reads(kind), UNCHANGED <<mode, program, wanted>>, kind \notin {"breakpoints", "launch"}
        PROVE  LaunchLine'
    BY <2>3, ReadsAt DEF program
  <2>4. CASE HangUp
    BY <2>4 DEF HangUp
  <2>. QED
    BY <1>13, <2>1, <2>2, <2>3, <2>4 DEF Reader, ReadEval, ReadAboutStop, driver
<1>14. CASE Inspect \/ Resume \/ \E f \in Fiber : Serve(f) \/ Compute(f) \/ Halt(f) \/ Cancel(f)
  BY <1>14 DEF Inspect, Resume, TakesCommand, Serve, Compute, Yield, Runs, Halt, Cancel, program, driver, Alive, Typed, TypedDriver
<1>15. CASE Run \/ Yield \/ EndMain \/ \E f \in Task : Spawn(f) \/ EndTask(f)
  <2>1. CASE Run \/ Yield \/ \E f \in Task : Spawn(f) \/ EndTask(f)
    <3>. USE DEF driver
    <3>1. CASE Run \/ Yield
      BY <3>1 DEF Run, Yield
    <3>2. CASE \E f \in Task : Spawn(f)
      BY <3>2 DEF Spawn, Runs
    <3>3. CASE \E f \in Task : EndTask(f)
      BY <3>3 DEF EndTask, Runs
    <3>. QED
      BY <2>1, <3>1, <3>2, <3>3
  <2>2. CASE EndMain
    BY <2>2, <1>10 DEF EndMain
  <2>. QED
    BY <1>15, <2>1, <2>2
<1>. QED
  BY <1>1, <1>2, <1>5, <1>6, <1>7, <1>8, <1>9, <1>11, <1>12, <1>13, <1>14, <1>15
     DEF Next, Adapter, Server, Program

\* Stops are numbered from one, and the editor is shown those.
LEMMA StepNumbers == Typed /\ Numbers /\ [Next]_vars => Numbers'
<1>. SUFFICES ASSUME Typed, Numbers, [Next]_vars PROVE Numbers'
  OBVIOUS
<1>. USE DEF Numbers
<1>1. ASSUME view' \in {0, view}, UNCHANGED <<number, wire>> PROVE Numbers'
  BY <1>1 DEF Typed, TypedDriver
<1>2. ASSUME NEW m \in Messages, m.kind # "stopped", wire' \in {wire, Append(wire, m)}, UNCHANGED <<number, view>>
      PROVE  Numbers'
  <2>1. CASE wire' = wire
    BY <1>2, <2>1
  <2>2. CASE wire' = Append(wire, m)
    <3>1. \A i \in DOMAIN wire' : (i \in DOMAIN wire /\ wire'[i] = wire[i]) \/ wire'[i] = m
      BY <2>2, AppendAt DEF Typed, TypedConnection
    <3>. QED
      BY <1>2, <3>1
  <2>. QED
    BY <1>2, <2>1, <2>2
<1>3. CASE UNCHANGED vars
  BY <1>1, <1>3 DEF vars, editor, driver
<1>4. CASE Asks
  BY <1>1, <1>4 DEF Asks, Ask, Configures, Starts, Inspects, Resumes, Evaluates, Pauses, Terminates, Leaves, driver
<1>5. CASE SetBreakpoints \/ Start \/ StartFails \/ Connect \/ Forward \/ Pause \/ Terminate \/ Disconnect \/ AdapterDies
           \/ DriverClosed \/ Exited
  <2>1. view' \in {0, view} /\ UNCHANGED <<number, wire>>
    BY <1>5 DEF AdapterDies, Terminate, Disconnect, Kills, Dies, SetBreakpoints, Start, StartFails, Connect, Forward,
       Pause, DriverClosed, Exited, driver, editor
  <2>. QED
    BY <1>1, <2>1
<1>6. CASE TakeAnswer \/ TakeStopped \/ TakeEnded
  <2>1. /\ UNCHANGED number /\ wire # <<>> /\ wire' = Tail(wire)
        /\ view' # view => view' = Head(wire).number /\ Head(wire).kind = "stopped"
    BY <1>6 DEF TakeAnswer, TakeStopped, TakeEnded, Hears, editor, driver
  <2>2. /\ 1 \in DOMAIN wire /\ Head(wire) = wire[1]
        /\ \A i \in DOMAIN wire' : i + 1 \in DOMAIN wire /\ wire'[i] = wire[i + 1]
    BY <2>1, TailAt DEF Typed, TypedConnection
  <2>3. view' \in 0..number
    BY <2>1, <2>2 DEF Typed, TypedDriver
  <2>. QED
    BY <2>1, <2>2, <2>3
<1>7. CASE ReadBreakpoints \/ ReadLaunch \/ ReadAboutStop \/ HangUp
  BY <1>1, <1>7 DEF ReadBreakpoints, ReadLaunch, ReadAboutStop, HangUp, editor, driver
<1>8. CASE ReadEval
  <2>1. [kind |-> "answer", id |-> Head(cmds).id] \in Messages
    BY <1>8, ReadsAt, LineFields, MessagesMade DEF ReadEval
  <2>. QED
    BY <1>2, <1>8, <2>1 DEF ReadEval, Tell, editor, driver
<1>9. CASE Inspect \/ Resume
  <2>1. [kind |-> "answer", id |-> Head(commands).id] \in Messages
    BY <1>9, TailAt, CommandFields, MessagesMade DEF Inspect, Resume, TakesCommand, Typed, TypedDriver
  <2>. QED
    BY <1>2, <1>9, <2>1 DEF Inspect, Resume, TakesCommand, Tell, editor
<1>10. CASE Disconnected \/ Exit
  BY <1>1, <1>10 DEF Disconnected, Exit, Dies, editor
<1>11. ASSUME NEW f \in Fiber, Serve(f) PROVE Numbers'
  <2>1. [kind |-> "stopped", fiber |-> f, number |-> number + 1] \in Messages
    BY MessagesMade DEF Typed, TypedDriver
  <2>2. /\ number' = number + 1 /\ view' = view
        /\ wire' \in {wire, Append(wire, [kind |-> "stopped", fiber |-> f, number |-> number + 1])}
    BY <1>11 DEF Serve, editor
  <2>3. CASE wire' = wire
    BY <2>2, <2>3 DEF Typed, TypedDriver
  <2>4. CASE wire' = Append(wire, [kind |-> "stopped", fiber |-> f, number |-> number + 1])
    <3>1. \A i \in DOMAIN wire' : (i \in DOMAIN wire /\ wire'[i] = wire[i]) \/ wire'[i].number = number + 1
      BY <2>1, <2>4, AppendAt DEF Typed, TypedConnection
    <3>. QED
      BY <2>2, <3>1 DEF Typed, TypedDriver
  <2>. QED
    BY <2>2, <2>3, <2>4
<1>12. ASSUME NEW f \in Task, EndTask(f) PROVE Numbers'
  <2>1. [kind |-> "ended", fiber |-> f] \in Messages
    BY MessagesMade
  <2>. QED
    BY <1>2, <1>12, <2>1 DEF EndTask, editor
<1>13. CASE Run \/ Yield \/ EndMain \/ (\E f \in Task : Spawn(f)) \/ \E f \in Fiber : Compute(f) \/ Halt(f) \/ Cancel(f)
  BY <1>1, <1>13 DEF Run, EndMain, Spawn, Compute, Yield, Runs, Halt, Cancel, editor, driver
<1>. QED
  BY <1>3, <1>4, <1>5, <1>6, <1>7, <1>8, <1>9, <1>10, <1>11, <1>12, <1>13 DEF Next, Adapter, Reader, Server, Program

-----------------------------------------------------------------------------
(* Answers. *)

\* Answering touches no other request.
LEMMA AnsweredAt ==
    ASSUME answers \in [Id -> Nat], NEW ids, answers' = Answered(ids)
    PROVE  \A id \in Id : answers'[id] = IF id \in ids THEN answers[id] + 1 ELSE answers[id]
BY DEF Answered

\* All there is to answering: the editor asks, the adapter answers or leaves the
\* answer to the driver, the driver answers or is gone.
LEMMA AnswerSteps ==
    ASSUME Typed, Next, ~Asks
    PROVE  \/ /\ TakesRequest /\ UNCHANGED sent
              /\ \/ answers' = Answered({Request.id}) /\ UNCHANGED pending
                 \/ answers' = answers /\ pending' \in {pending \cup {Request.id}, {Request.id}}
           \/ /\ UNCHANGED <<asked, sent>>
              /\ \/ UNCHANGED <<answers, pending>>
                 \/ \E ids \in SUBSET pending : answers' = Answered(ids) /\ pending' = pending \ ids
<1>1. CASE SetBreakpoints \/ Pause \/ Terminate \/ Disconnect
  BY <1>1 DEF SetBreakpoints, Pause, Terminate, Disconnect, TakesRequest, adapter
<1>2. CASE Start
  BY <1>2 DEF Start, TakesRequest
<1>3. CASE Forward
  BY <1>3, ForwardSends DEF Forward, TakesRequest
<1>4. CASE StartFails \/ Connect \/ DriverClosed
  <2>1. UNCHANGED <<asked, sent>> /\ answers' = Answered(pending) /\ pending' = {}
    BY <1>4 DEF StartFails, Connect, DriverClosed
  <2>2. pending \in SUBSET pending /\ pending \ pending = {}
    OBVIOUS
  <2>. QED
    BY <2>1, <2>2
<1>5. CASE TakeAnswer
  <2>1. /\ UNCHANGED <<asked, sent>>
        /\ answers' = Answered({Head(wire).id} \cap pending)
        /\ pending' = pending \ {Head(wire).id}
    BY <1>5 DEF TakeAnswer
  <2>2. /\ {Head(wire).id} \cap pending \in SUBSET pending
        /\ pending \ {Head(wire).id} = pending \ ({Head(wire).id} \cap pending)
    OBVIOUS
  <2>. QED
    BY <2>1, <2>2
<1>6. CASE AdapterDies \/ TakeStopped \/ TakeEnded \/ Exited
  BY <1>6 DEF AdapterDies, TakeStopped, TakeEnded, Exited, editor
<1>7. CASE Reader \/ Server \/ Program \/ \E f \in Fiber : Cancel(f)
  BY <1>7 DEF Reader, ReadBreakpoints, ReadLaunch, ReadEval, ReadAboutStop, HangUp, Server, Inspect, Resume,
     Disconnected, Serve, Program, Run, EndMain, Exit, Spawn, EndTask, Compute, Yield, Runs, Halt, Cancel, editor, adapter
<1>. QED
  BY <1>1, <1>2, <1>3, <1>4, <1>5, <1>6, <1>7 DEF Next, Adapter

\* A request is asked, then taken, and left to at most one that answers it.
LEMMA StepUnanswered ==
    Typed /\ Unanswered /\ AnsweredOnce /\ [Next]_vars => Unanswered' /\ AnsweredOnce'
<1>. SUFFICES ASSUME Typed, Unanswered, AnsweredOnce, [Next]_vars PROVE Unanswered' /\ AnsweredOnce'
  OBVIOUS
<1>. USE DEF Unanswered, AnsweredOnce
<1>0. /\ answers \in [Id -> Nat] /\ sent \in Nat /\ pending \subseteq Id
      /\ \A i \in DOMAIN asked : asked[i].id \in Id
  BY RequestFields DEF Typed, TypedEditor, TypedAdapter
<1>1. CASE UNCHANGED vars
  BY <1>1 DEF vars, editor, adapter
<1>2. ASSUME NEW kind \in AboutStop \cup {"breakpoints", "configurationDone", "pause", "terminate",
                                          "disconnect"}, Ask(kind)
      PROVE  Unanswered' /\ AnsweredOnce'
  <2>1. sent + 1 \in Id /\ sent' = sent + 1 /\ UNCHANGED <<answers, pending>>
    BY <1>0, <1>2 DEF Ask, adapter
  <2>2. answers[sent + 1] = 0 /\ sent + 1 \notin pending
    BY <1>0, <2>1
  <2>3. \A i \in DOMAIN asked' : \/ i \in DOMAIN asked /\ asked'[i] = asked[i] /\ i <= Len(asked)
                                 \/ i = Len(asked) + 1 /\ asked'[i].id = sent + 1
    <3>1. DOMAIN asked = 1..Len(asked) /\ Len(asked) \in Nat
      BY <1>2, AskAt
    <3>4. asked'[Len(asked) + 1].id = sent + 1
      BY <1>2, AskAt
    <3>2. \A i \in DOMAIN asked' : i \in DOMAIN asked \/ i = Len(asked) + 1
      BY <1>2, AskAt
    <3>3. \A i \in DOMAIN asked : asked'[i] = asked[i]
      BY <1>2, AskAt
    <3>. QED
      BY <3>1, <3>2, <3>3, <3>4
  <2>4. \A i \in DOMAIN asked' : asked'[i].id <= sent' /\ answers'[asked'[i].id] = 0 /\ asked'[i].id \notin pending'
    BY <1>0, <2>1, <2>2, <2>3
  <2>5. ASSUME NEW i \in DOMAIN asked', NEW j \in DOMAIN asked', i < j PROVE asked'[i].id < asked'[j].id
    <3>1. Len(asked) \in Nat /\ DOMAIN asked \subseteq Nat
      BY <1>2, AskAt
    <3>. QED
      BY <1>0, <2>3, <2>5, <3>1
  <2>6. \A id \in Id : id > sent' => answers'[id] = 0 /\ id \notin pending'
    BY <1>0, <2>1
  <2>. QED
    BY <1>0, <2>1, <2>4, <2>5, <2>6
<1>3. CASE Asks
  BY <1>2, <1>3 DEF Asks, Configures, Starts, Inspects, Resumes, Evaluates, Pauses, Terminates, Leaves, AboutStop
<1>4. CASE /\ TakesRequest /\ UNCHANGED sent
           /\ \/ answers' = Answered({Request.id}) /\ UNCHANGED pending
              \/ answers' = answers /\ pending' \in {pending \cup {Request.id}, {Request.id}}
  <2>1. PICK kinds : Takes(kinds)
    BY <1>4 DEF TakesRequest, SetBreakpoints, Start, Forward, Pause, Terminate, Disconnect
  <2>2. /\ Request.id \in Id /\ Request.id <= sent
        /\ answers[Request.id] = 0 /\ Request.id \notin pending
        /\ \A i \in DOMAIN asked' :
             /\ asked'[i].id \in Id /\ asked'[i].id <= sent
             /\ answers[asked'[i].id] = 0 /\ asked'[i].id \notin pending
             /\ Request.id < asked'[i].id
    BY <2>1, <1>0, TakesAt
  <2>5. \A i, j \in DOMAIN asked' : i < j => asked'[i].id < asked'[j].id
    BY <2>1, TakesAt
  <2>3. CASE answers' = Answered({Request.id}) /\ UNCHANGED pending
    <3>1. \A id \in Id : answers'[id] = IF id = Request.id THEN answers[id] + 1 ELSE answers[id]
      BY <1>0, <2>3 DEF Answered
    <3>2. \A i \in DOMAIN asked' : answers'[asked'[i].id] = 0
      BY <1>0, <2>2, <3>1
    <3>3. \A id \in Id : (id > sent \/ id \in pending => answers'[id] = 0) /\ answers'[id] <= 1
      BY <1>0, <2>2, <3>1
    <3>. QED
      BY <1>0, <1>4, <2>2, <2>3, <2>5, <3>2, <3>3
  <2>4. CASE answers' = answers /\ pending' \in {pending \cup {Request.id}, {Request.id}}
    BY <1>0, <1>4, <2>2, <2>4, <2>5
  <2>. QED
    BY <1>4, <2>3, <2>4
<1>5. CASE UNCHANGED <<asked, sent, answers, pending>>
  BY <1>5
<1>6. ASSUME UNCHANGED <<asked, sent>>, NEW ids \in SUBSET pending, answers' = Answered(ids), pending' = pending \ ids
      PROVE  Unanswered' /\ AnsweredOnce'
  BY <1>0, <1>6, AnsweredAt
<1>. QED
  BY <1>1, <1>3, <1>4, <1>5, <1>6, AnswerSteps

-----------------------------------------------------------------------------
(* While the two ends are in touch: the adapter has the connection and the     *)
(* driver reads it.                                                            *)

InTouch == connected /\ attached

\* They are in touch from the connection on, until one of them is gone.
LEMMA StaysInTouch ==
    ASSUME Typed, StartedOnce, Alive, Next, InTouch', ~Connect
    PROVE  /\ InTouch /\ hears /\ session = "running" /\ process = "alive"
           /\ ~Start /\ ~StartFails /\ ~Disconnect /\ ~AdapterDies /\ ~DriverClosed /\ ~Exited /\ ~HangUp /\ ~Disconnected
           /\ ~Exit
           /\ Terminate => UNCHANGED <<cmds, program, driver>>
           /\ EndMain => mode # "launch"
<1>. USE DEF InTouch
<1>1. connected
  BY DEF Next, Asks, Ask, Configures, Starts, Inspects, Resumes, Evaluates, Pauses, Terminates, Leaves,
     Adapter, SetBreakpoints, Start, StartFails, Forward, Pause, Terminate, Disconnect, AdapterDies, adapter,
     TakeAnswer, TakeStopped, TakeEnded, DriverClosed, Exited, Reader, ReadBreakpoints, ReadLaunch, ReadEval,
     ReadAboutStop, HangUp, Server, Inspect, Resume, Disconnected, Serve, Program, Run, EndMain, Exit, Spawn,
     EndTask, Compute, Yield, Runs, Halt, Cancel
<1>2. attached
  BY DEF Next, Asks, Ask, Configures, Starts, Inspects, Resumes, Evaluates, Pauses, Terminates, Leaves,
     Adapter, SetBreakpoints, Start, StartFails, Forward, Pause, Terminate, Disconnect, AdapterDies, driver, Kills, Dies,
     TakeAnswer, TakeStopped, TakeEnded, DriverClosed, Exited, Reader, ReadBreakpoints, ReadLaunch, ReadEval,
     ReadAboutStop, HangUp, Server, Inspect, Resume, Disconnected, Serve, Program, Run, EndMain, Exit, Spawn,
     EndTask, Compute, Yield, Runs, Halt, Cancel
<1>3. hears /\ session = "running" /\ process = "alive"
  BY <1>1, <1>2 DEF Alive
<1>4. ~Start /\ ~StartFails
  <2>1. ASSUME Start PROVE FALSE
    <3>1. asked[1].kind = "configurationDone" /\ 1 \in DOMAIN asked
      BY <2>1, TakesAt DEF Start
    <3>. QED
      BY <1>3, <3>1 DEF StartedOnce
  <2>. QED
    BY <1>3, <2>1 DEF StartFails
<1>7. ~Disconnect /\ ~AdapterDies /\ ~DriverClosed /\ ~Exited /\ ~HangUp /\ ~Disconnected /\ ~Exit
  BY <1>1, <1>2 DEF Disconnect, AdapterDies, DriverClosed, Exited, HangUp, Disconnected, Exit, Dies
<1>5. Terminate => UNCHANGED <<cmds, program, driver>>
  BY DEF Terminate, Kills, Dies
<1>6. EndMain => mode # "launch"
  BY DEF EndMain
<1>. QED
  BY <1>1, <1>2, <1>3, <1>4, <1>5, <1>6, <1>7

\* What a step can do to the lines on their way, and to the breakpoints.
LEMMA LinesInTouch ==
    ASSUME Typed, StartedOnce, Alive, Next, InTouch', ~Connect
    PROVE  \/ UNCHANGED <<cmds, breakpoints, wanted>>
           \/ /\ SetBreakpoints /\ UNCHANGED wanted
              /\ [kind |-> "breakpoints", id |-> Request.id] \in Lines
              /\ cmds' = Append(cmds, [kind |-> "breakpoints", id |-> Request.id])
              /\ breakpoints' = Request.id
           \/ /\ Forward /\ UNCHANGED <<breakpoints, wanted>>
              /\ \E line \in Lines : line.kind \in AboutStop \cup {"eval"} /\ cmds' = Append(cmds, line)
           \/ /\ UNCHANGED breakpoints
              /\ \E kind : /\ Reads(kind)
                           /\ wanted' = IF kind = "breakpoints" THEN cmds[1].id ELSE wanted
<1>. USE StaysInTouch
<1>1. CASE Asks
  BY <1>1, AsksOnly DEF adapter, driver
<1>2. CASE SetBreakpoints
  BY <1>2, SetBreakpointsSends DEF SetBreakpoints, driver, InTouch
<1>3. CASE Forward
  BY <1>3, ForwardSends DEF Forward, driver
<1>4. CASE Pause \/ Terminate \/ TakeAnswer \/ TakeStopped \/ TakeEnded
  BY <1>4 DEF Pause, Terminate, TakeAnswer, TakeStopped, TakeEnded, driver, adapter
<1>5. CASE Reader
  <2>1. CASE ReadBreakpoints
    BY <2>1, ReadsAt DEF ReadBreakpoints, adapter
  <2>2. ASSUME NEW kind, Reads(kind), kind # "breakpoints", UNCHANGED <<breakpoints, wanted>>
        PROVE  /\ UNCHANGED breakpoints
               /\ \E k : Reads(k) /\ wanted' = IF k = "breakpoints" THEN cmds[1].id ELSE wanted
    BY <2>2
  <2>3. CASE ReadLaunch \/ ReadEval \/ ReadAboutStop
    BY <2>2, <2>3 DEF ReadLaunch, ReadEval, ReadAboutStop, driver, adapter
  <2>. QED
    BY <1>5, <2>1, <2>3 DEF Reader
<1>6. CASE Server \/ Program \/ \E f \in Fiber : Cancel(f)
  BY <1>6 DEF Server, Inspect, Resume, Serve, Program, Run, EndMain, Spawn, EndTask, Compute, Yield, Runs, Halt, Cancel, driver, adapter
<1>. QED
  BY <1>1, <1>2, <1>3, <1>4, <1>5, <1>6 DEF Next, Adapter

\* The driver has the breakpoints of the editor, or they are on their way to it.
LEMMA StepLastBreakpoints ==
    Typed /\ StartedOnce /\ Alive /\ LastBreakpoints /\ [Next]_vars => LastBreakpoints'
<1>. SUFFICES ASSUME Typed, StartedOnce, Alive, LastBreakpoints, [Next]_vars, InTouch' PROVE LastBreakpoints'
  BY DEF LastBreakpoints, InTouch
<1>. USE DEF LastBreakpoints
<1>1. CASE UNCHANGED vars
  BY <1>1 DEF vars, adapter, driver
<1>2. CASE Connect
  <2>1. CASE mode = "launch"
    <3>1. cmds' = <<[kind |-> "breakpoints", id |-> breakpoints]>> \o
                  <<[kind |-> "launch", id |-> breakpoints]>>
      BY <1>2, <2>1 DEF Connect
    <3>2. /\ DOMAIN cmds' = {1, 2} /\ cmds'[1].id = breakpoints
          /\ cmds'[1].kind = "breakpoints" /\ cmds'[2].kind = "launch"
      BY <3>1, TwoLines
    <3>. QED
      BY <1>2, <3>2 DEF Connect
  <2>2. CASE mode # "launch"
    <3>1. cmds' = <<[kind |-> "breakpoints", id |-> breakpoints]>>
      BY <1>2, <2>2 DEF Connect
    <3>. QED
      BY <1>2, <3>1 DEF Connect
  <2>. QED
    BY <2>1, <2>2
<1>3. CASE Next /\ ~Connect
  <2>. USE <1>3
  <2>1. InTouch
    BY StaysInTouch
  <2>2. CASE UNCHANGED <<cmds, breakpoints, wanted>>
    BY <2>1, <2>2 DEF InTouch
  <2>3. ASSUME NEW line \in Lines, cmds' = Append(cmds, line), UNCHANGED wanted,
               IF line.kind = "breakpoints" THEN breakpoints' = line.id ELSE UNCHANGED breakpoints
        PROVE  LastBreakpoints'
    BY <2>1, <2>3, SendsAt DEF InTouch
  <2>4. ASSUME NEW kind, Reads(kind), UNCHANGED breakpoints,
               wanted' = IF kind = "breakpoints" THEN cmds[1].id ELSE wanted
        PROVE  LastBreakpoints'
    BY <2>1, <2>4, ReadsAt DEF InTouch
  <2>. QED
    BY <2>2, <2>3, <2>4, LinesInTouch DEF AboutStop
<1>. QED
  BY <1>1, <1>2, <1>3

\* What a step can do to the messages on their way, and to the threads.
LEMMA MessagesInTouch ==
    ASSUME Typed, StartedOnce, Alive, Next, InTouch', ~Connect
    PROVE  \/ UNCHANGED <<wire, threads, named>>
           \/ /\ wire # <<>> /\ wire' = Tail(wire) /\ UNCHANGED named
              /\ \/ TakeAnswer /\ Head(wire).kind = "answer" /\ UNCHANGED threads
                 \/ TakeStopped /\ Head(wire).kind = "stopped" /\ threads' = threads \cup {Head(wire).fiber}
                 \/ TakeEnded /\ Head(wire).kind = "ended" /\ threads' = threads \ {Head(wire).fiber}
           \/ /\ ReadEval \/ Inspect \/ Resume
              /\ \E id \in Id : wire' = Append(wire, [kind |-> "answer", id |-> id])
              /\ UNCHANGED <<threads, named>>
           \/ \E f \in Fiber :
                /\ Serve(f) /\ UNCHANGED threads /\ named' = named \cup {f}
                /\ wire' = Append(wire, [kind |-> "stopped", fiber |-> f, number |-> number + 1])
           \/ \E f \in Task :
                /\ EndTask(f) /\ UNCHANGED threads /\ named' = named \ {f}
                /\ wire' = Append(wire, [kind |-> "ended", fiber |-> f])
<1>. USE StaysInTouch
<1>1. CASE Asks
  BY <1>1, AsksOnly DEF adapter, driver
<1>2. CASE SetBreakpoints \/ Forward \/ Pause \/ Terminate
  BY <1>2 DEF SetBreakpoints, Forward, Pause, Terminate, driver, adapter
<1>3. CASE TakeAnswer \/ TakeStopped \/ TakeEnded
  BY <1>3 DEF TakeAnswer, TakeStopped, TakeEnded, Hears, driver, adapter
<1>4. CASE ReadEval
  <2>1. Head(cmds).id \in Id
    BY <1>4, ReadsAt, LineFields DEF ReadEval
  <2>. QED
    BY <1>4, <2>1 DEF ReadEval, Tell, driver, adapter
<1>5. CASE Inspect \/ Resume
  <2>1. Head(commands).id \in Id
    BY <1>5, TailAt, CommandFields DEF Inspect, Resume, TakesCommand, Typed, TypedDriver
  <2>. QED
    BY <1>5, <2>1 DEF Inspect, Resume, TakesCommand, Tell, adapter
<1>6. CASE ReadBreakpoints \/ ReadLaunch \/ ReadAboutStop
  BY <1>6 DEF ReadBreakpoints, ReadLaunch, ReadAboutStop, driver, adapter
<1>7. ASSUME NEW f \in Fiber, Serve(f)
      PROVE  /\ UNCHANGED threads /\ named' = named \cup {f}
             /\ wire' = Append(wire, [kind |-> "stopped", fiber |-> f, number |-> number + 1])
  BY <1>7 DEF Serve, adapter, InTouch
<1>8. ASSUME NEW f \in Task, EndTask(f)
      PROVE  \/ UNCHANGED <<wire, threads, named>>
             \/ /\ UNCHANGED threads /\ named' = named \ {f}
                /\ wire' = Append(wire, [kind |-> "ended", fiber |-> f])
  <2>1. f \notin named => named \ {f} = named
    OBVIOUS
  <2>. QED
    BY <1>8, <2>1 DEF EndTask, adapter, InTouch
<1>9. CASE Run \/ Yield \/ EndMain \/ (\E f \in Task : Spawn(f)) \/ \E f \in Fiber : Compute(f) \/ Halt(f) \/ Cancel(f)
  BY <1>9 DEF Run, EndMain, Spawn, Compute, Yield, Runs, Halt, Cancel, driver, adapter
<1>. QED
  BY <1>1, <1>2, <1>3, <1>4, <1>5, <1>6, <1>7, <1>8, <1>9 DEF Next, Adapter, Reader, Server, Program

\* A message that is heard leaves the front of the queue...
LEMMA HearsAt ==
    ASSUME Typed, wire # <<>>, wire' = Tail(wire)
    PROVE  /\ 1 \in DOMAIN wire /\ Head(wire) = wire[1] /\ wire[1] \in Messages
           /\ DOMAIN wire \subseteq Nat \ {0} /\ DOMAIN wire' \subseteq Nat \ {0}
           /\ \A i \in DOMAIN wire' : i + 1 \in DOMAIN wire /\ wire'[i] = wire[i + 1]
           /\ \A i \in DOMAIN wire : i # 1 => i - 1 \in DOMAIN wire' /\ wire[i] = wire'[i - 1]
BY TailAt DEF Typed, TypedConnection

\* ...and one that is told goes to the end of it.
LEMMA TellsAt ==
    ASSUME Typed, NEW m \in Messages, wire' = Append(wire, m)
    PROVE  /\ DOMAIN wire = 1..Len(wire) /\ Len(wire) \in Nat
           /\ \A i \in DOMAIN wire : i \in DOMAIN wire' /\ wire'[i] = wire[i]
           /\ \A i \in DOMAIN wire' : i \in DOMAIN wire \/ i = Len(wire) + 1
           /\ Len(wire) + 1 \in DOMAIN wire' /\ wire'[Len(wire) + 1] = m
BY AppendAt DEF Typed, TypedConnection

\* The threads listed are what the messages on their way will make them.
LEMMA StepThreadsTold ==
    Typed /\ NotStarted /\ StartedOnce /\ Alive /\ ThreadsTold /\ [Next]_vars => ThreadsTold'
<1>. SUFFICES ASSUME Typed, NotStarted, StartedOnce, Alive, ThreadsTold, [Next]_vars, InTouch'
              PROVE  ThreadsTold'
  BY DEF ThreadsTold, InTouch
<1>. USE DEF ThreadsTold
<1>1. CASE UNCHANGED vars
  BY <1>1 DEF vars, adapter, driver, Told, Says
<1>2. CASE Connect
  BY <1>2 DEF Connect, NotStarted, Told, Says
<1>3. CASE Next /\ ~Connect
  <2>. USE <1>3
  <2>1. InTouch
    BY StaysInTouch
  <2>2. CASE UNCHANGED <<wire, threads, named>>
    BY <2>1, <2>2 DEF InTouch, Told, Says
  <2>3. ASSUME wire # <<>>, wire' = Tail(wire), UNCHANGED named,
               \/ wire[1].kind = "answer" /\ UNCHANGED threads
               \/ wire[1].kind = "stopped" /\ threads' = threads \cup {wire[1].fiber}
               \/ wire[1].kind = "ended" /\ threads' = threads \ {wire[1].fiber}
        PROVE  ThreadsTold'
    <3>1. ASSUME NEW f \in Fiber PROVE Told(f)'
      <4>1. Told(f)
        BY <2>1 DEF InTouch
      <4>2. ASSUME NEW k, NEW j \in DOMAIN wire, j # 1, Says(j, k, f)
            PROVE  j - 1 \in DOMAIN wire' /\ Says(j - 1, k, f)'
        BY <2>3, <4>2, HearsAt DEF Says
      <4>3. ASSUME NEW k, NEW i \in DOMAIN wire', Says(i, k, f)'
            PROVE  i + 1 \in DOMAIN wire /\ Says(i + 1, k, f)
        BY <2>3, <4>3, HearsAt DEF Says
      <4>4. DOMAIN wire \subseteq Nat \ {0} /\ DOMAIN wire' \subseteq Nat \ {0} /\ 1 \in DOMAIN wire
        BY <2>3, HearsAt
      <4>5. ASSUME NEW k1, NEW k2,
                   \A i \in DOMAIN wire : Says(i, k1, f) => \E j \in DOMAIN wire : i < j /\ Says(j, k2, f)
            PROVE  \A i \in DOMAIN wire' : Says(i, k1, f)' => \E j \in DOMAIN wire' : i < j /\ Says(j, k2, f)'
        <5>. SUFFICES ASSUME NEW i \in DOMAIN wire', Says(i, k1, f)'
                      PROVE  \E j \in DOMAIN wire' : i < j /\ Says(j, k2, f)'
          OBVIOUS
        <5>1. i + 1 \in DOMAIN wire /\ Says(i + 1, k1, f)
          BY <4>3
        <5>2. PICK j \in DOMAIN wire : i + 1 < j /\ Says(j, k2, f)
          BY <4>5, <5>1
        <5>3. j - 1 \in DOMAIN wire' /\ Says(j - 1, k2, f)' /\ i < j - 1
          BY <4>2, <4>4, <5>2
        <5>. QED
          BY <5>3
      <4>6. /\ f \in threads /\ f \notin threads' => Says(1, "ended", f)
            /\ f \notin threads /\ f \in threads' => Says(1, "stopped", f)
            /\ Says(1, "stopped", f) => f \in threads'
            /\ Says(1, "ended", f) => f \notin threads'
        BY <2>3 DEF Says
      <4>7. CASE f \in {Main} \cup named
        <5>1. f \in threads' \/ \E i \in DOMAIN wire' : Says(i, "stopped", f)'
          <6>1. CASE Says(1, "ended", f)
            <7>1. PICK j \in DOMAIN wire : 1 < j /\ Says(j, "stopped", f)
              BY <4>1, <4>4, <4>7, <6>1 DEF Told
            <7>. QED
              BY <4>2, <7>1
          <6>2. CASE ~Says(1, "ended", f)
            BY <4>1, <4>2, <4>6, <4>7, <6>2 DEF Told
          <6>. QED
            BY <6>1, <6>2
        <5>. QED
          BY <2>3, <4>1, <4>5, <4>7, <5>1 DEF Told
      <4>8. CASE f \notin {Main} \cup named
        <5>1. f \notin threads' \/ \E i \in DOMAIN wire' : Says(i, "ended", f)'
          <6>1. CASE Says(1, "stopped", f)
            <7>1. PICK j \in DOMAIN wire : 1 < j /\ Says(j, "ended", f)
              BY <4>1, <4>4, <4>8, <6>1 DEF Told
            <7>. QED
              BY <4>2, <7>1
          <6>2. CASE ~Says(1, "stopped", f)
            BY <4>1, <4>2, <4>6, <4>8, <6>2 DEF Told
          <6>. QED
            BY <6>1, <6>2
        <5>. QED
          BY <2>3, <4>1, <4>5, <4>8, <5>1 DEF Told
      <4>. QED
        BY <4>7, <4>8
    <3>. QED
      BY <3>1
  <2>4. ASSUME NEW m \in Messages, wire' = Append(wire, m),
               \/ m.kind = "answer" /\ UNCHANGED <<threads, named>>
               \/ m.kind = "stopped" /\ UNCHANGED threads /\ named' = named \cup {m.fiber}
               \/ m.kind = "ended" /\ m.fiber # Main /\ UNCHANGED threads /\ named' = named \ {m.fiber}
        PROVE  ThreadsTold'
    BY <2>1, <2>4, TellsAt DEF InTouch, Told, Says
  <2>5. /\ \A id \in Id : [kind |-> "answer", id |-> id] \in Messages
        /\ \A f \in Fiber : [kind |-> "ended", fiber |-> f] \in Messages
        /\ \A f \in Fiber : [kind |-> "stopped", fiber |-> f, number |-> number + 1] \in Messages
    BY MessagesMade DEF Typed, TypedDriver
  <2>. QED
    BY <2>2, <2>3, <2>4, <2>5, MessagesInTouch, HearsAt
<1>. QED
  BY <1>1, <1>2, <1>3

-----------------------------------------------------------------------------
(* Where the program stands, as long as nobody cancels a fiber at its stop.    *)

\* A command about a stop the driver takes up leaves the front of its channel...
LEMMA CommandsAt ==
    ASSUME Typed, NEW kinds, TakesCommand(kinds)
    PROVE  /\ 1 \in DOMAIN commands /\ Head(commands) = commands[1] /\ commands[1].kind \in kinds
           /\ Len(commands) \in Nat /\ Len(commands') = Len(commands) - 1 /\ DOMAIN commands = 1..Len(commands)
           /\ DOMAIN commands' \subseteq Nat \ {0}
           /\ \A i \in DOMAIN commands' : i + 1 \in DOMAIN commands /\ commands'[i] = commands[i + 1]
           /\ \A i \in DOMAIN commands : i # 1 => i - 1 \in DOMAIN commands' /\ commands[i] = commands'[i - 1]
           /\ serving # None /\ attached
           /\ served' = [about |-> commands[1].about, by |-> number]
BY TailAt DEF TakesCommand, Typed, TypedDriver

\* ...and one it reads goes to the end of it.
LEMMA ReadAboutStopAt ==
    ASSUME Typed, ReadAboutStop
    PROVE  /\ DOMAIN commands = 1..Len(commands) /\ Len(commands) \in Nat /\ Len(commands') = Len(commands) + 1
           /\ \A i \in DOMAIN commands : i \in DOMAIN commands' /\ commands'[i] = commands[i]
           /\ \A i \in DOMAIN commands' : i \in DOMAIN commands \/ i = Len(commands) + 1
           /\ Len(commands) + 1 \in DOMAIN commands' /\ commands'[Len(commands) + 1] = cmds[1]
           /\ \E kind \in AboutStop : Reads(kind)
<1>1. PICK kind \in AboutStop : Reads(kind) /\ commands' = Append(commands, Head(cmds))
  BY DEF ReadAboutStop, AboutStop
<1>2. Head(cmds) = cmds[1] /\ cmds[1] \in Commands
  BY <1>1, ReadsAt, LineFields
<1>. QED
  BY <1>1, <1>2, AppendAt DEF Typed, TypedDriver

\* What a step can do to the commands on their way, while the driver reads.
LEMMA CommandSteps ==
    ASSUME Typed, NotStarted, Alive, Next, Uncancelled, attached, attached'
    PROVE  \/ UNCHANGED <<cmds, commands, serving, number, served>>
           \/ /\ SetBreakpoints /\ UNCHANGED <<commands, serving, number, served>>
              /\ \E line \in Lines : line.kind = "breakpoints" /\ cmds' = Append(cmds, line)
           \/ /\ Forward /\ UNCHANGED <<commands, serving, number, served>>
              /\ \E line \in Lines : line.kind = "eval" /\ ~stopped /\ cmds' = Append(cmds, line)
           \/ /\ Forward /\ stopped /\ connected /\ UNCHANGED <<commands, serving, number, served>>
              /\ \E line \in Lines : /\ line.kind = Request.kind /\ line.kind \in AboutStop
                                     /\ line.about = Request.about /\ cmds' = Append(cmds, line)
           \/ /\ UNCHANGED <<commands, serving, number, served>>
              /\ \E kind : Reads(kind) /\ kind \notin AboutStop
           \/ ReadAboutStop /\ UNCHANGED <<serving, number, served>>
           \/ Inspect /\ UNCHANGED <<cmds, serving, number>>
           \/ Resume /\ serving' = None /\ UNCHANGED <<cmds, number>>
           \/ \E f \in Fiber : /\ Serve(f) /\ serving = None /\ serving' = f /\ number' = number + 1
                               /\ UNCHANGED <<cmds, commands, served>>
<1>1. CASE Asks
  BY <1>1, AsksOnly DEF driver
<1>2. CASE SetBreakpoints
  BY <1>2, SetBreakpointsSends DEF SetBreakpoints, driver
<1>3. CASE Forward
  <2>1. UNCHANGED <<commands, serving, number, served>> /\ Request.kind \in AboutStop
    BY <1>3, TakesAt DEF Forward, driver, AboutStop
  <2>2. CASE UNCHANGED cmds
    BY <2>1, <2>2
  <2>3. ASSUME NEW kind \in AboutStop \cup {"eval"},
               [kind |-> kind, id |-> Request.id, about |-> Request.about] \in Lines,
               cmds' = Append(cmds, [kind |-> kind, id |-> Request.id, about |-> Request.about]), connected,
               \/ kind = "eval" /\ ~stopped
               \/ kind = Request.kind /\ stopped
        PROVE  \E line \in Lines :
                 /\ cmds' = Append(cmds, line)
                 /\ \/ line.kind = "eval" /\ ~stopped
                    \/ line.kind = Request.kind /\ line.about = Request.about /\ stopped /\ connected
    BY <2>3
  <2>. QED
    BY <1>3, <2>1, <2>2, <2>3, ForwardSends
<1>4. CASE Start \/ StartFails \/ Pause \/ TakeAnswer \/ TakeStopped \/ TakeEnded \/ DriverClosed \/ Exited
  BY <1>4 DEF Start, StartFails, Pause, TakeAnswer, TakeStopped, TakeEnded, DriverClosed, Exited, driver
<1>5. CASE Terminate \/ Disconnect \/ AdapterDies \/ Exit \/ Disconnected
  BY <1>5 DEF Terminate, Disconnect, AdapterDies, Exit, Disconnected, Kills, Dies, driver
<1>6. CASE Reader
  BY <1>6 DEF Reader, ReadBreakpoints, ReadLaunch, ReadEval, HangUp, ReadAboutStop, AboutStop, driver
<1>7. CASE Inspect \/ Resume
  BY <1>7 DEF Inspect, Resume
<1>8. CASE \E f \in Fiber : Serve(f)
  BY <1>8 DEF Serve
<1>9. CASE Run \/ Yield \/ EndMain \/ (\E f \in Task : Spawn(f) \/ EndTask(f)) \/ \E f \in Fiber : Compute(f) \/ Halt(f)
  BY <1>9 DEF Run, EndMain, Spawn, EndTask, Compute, Yield, Runs, Halt, driver
<1>10. ASSUME NEW f \in Fiber, Cancel(f) PROVE UNCHANGED <<cmds, commands, serving, number, served>>
  BY <1>10 DEF Cancel, Uncancelled, Alive, Typed, TypedProgram, TypedDriver
<1>11. CASE Connect
  BY <1>11 DEF Connect, NotStarted
<1>. QED
  BY <1>1, <1>2, <1>3, <1>4, <1>5, <1>6, <1>7, <1>8, <1>9, <1>10, <1>11 DEF Next, Adapter, Server, Program

\* The driver starts to read the connection when it connects.
LEMMA AttachedSteps ==
    Next /\ ~Connect /\ attached' => attached
BY DEF Next, Asks, Ask, Configures, Starts, Inspects, Resumes, Evaluates, Pauses, Terminates, Leaves,
   Adapter, SetBreakpoints, Start, StartFails, Forward, Pause, Terminate, Disconnect, AdapterDies, driver, Kills, Dies,
   TakeAnswer, TakeStopped, TakeEnded, DriverClosed, Exited, Reader, ReadBreakpoints, ReadLaunch, ReadEval,
   ReadAboutStop, HangUp, Server, Inspect, Resume, Disconnected, Serve, Program, Run, EndMain, Exit, Spawn,
   EndTask, Compute, Yield, Runs, Halt, Cancel

\* The first lines are no commands about a stop.
LEMMA ConnectLines ==
    Connect => \A i \in DOMAIN cmds' : cmds'[i].kind \in {"breakpoints", "launch"}
<1>. SUFFICES ASSUME Connect PROVE \A i \in DOMAIN cmds' : cmds'[i].kind \in {"breakpoints", "launch"}
  OBVIOUS
<1>1. CASE mode = "launch"
  <2>1. cmds' = <<[kind |-> "breakpoints", id |-> breakpoints]>> \o <<[kind |-> "launch", id |-> breakpoints]>>
    BY <1>1 DEF Connect
  <2>2. DOMAIN cmds' = {1, 2} /\ cmds'[1].kind = "breakpoints" /\ cmds'[2].kind = "launch"
    BY <2>1, TwoLines
  <2>. QED
    BY <2>2
<1>2. CASE mode # "launch"
  <2>1. cmds' = <<[kind |-> "breakpoints", id |-> breakpoints]>>
    BY <1>2 DEF Connect
  <2>. QED
    BY <2>1
<1>. QED
  BY <1>1, <1>2

\* What the driver is to do is about the stop it serves.
LEMMA StepAtTheStop ==
    Typed /\ NotStarted /\ StartedOnce /\ Alive /\ Agreed /\ [Next /\ Uncancelled]_vars => AtTheStop'
<1>. SUFFICES ASSUME Typed, NotStarted, StartedOnce, Alive, Agreed, [Next /\ Uncancelled]_vars, attached'
              PROVE  AtTheStop'
  BY DEF AtTheStop
<1>. USE DEF Agreed, AtTheStop
<1>1. CASE UNCHANGED vars
  BY <1>1 DEF vars, driver
<1>2. CASE Connect
  <2>1. UNCHANGED <<commands, serving, number>> /\ commands = <<>> /\ serving = None
    BY <1>2 DEF Connect, NotStarted
  <2>. QED
    BY <1>2, <2>1, ConnectLines DEF AboutStop
<1>3. CASE Next /\ Uncancelled /\ ~Connect
  <2>. USE <1>3
  <2>1. attached
    BY AttachedSteps
  <2>2. CASE UNCHANGED <<cmds, commands, serving, number>>
    BY <2>1, <2>2
  <2>3. ASSUME NEW line \in Lines, line.kind \notin AboutStop, cmds' = Append(cmds, line),
               UNCHANGED <<commands, serving, number>>
        PROVE  AtTheStop'
    BY <2>1, <2>3, SendsAt
  <2>4. ASSUME NEW kind, Reads(kind), kind \notin AboutStop, UNCHANGED <<commands, serving, number>>
        PROVE  AtTheStop'
    BY <2>1, <2>4, ReadsAt
  <2>5. ASSUME NEW line \in Lines, line.kind \in AboutStop, line.about = Request.about, cmds' = Append(cmds, line),
               UNCHANGED <<commands, serving, number>>, Forward, stopped, connected
        PROVE  AtTheStop'
    <3>1. serving # None /\ ~Resuming
      BY <2>1, <2>5 DEF StopKnown
    <3>2. line.about \in {0, number}
      BY <2>1, <2>5, TakesAt DEF StopShown, Forward, AboutStop
    <3>. QED
      BY <2>1, <2>5, <3>1, <3>2, SendsAt DEF Resuming
  <2>6. CASE ReadAboutStop /\ UNCHANGED <<serving, number>>
    <3>1. PICK kind \in AboutStop : Reads(kind)
      BY <2>6, ReadAboutStopAt
    <3>2. serving # None
      BY <2>1, <3>1, ReadsAt
    <3>3. \A i \in DOMAIN commands : commands[i].kind # "resume"
      BY <2>1, <3>1, ReadsAt
    <3>4. \A i \in DOMAIN cmds' : /\ i + 1 \in DOMAIN cmds /\ cmds'[i] = cmds[i + 1] /\ 1 < i + 1
      BY <3>1, ReadsAt
    <3>. QED
      BY <2>1, <2>6, <3>1, <3>2, <3>3, <3>4, ReadsAt, ReadAboutStopAt
  <2>7. CASE Inspect /\ UNCHANGED <<cmds, serving, number>>
    BY <2>1, <2>7, CommandsAt DEF Inspect
  <2>8. CASE Resume /\ serving' = None /\ UNCHANGED <<cmds, number>>
    <3>1. TakesCommand({"resume"})
      BY <2>8 DEF Resume
    <3>2. Len(commands) = 1 /\ \A i \in DOMAIN cmds : cmds[i].kind \notin AboutStop
      <4>1. 1 \in DOMAIN commands /\ commands[1].kind = "resume"
        BY <3>1, CommandsAt
      <4>. QED
        BY <2>1, <4>1
    <3>3. commands' = <<>>
      BY <3>1, <3>2 DEF TakesCommand, Typed, TypedDriver
    <3>. QED
      BY <2>8, <3>2, <3>3
  <2>9. CASE serving = None /\ serving' # None /\ UNCHANGED <<cmds, commands>>
    BY <2>1, <2>9
  <2>. QED
    BY <2>1, <2>2, <2>3, <2>4, <2>5, <2>6, <2>7, <2>8, <2>9, CommandSteps DEF AboutStop
<1>. QED
  BY <1>1, <1>2, <1>3

\* A command is carried out at the stop it is about.
LEMMA StepAboutTheStop ==
    Typed /\ AtTheStop /\ AboutTheStop /\ [Next]_vars => AboutTheStop'
<1>. SUFFICES ASSUME Typed, AtTheStop, AboutTheStop, [Next]_vars PROVE AboutTheStop'
  OBVIOUS
<1>. USE DEF AboutTheStop
<1>1. CASE UNCHANGED served
  BY <1>1
<1>2. CASE Inspect \/ Resume
  BY <1>2, CommandsAt DEF Inspect, Resume, AtTheStop
<1>3. ~Inspect /\ ~Resume => UNCHANGED served
  BY DEF vars, driver, Next, Asks, Ask, Configures, Starts, Inspects, Resumes, Evaluates, Pauses, Terminates, Leaves,
     Adapter, SetBreakpoints, Start, StartFails, Connect, Forward, Pause, Terminate, Disconnect, AdapterDies, Kills, Dies,
     TakeAnswer, TakeStopped, TakeEnded, DriverClosed, Exited, Reader, ReadBreakpoints, ReadLaunch, ReadEval,
     ReadAboutStop, HangUp, Server, Disconnected, Serve, Program, Run, EndMain, Exit, Spawn,
     EndTask, Compute, Yield, Runs, Halt, Cancel
<1>. QED
  BY <1>1, <1>2, <1>3

\* Who is served changes with a stop and a resume; other commands say nothing of it.
LEMMA ResumingSteps ==
    ASSUME Typed, NotStarted, StartedOnce, Alive, AtTheStop, Next, Uncancelled, ~Connect, InTouch',
           ~Resume, ~(Forward /\ stopped), \A f \in Fiber : ~Serve(f)
    PROVE  UNCHANGED <<serving, number>> /\ (Resuming' <=> Resuming) /\ (Unasked => Unasked')
<1>. USE DEF Resuming, Unasked
<1>1. attached /\ attached'
  BY StaysInTouch DEF InTouch
<1>2. CASE UNCHANGED <<cmds, commands, serving, number>>
  BY <1>2
<1>3. ASSUME NEW line \in Lines, line.kind \in {"breakpoints", "eval"}, cmds' = Append(cmds, line),
             UNCHANGED <<commands, serving, number>>
      PROVE  UNCHANGED <<serving, number>> /\ (Resuming' <=> Resuming) /\ (Unasked => Unasked')
  BY <1>3, SendsAt DEF AboutStop
<1>4. ASSUME NEW kind, Reads(kind), kind \notin AboutStop, UNCHANGED <<commands, serving, number>>
      PROVE  UNCHANGED <<serving, number>> /\ (Resuming' <=> Resuming) /\ (Unasked => Unasked')
  BY <1>4, ReadsAt DEF AboutStop
<1>5. CASE ReadAboutStop /\ UNCHANGED <<serving, number>>
  <2>1. PICK kind \in AboutStop : Reads(kind)
    BY <1>5, ReadAboutStopAt
  <2>2. ~Unasked
    BY <2>1, ReadsAt
  <2>3. ASSUME Resuming PROVE Resuming'
    <3>1. CASE \E i \in DOMAIN commands : commands[i].kind = "resume"
      BY <1>5, <3>1, ReadAboutStopAt
    <3>2. CASE \E i \in DOMAIN cmds : cmds[i].kind = "resume"
      BY <1>5, <2>1, <3>2, ReadsAt, ReadAboutStopAt
    <3>. QED
      BY <2>3, <3>1, <3>2
  <2>4. ASSUME Resuming' PROVE Resuming
    <3>1. CASE \E i \in DOMAIN commands' : commands'[i].kind = "resume"
      BY <1>5, <2>1, <3>1, ReadsAt, ReadAboutStopAt
    <3>2. CASE \E i \in DOMAIN cmds' : cmds'[i].kind = "resume"
      BY <2>1, <3>2, ReadsAt
    <3>. QED
      BY <2>4, <3>1, <3>2
  <2>. QED
    BY <1>5, <2>2, <2>3, <2>4
<1>6. CASE Inspect /\ UNCHANGED <<cmds, serving, number>>
  <2>1. /\ 1 \in DOMAIN commands /\ commands[1].kind # "resume"
        /\ \A i \in DOMAIN commands' : i + 1 \in DOMAIN commands /\ commands'[i] = commands[i + 1]
        /\ \A i \in DOMAIN commands : i # 1 => i - 1 \in DOMAIN commands' /\ commands[i] = commands'[i - 1]
    BY <1>6, CommandsAt DEF Inspect
  <2>2. commands # <<>>
    BY <1>6 DEF Inspect, TakesCommand
  <2>. QED
    BY <1>6, <2>1, <2>2
<1>. QED
  BY <1>1, <1>2, <1>3, <1>4, <1>5, <1>6, CommandSteps

\* What the adapter has not heard of changes with a stop.
LEMMA StoppingSteps ==
    ASSUME Typed, StartedOnce, Alive, Next, ~Connect, InTouch', UNCHANGED number,
           ~TakeStopped, \A f \in Fiber : ~Serve(f)
    PROVE  (Stopping' <=> Stopping) /\ (OneStop => OneStop')
<1>. USE DEF Stopping, OneStop
<1>1. CASE UNCHANGED wire
  BY <1>1
<1>2. ASSUME wire # <<>>, wire' = Tail(wire), Head(wire).kind # "stopped"
      PROVE  (Stopping' <=> Stopping) /\ (OneStop => OneStop')
  <2>1. /\ 1 \in DOMAIN wire /\ wire[1].kind # "stopped"
        /\ DOMAIN wire \subseteq Nat \ {0} /\ DOMAIN wire' \subseteq Nat \ {0}
        /\ \A i \in DOMAIN wire' : i + 1 \in DOMAIN wire /\ wire'[i] = wire[i + 1]
        /\ \A i \in DOMAIN wire : i # 1 => i - 1 \in DOMAIN wire' /\ wire[i] = wire'[i - 1]
    BY <1>2, HearsAt
  <2>2. Stopping' <=> Stopping
    BY <2>1
  <2>3. ASSUME OneStop, NEW i \in DOMAIN wire', wire'[i].kind = "stopped", NEW j \in DOMAIN wire',
               wire'[j].kind = "stopped"
        PROVE  wire'[i].number = number /\ j = i
    <3>1. j + 1 = i + 1 /\ wire[i + 1].number = number
      BY <2>1, <2>3
    <3>. QED
      BY <2>1, <3>1
  <2>. QED
    BY <2>2, <2>3
<1>3. ASSUME NEW m \in Messages, m.kind # "stopped", wire' = Append(wire, m)
      PROVE  (Stopping' <=> Stopping) /\ (OneStop => OneStop')
  BY <1>3, TellsAt
<1>. QED
  BY <1>1, <1>2, <1>3, MessagesInTouch, MessagesMade

\* The adapter changes its mind by what it forwards and by what it hears.
LEMMA StoppedSteps ==
    ASSUME Typed, StartedOnce, Alive, Next, ~Connect, InTouch', ~TakeStopped, ~(Forward /\ stopped)
    PROVE  stopped' <=> stopped
<1>. USE StaysInTouch
<1>1. CASE UNCHANGED stopped
  BY <1>1, Zenon
<1>2. CASE Asks
  <2>1. UNCHANGED stopped
    BY <1>2, AsksOnly DEF adapter
  <2>. QED
    BY <1>1, <2>1
<1>3. CASE Forward
  <2>1. UNCHANGED stopped \/ (~stopped /\ ~stopped')
    BY <1>3, ForwardSends
  <2>. QED
    BY <1>1, <2>1
<1>4. CASE SetBreakpoints \/ Pause \/ Terminate \/ TakeAnswer \/ TakeEnded
  <2>1. UNCHANGED stopped
    BY <1>4 DEF SetBreakpoints, Pause, Terminate, TakeAnswer, TakeEnded, adapter
  <2>. QED
    BY <1>1, <2>1
<1>5. CASE Reader \/ Server \/ Program \/ \E f \in Fiber : Cancel(f)
  <2>1. UNCHANGED stopped
    BY <1>5 DEF Reader, ReadBreakpoints, ReadLaunch, ReadEval, ReadAboutStop, Server, Inspect, Resume, Serve,
       Program, Run, EndMain, Spawn, EndTask, Compute, Yield, Runs, Halt, Cancel, adapter
  <2>. QED
    BY <1>1, <2>1
<1>. QED
  BY <1>2, <1>3, <1>4, <1>5 DEF Next, Adapter

\* The adapter hears of every stop, and only of the one that is served.
LEMMA StepStopKnown ==
    Typed /\ NotStarted /\ StartedOnce /\ Alive /\ Agreed /\ [Next /\ Uncancelled]_vars => StopKnown'
<1>. SUFFICES ASSUME Typed, NotStarted, StartedOnce, Alive, Agreed, [Next /\ Uncancelled]_vars, InTouch'
              PROVE  StopKnown'
  BY DEF StopKnown, InTouch
<1>. USE DEF StopKnown
<1>1. CASE UNCHANGED vars
  BY <1>1 DEF vars, adapter, driver, Agreed, Stopping, Resuming, Unasked, OneStop
<1>2. CASE Connect
  BY <1>2 DEF Connect, NotStarted, Stopping, OneStop
<1>3. CASE Next /\ Uncancelled /\ ~Connect
  <2>. USE <1>3
  <2>1. InTouch /\ attached'
    BY StaysInTouch DEF InTouch
  <2>2. /\ serving = None => ~stopped /\ ~Stopping
        /\ stopped => ~Stopping /\ ~Resuming
        /\ serving # None /\ ~stopped => (Stopping /\ Unasked) \/ (~Stopping /\ Resuming)
        /\ OneStop /\ AtTheStop
    BY <2>1 DEF Agreed, InTouch
  <2>3. CASE \E f \in Fiber : Serve(f)
    <3>1. PICK f \in Fiber : Serve(f)
      BY <2>3
    <3>2. /\ serving = None /\ serving' # None /\ number' = number + 1 /\ UNCHANGED <<cmds, commands, stopped>>
          /\ wire' = Append(wire, [kind |-> "stopped", fiber |-> f, number |-> number + 1])
          /\ [kind |-> "stopped", fiber |-> f, number |-> number + 1] \in Messages
      BY <2>1, <3>1, StaysInTouch, MessagesMade DEF Serve, adapter, Typed, TypedDriver
    <3>3. Unasked'
      BY <2>1, <2>2, <3>2 DEF AtTheStop, Unasked, InTouch
    <3>4. Stopping' /\ OneStop'
      BY <2>2, <3>2, TellsAt DEF Stopping, OneStop
    <3>. QED
      BY <2>2, <3>2, <3>3, <3>4
  <2>4. CASE Resume
    <3>1. 1 \in DOMAIN commands /\ commands[1].kind = "resume" /\ serving # None
      BY <2>4, CommandsAt DEF Resume
    <3>2. Resuming /\ ~Unasked
      BY <2>4, <3>1 DEF Resuming, Unasked, Resume, TakesCommand
    <3>3. ~stopped /\ ~Stopping
      BY <2>2, <3>1, <3>2
    <3>4. serving' = None /\ UNCHANGED <<stopped, number>>
      BY <2>4 DEF Resume, adapter
    <3>5. ~TakeStopped /\ \A f \in Fiber : ~Serve(f)
      BY <2>4, <3>1, <3>4 DEF TakeStopped, Serve, driver
    <3>6. ~Stopping' /\ OneStop'
      BY <2>2, <3>3, <3>4, <3>5, StoppingSteps
    <3>. QED
      BY <3>3, <3>4, <3>6
  <2>5. CASE TakeStopped
    <3>1. /\ stopped' /\ UNCHANGED <<cmds, commands, serving, number>>
          /\ wire # <<>> /\ wire' = Tail(wire) /\ Head(wire).kind = "stopped"
      BY <2>5 DEF TakeStopped, Hears, driver
    <3>2. Stopping
      BY <3>1, HearsAt DEF Stopping
    <3>3. serving # None /\ Unasked
      BY <2>2, <3>2
    <3>4. ~Stopping' /\ OneStop'
      BY <2>2, <3>1, HearsAt DEF Stopping, OneStop
    <3>5. ~Resuming'
      BY <3>1, <3>3 DEF Unasked, Resuming, AboutStop
    <3>. QED
      BY <3>1, <3>3, <3>4, <3>5
  <2>6. CASE Forward /\ stopped
    <3>1. UNCHANGED <<wire, commands, serving, number>> /\ serving # None /\ ~Stopping /\ ~Resuming
      BY <2>2, <2>6 DEF Forward, driver
    <3>2. PICK line \in Lines : cmds' = Append(cmds, line) /\ (stopped' <=> line.kind # "resume")
      BY <2>1, <2>6, ForwardSends DEF InTouch
    <3>3. Resuming' <=> line.kind = "resume"
      BY <3>1, <3>2, SendsAt DEF Resuming
    <3>. QED
      BY <2>2, <3>1, <3>2, <3>3 DEF Stopping, OneStop
  <2>7. CASE ~Resume /\ ~TakeStopped /\ ~(Forward /\ stopped) /\ \A f \in Fiber : ~Serve(f)
    <3>1. UNCHANGED <<serving, number>> /\ (Resuming' <=> Resuming) /\ (Unasked => Unasked')
      BY <2>2, <2>7, ResumingSteps
    <3>2. (Stopping' <=> Stopping) /\ (OneStop => OneStop')
      BY <2>7, <3>1, StoppingSteps
    <3>3. stopped' <=> stopped
      BY <2>7, StoppedSteps
    <3>. QED
      BY <2>2, <3>1, <3>2, <3>3
  <2>. QED
    BY <2>3, <2>4, <2>5, <2>6, <2>7
<1>. QED
  BY <1>1, <1>2, <1>3

\* What the editor asks next about the stop it shows.
LEMMA AsksShown ==
    ASSUME Typed, StopShown, InTouch, Asks
    PROVE  StopShown'
<1>. USE DEF StopShown
<1>1. UNCHANGED <<connected, attached, stopped, number>>
  BY AsksOnly DEF adapter, driver
<1>2. /\ ~stopped => view = 0 /\ ~Asking
      /\ stopped => view = IF Asking THEN 0 ELSE number
      /\ \A i \in DOMAIN asked : asked[i].kind \in AboutStop =>
            /\ asked[i].about = 0 \/ (stopped /\ asked[i].about = number)
            /\ asked[i].kind = "resume" =>
                \A j \in DOMAIN asked : i < j /\ asked[j].kind \in AboutStop =>
                    asked[j].kind # "resume" /\ asked[j].about = 0
  BY DEF InTouch
<1>3. ASSUME NEW kind \in AboutStop \cup {"breakpoints", "configurationDone", "pause", "terminate",
                                          "disconnect"}, Ask(kind), UNCHANGED view,
             kind # "resume", kind = "inspect" => view # 0
      PROVE  StopShown'
  <2>1. /\ DOMAIN asked = 1..Len(asked) /\ Len(asked) \in Nat
        /\ \A i \in DOMAIN asked : i \in DOMAIN asked' /\ asked'[i] = asked[i]
        /\ \A i \in DOMAIN asked' : i \in DOMAIN asked \/ i = Len(asked) + 1
        /\ Len(asked) + 1 \in DOMAIN asked'
        /\ asked'[Len(asked) + 1].kind = kind /\ asked'[Len(asked) + 1].about = view
    BY <1>3, AskAt
  <2>2. Asking' <=> Asking
    BY <1>3, <2>1 DEF Asking
  <2>3. view = 0 \/ (stopped /\ ~Asking /\ view = number)
    BY <1>2
  <2>4. ASSUME NEW i \in DOMAIN asked', asked'[i].kind = "resume",
               NEW j \in DOMAIN asked', i < j, asked'[j].kind \in AboutStop
        PROVE  asked'[j].kind # "resume" /\ asked'[j].about = 0
    <3>1. i \in DOMAIN asked /\ asked[i].kind = "resume" /\ asked'[i] = asked[i]
      BY <1>3, <2>1, <2>4
    <3>2. Asking
      BY <3>1 DEF Asking
    <3>3. view = 0
      BY <1>2, <3>2
    <3>4. CASE j \in DOMAIN asked
      BY <1>2, <2>1, <2>4, <3>1, <3>4 DEF AboutStop
    <3>5. CASE j = Len(asked) + 1
      BY <1>3, <2>1, <3>3, <3>5
    <3>. QED
      BY <2>1, <3>4, <3>5
  <2>5. ASSUME NEW i \in DOMAIN asked', asked'[i].kind \in AboutStop
        PROVE  asked'[i].about = 0 \/ (stopped /\ asked'[i].about = number)
    BY <1>2, <2>1, <2>3, <2>5
  <2>. QED
    BY <1>1, <1>2, <1>3, <2>2, <2>4, <2>5
<1>4. CASE Resumes
  <2>1. Ask("resume") /\ view # 0 /\ view' = 0
    BY <1>4 DEF Resumes
  <2>2. stopped /\ ~Asking /\ view = number
    BY <1>2, <2>1
  <2>3. /\ DOMAIN asked = 1..Len(asked) /\ Len(asked) \in Nat
        /\ \A i \in DOMAIN asked : i \in DOMAIN asked' /\ asked'[i] = asked[i]
        /\ \A i \in DOMAIN asked' : i \in DOMAIN asked \/ i = Len(asked) + 1
        /\ Len(asked) + 1 \in DOMAIN asked'
        /\ asked'[Len(asked) + 1].kind = "resume" /\ asked'[Len(asked) + 1].about = view
    BY <2>1, AskAt DEF AboutStop
  <2>4. Asking'
    BY <2>3 DEF Asking
  <2>5. ASSUME NEW i \in DOMAIN asked', asked'[i].kind = "resume", NEW j \in DOMAIN asked', i < j
        PROVE  FALSE
    BY <2>2, <2>3, <2>5 DEF Asking
  <2>6. ASSUME NEW i \in DOMAIN asked', asked'[i].kind \in AboutStop
        PROVE  asked'[i].about = 0 \/ (stopped /\ asked'[i].about = number)
    BY <1>2, <2>2, <2>3, <2>6
  <2>. QED
    BY <1>1, <2>1, <2>2, <2>4, <2>5, <2>6
<1>. QED
  BY <1>3, <1>4 DEF Asks, Configures, Starts, Inspects, Evaluates, Pauses, Terminates, Leaves, AboutStop

\* The editor asks about the stop it is shown, up to its own resume of it.
LEMMA StepStopShown ==
    Typed /\ NotStarted /\ StartedOnce /\ Alive /\ Agreed /\ [Next /\ Uncancelled]_vars => StopShown'
<1>. SUFFICES ASSUME Typed, NotStarted, StartedOnce, Alive, Agreed, [Next /\ Uncancelled]_vars, InTouch'
              PROVE  StopShown'
  BY DEF StopShown, InTouch
<1>. USE DEF StopShown
<1>1. CASE UNCHANGED vars
  BY <1>1 DEF vars, editor, adapter, driver, Agreed, Asking
<1>2. CASE Connect
  <2>1. UNCHANGED <<asked, view, stopped>> /\ ~stopped /\ view = 0 /\ session = "starting"
    BY <1>2 DEF Connect, NotStarted
  <2>2. \A i \in DOMAIN asked : asked[i].kind \notin AboutStop
    BY <2>1 DEF StartedOnce
  <2>. QED
    BY <2>1, <2>2 DEF Asking, AboutStop
<1>3. CASE Next /\ Uncancelled /\ ~Connect
  <2>. USE <1>3
  <2>1. InTouch
    BY StaysInTouch
  <2>2. /\ ~stopped => view = 0 /\ ~Asking
        /\ stopped => view = IF Asking THEN 0 ELSE number
        /\ \A i \in DOMAIN asked : asked[i].kind \in AboutStop =>
              /\ asked[i].about = 0 \/ (stopped /\ asked[i].about = number)
              /\ asked[i].kind = "resume" =>
                  \A j \in DOMAIN asked : i < j /\ asked[j].kind \in AboutStop =>
                      asked[j].kind # "resume" /\ asked[j].about = 0
    BY <2>1 DEF InTouch, Agreed
  <2>3. CASE Asks
    BY <2>1, <2>3, AsksShown DEF Agreed
  <2>4. ASSUME NEW kinds, Takes(kinds), Request.kind # "resume", stopped' <=> stopped, UNCHANGED <<view, number>>
        PROVE  StopShown'
    <3>1. Asking' <=> Asking
      BY <2>4, TakesAt DEF Asking
    <3>. QED
      BY <2>2, <2>4, <3>1, TakesAt
  <2>5. CASE Forward
    <3>1. UNCHANGED <<view, number>>
      BY <2>5 DEF Forward, driver
    <3>2. CASE Request.kind # "resume"
      <4>1. stopped' <=> stopped
        <5>1. UNCHANGED stopped \/ (~stopped /\ ~stopped') \/ (stopped /\ stopped')
          BY <2>5, <3>2, ForwardSends
        <5>2. CASE UNCHANGED stopped
          BY <5>2, Zenon
        <5>. QED
          BY <5>1, <5>2
      <4>. QED
        BY <2>4, <2>5, <3>1, <3>2, <4>1 DEF Forward
    <3>3. CASE Request.kind = "resume"
      <4>1. 1 \in DOMAIN asked /\ asked[1].kind = "resume"
        BY <2>5, <3>3, TakesAt DEF Forward
      <4>2. Asking
        BY <4>1 DEF Asking
      <4>3. stopped /\ view = 0
        BY <2>2, <4>2
      <4>4. ~stopped'
        BY <2>1, <2>5, <3>3, <4>3, ForwardSends DEF InTouch
      <4>5. \A i \in DOMAIN asked' : asked'[i].kind \in AboutStop => asked'[i].kind # "resume" /\ asked'[i].about = 0
        <5>1. \A i \in DOMAIN asked' : i + 1 \in DOMAIN asked /\ asked'[i] = asked[i + 1] /\ 1 < i + 1
          BY <2>5, TakesAt DEF Forward
        <5>. QED
          BY <2>2, <4>1, <5>1 DEF AboutStop
      <4>6. ~Asking'
        BY <4>5 DEF Asking, AboutStop
      <4>. QED
        BY <3>1, <4>3, <4>4, <4>5, <4>6
    <3>. QED
      BY <3>2, <3>3
  <2>6. CASE SetBreakpoints \/ Pause \/ Terminate
    <3>1. UNCHANGED <<view, number, stopped>>
      BY <2>6, StaysInTouch DEF SetBreakpoints, Pause, Terminate, driver, adapter
    <3>2. ASSUME NEW kinds, Takes(kinds), "resume" \notin kinds PROVE StopShown'
      <4>1. Request.kind # "resume" /\ (stopped' <=> stopped)
        BY <3>1, <3>2, TakesAt
      <4>. QED
        BY <2>4, <3>1, <3>2, <4>1
    <3>. QED
      BY <2>6, <3>2 DEF SetBreakpoints, Pause, Terminate
  <2>7. CASE TakeStopped
    <3>1. /\ stopped' /\ UNCHANGED <<asked, number>> /\ wire # <<>> /\ wire' = Tail(wire)
          /\ view' = Head(wire).number /\ Head(wire).kind = "stopped"
      BY <2>7 DEF TakeStopped, Hears, driver
    <3>2. Stopping /\ wire[1].kind = "stopped" /\ 1 \in DOMAIN wire /\ view' = wire[1].number
      BY <3>1, HearsAt DEF Stopping
    <3>3. ~stopped /\ view' = number
      BY <2>1, <3>2 DEF Agreed, StopKnown, OneStop, InTouch
    <3>. QED
      BY <2>2, <3>1, <3>3 DEF Asking
  <2>8. ASSUME UNCHANGED <<asked, view, stopped>>, UNCHANGED number \/ ~stopped PROVE StopShown'
    BY <2>2, <2>8 DEF Asking
  <2>9. CASE \E f \in Fiber : Serve(f)
    <3>1. UNCHANGED <<asked, view, stopped>> /\ serving = None
      BY <2>9 DEF Serve, editor, adapter
    <3>2. ~stopped
      BY <2>1, <3>1 DEF Agreed, StopKnown, InTouch
    <3>. QED
      BY <2>8, <3>1, <3>2
  <2>10. CASE TakeAnswer \/ TakeEnded
    <3>1. UNCHANGED <<asked, view, stopped, number>>
      BY <2>10 DEF TakeAnswer, TakeEnded, editor, driver
    <3>. QED
      BY <2>8, <3>1
  <2>11. CASE Reader \/ Inspect \/ Resume \/ Program \/ \E f \in Fiber : Cancel(f)
    <3>1. UNCHANGED <<asked, view, stopped, number>>
      BY <2>11, StaysInTouch DEF Reader, ReadBreakpoints, ReadLaunch, ReadEval, ReadAboutStop, Inspect, Resume, Program,
         Run, EndMain, Spawn, EndTask, Compute, Yield, Runs, Halt, Cancel, editor, adapter, driver
    <3>. QED
      BY <2>8, <3>1
  <2>. QED
    BY <2>3, <2>5, <2>6, <2>7, <2>9, <2>10, <2>11, StaysInTouch DEF Next, Adapter, Server
<1>. QED
  BY <1>1, <1>2, <1>3

-----------------------------------------------------------------------------
(* The theorems. *)

SessionInv ==
    /\ Typed /\ StartedOnce /\ NotStarted /\ Alive /\ LaunchLine /\ Numbers
    /\ Unanswered /\ AnsweredOnce /\ LastBreakpoints /\ ThreadsTold

LEMMA InitSession == Init => SessionInv
<1>. SUFFICES ASSUME Init PROVE SessionInv
  OBVIOUS
<1>. USE DEF Init
<1>1. Typed
  BY InitTyped
<1>2. StartedOnce /\ NotStarted /\ Alive /\ LaunchLine /\ Numbers
  BY DEF StartedOnce, NotStarted, Alive, LaunchLine, Numbers
<1>3. Unanswered /\ AnsweredOnce /\ LastBreakpoints /\ ThreadsTold
  BY DEF Unanswered, AnsweredOnce, LastBreakpoints, ThreadsTold
<1>. QED
  BY <1>1, <1>2, <1>3 DEF SessionInv

LEMMA StepSession == SessionInv /\ [Next]_vars => SessionInv'
BY StepTyped, StepStartedOnce, StepNotStarted, StepAlive, StepLaunchLine, StepNumbers, StepUnanswered,
   StepLastBreakpoints, StepThreadsTold DEF SessionInv

\* The inductive invariant of a session: who lives, what is on its way and what
\* it will make of breakpoints, threads and answers.
THEOREM SessionCorrect == Spec => []SessionInv
<1>. QED
  BY InitSession, StepSession, PTL DEF Spec

\* The variables of a session have their types: who is served has stopped and is
\* named, a dead process runs nothing, and the editor shows a stop there was.
THEOREM SessionTyped == Spec => []TypeOK
<1>1. SessionInv => TypeOK
  <2>. SUFFICES ASSUME SessionInv PROVE TypeOK
    OBVIOUS
  <2>. USE DEF SessionInv, Typed
  <2>1. /\ mode \in {"launch", "attach"} /\ sent \in 0..MaxRequests /\ view \in 0..number
        /\ breakpoints \in 0..MaxRequests /\ answers \in [Id -> Nat]
    BY DEF TypedEditor, TypedAdapter, Numbers
  <2>2. /\ session \in {"configuring", "starting", "running", "gone"}
        /\ threads \subseteq Fiber /\ pending \subseteq Id /\ named \subseteq Fiber
    BY DEF TypedAdapter, TypedDriver
  <2>3. {stopped, connected, hears, watching, attached} \subseteq BOOLEAN
    BY DEF TypedAdapter, TypedDriver
  <2>4. /\ process \in {"none", "alive", "dead"}
        /\ fiber \in [Fiber -> {"none", "running", "halted", "done"}]
        /\ serving # None => fiber[serving] = "halted" /\ serving \in named
        /\ connected => hears
        /\ computing \in Fiber \cup {None} /\ (computing # None => fiber[computing] = "running")
        /\ process # "alive" => (\A f \in Fiber : fiber[f] # "running") /\ ~attached
    BY DEF TypedProgram, Alive
  <2>. QED
    BY <2>1, <2>2, <2>3, <2>4 DEF TypeOK
<1>. QED
  BY <1>1, SessionCorrect, PTL

\* No request of the editor is answered twice, although the adapter answers what
\* it had left to the driver when the connection closes.
THEOREM RequestsAnsweredOnce == Spec => []AnsweredOnce
<1>1. SessionInv => AnsweredOnce
  BY DEF SessionInv
<1>. QED
  BY <1>1, SessionCorrect, PTL

\* A driver that has read everything has the breakpoints of the editor.
THEOREM BreakpointsKnown == Spec => []BreakpointsTold
<1>1. SessionInv => BreakpointsTold
  BY DEF SessionInv, LastBreakpoints, BreakpointsTold
<1>. QED
  BY <1>1, SessionCorrect, PTL

\* An adapter that has heard everything lists the threads there are.
THEOREM ThreadsKnown == Spec => []ThreadsListed
<1>1. SessionInv => ThreadsListed
  <2>. SUFFICES ASSUME SessionInv, connected, attached, wire = <<>> PROVE threads = {Main} \cup named
    BY DEF ThreadsListed
  <2>1. \A f \in Fiber : f \in threads <=> f \in {Main} \cup named
    BY DEF SessionInv, ThreadsTold, Told
  <2>. QED
    BY <2>1 DEF SessionInv, Typed, TypedAdapter, TypedDriver
<1>. QED
  BY <1>1, SessionCorrect, PTL

\* A launched program starts with the breakpoints that were set before.
THEOREM BreakpointsInPlace == Spec => BreakpointsFirst
<1>1. SessionInv /\ [Next]_vars =>
        [mode = "launch" /\ fiber[Main] = "none" /\ fiber'[Main] = "running" => wanted = Head(cmds).id]_vars
  <2>. SUFFICES ASSUME SessionInv, Next, mode = "launch", fiber[Main] = "none", fiber'[Main] = "running"
                PROVE  wanted = Head(cmds).id
    OBVIOUS
  <2>. USE DEF SessionInv
  <2>1. ReadLaunch => wanted = Head(cmds).id
    BY ReadsAt DEF ReadLaunch, LaunchLine
  <2>2. ReadLaunch
    <3>1. CASE Asks
      BY <3>1, AsksOnly DEF program
    <3>2. CASE Adapter \/ AdapterDies
      BY <3>2 DEF Adapter, SetBreakpoints, Start, StartFails, Connect, Forward, Pause, Terminate, Disconnect, AdapterDies, Kills,
         Dies, TakeAnswer, TakeStopped, TakeEnded, DriverClosed, Exited, program, Typed, TypedProgram
    <3>3. CASE Reader
      BY <3>3 DEF Reader, ReadBreakpoints, ReadEval, ReadAboutStop, HangUp, program
    <3>4. CASE Inspect \/ Resume \/ Disconnected \/ \E f \in Fiber : Serve(f) \/ Cancel(f)
      BY <3>4 DEF Inspect, Resume, TakesCommand, Disconnected, Dies, Serve, Cancel, program, Alive, Typed, TypedProgram,
         TypedDriver
    <3>5. CASE Program
      BY <3>5 DEF Program, Run, EndMain, Exit, Dies, Spawn, EndTask, Compute, Yield, Runs, Halt, Typed, TypedProgram
    <3>. QED
      BY <3>1, <3>2, <3>3, <3>4, <3>5 DEF Next, Server
  <2>. QED
    BY <2>1, <2>2
<1>. QED
  BY <1>1, SessionCorrect, PTL DEF Spec, BreakpointsFirst

\* While nobody cancels a fiber at its stop, the adapter and the driver agree on
\* where the program stands: the commands carried out at a stop are about it, and
\* once everything was heard the adapter takes the program for stopped exactly
\* when a stop is served, and the editor shows that stop.
THEOREM StaysInStep == Init /\ [][Next /\ Uncancelled]_vars => []InStep
<1>1. Init => SessionInv /\ Agreed
  <2>1. Init => Agreed
    BY DEF Init, Agreed, AtTheStop, StopKnown, StopShown, AboutTheStop
  <2>. QED
    BY <2>1, InitSession
<1>2. SessionInv /\ Agreed /\ [Next /\ Uncancelled]_vars => SessionInv' /\ Agreed'
  <2>. SUFFICES ASSUME SessionInv, Agreed, [Next /\ Uncancelled]_vars PROVE SessionInv' /\ Agreed'
    OBVIOUS
  <2>1. [Next]_vars
    OBVIOUS
  <2>2. SessionInv'
    BY <2>1, StepSession
  <2>3. AtTheStop' /\ StopKnown' /\ StopShown'
    BY StepAtTheStop, StepStopKnown, StepStopShown DEF SessionInv
  <2>4. AboutTheStop'
    BY <2>1, StepAboutTheStop DEF SessionInv, Agreed
  <2>. QED
    BY <2>2, <2>3, <2>4 DEF Agreed
<1>3. SessionInv /\ Agreed => InStep
  <2>. SUFFICES ASSUME SessionInv, Agreed PROVE InStep
    OBVIOUS
  <2>1. ThreadsListed
    <3>. SUFFICES ASSUME connected, attached, wire = <<>> PROVE threads = {Main} \cup named
      BY DEF ThreadsListed
    <3>1. \A f \in Fiber : f \in threads <=> f \in {Main} \cup named
      BY DEF SessionInv, ThreadsTold, Told
    <3>. QED
      BY <3>1 DEF SessionInv, Typed, TypedAdapter, TypedDriver
  <2>2. BreakpointsTold
    BY DEF SessionInv, LastBreakpoints, BreakpointsTold
  <2>3. StoppedTruly
    <3>. SUFFICES ASSUME connected, attached, wire = <<>>, cmds = <<>>, commands = <<>>
                  PROVE  (stopped <=> serving # None) /\ (stopped => view \in {0, number})
      BY DEF StoppedTruly
    <3>1. ~Stopping /\ ~Resuming
      BY DEF Stopping, Resuming
    <3>. QED
      BY <3>1 DEF Agreed, StopKnown, StopShown
  <2>. QED
    BY <2>1, <2>2, <2>3 DEF InStep, Agreed
<1>. QED
  BY <1>1, <1>2, <1>3, PTL

=============================================================================
