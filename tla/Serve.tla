------------------------------- MODULE Serve -------------------------------
(***************************************************************************)
(* The message loop of the language server: `serve`, `answer`,             *)
(* `infer_answering` and `format_in_background` of                         *)
(* janet-lsp-plus/src/lsp/mod.rs, with the client on the other end of the  *)
(* connection.                                                             *)
(*                                                                         *)
(* What a notification changes and what a check reports are not looked     *)
(* into here: LanguageServer.tla extends this module and says what they    *)
(* do.  Here a notification counts (`applied`), so that an answer can be   *)
(* compared with what the client had said when it asked.                   *)
(***************************************************************************)
EXTENDS Integers, Sequences

CONSTANTS
    Note,         \* what a notification the server applies can say
    NoNote,       \* the `note` of every other message
    Checked,      \* what comes back on the checker's results channel
    MaxRequests,  \* bound: the requests the client sends
    MaxNotes,     \* bound: the notifications the client sends
    MaxWaiting,   \* bound: messages sent and not handled at a time
    MaxResults,   \* bound: check results waiting at a time
    Files         \* bound: components of the import graph that can lack their types

ASSUME ServeAssumption ==
    /\ MaxRequests \in Nat
    /\ MaxNotes \in Nat
    /\ MaxWaiting \in Nat
    /\ MaxResults \in Nat
    /\ Files \in Nat

VARIABLES
    inbox,        \* sent by the client, not yet received by the loop
    queue,        \* `queue` of serve: received, not yet handled
    connected,    \* the client still holds its end of the connection
    pc,           \* where the server's main thread stands
    asking,       \* the client has a request of the server's to answer
    projectStale, \* `project_stale`
    listening,    \* channels the Select of infer_answering still watches
    stop,         \* the flag the inference thread reads before each file
    walk,         \* the inference thread
    left,         \* components whose types are not cached
    results,      \* the channel checks come back on
    formatting,   \* requests a formatting thread is to answer
    lastId,       \* the client's last request
    notes,        \* notifications sent so far
    applied,      \* notifications the state reflects
    asked,        \* by request, the notifications sent before it
    seen,         \* by request, the notifications applied when it was served
    replies       \* by request, the responses sent

clientVars == <<inbox, connected, asking, lastId, notes, asked>>
loopVars   == <<queue, pc, projectStale, left, results, applied>>
passVars   == <<listening, stop, walk>>
answerVars == <<formatting, seen, replies>>
serverVars == <<loopVars, passVars, answerVars>>
vars == <<inbox, queue, connected, pc, asking, projectStale, listening, stop, walk,
          left, results, formatting, lastId, notes, applied, asked, seen, replies>>

Request  == 1 .. MaxRequests
Requests == {"read", "format", "shutdown"}
Unserved == -1

\* What the client sends, with the number of notifications sent before it.
Message ==
    [kind : Requests \cup {"cancel"}, id : Request, note : {NoNote}, at : Nat]
    \cup [kind : {"exit", "response"}, id : {0}, note : {NoNote}, at : Nat]
    \cup [kind : {"note"}, id : {0}, note : Note, at : Nat]

ClientTypeOK ==
    /\ inbox \in Seq(Message)
    /\ connected \in BOOLEAN
    /\ asking \in BOOLEAN
    /\ lastId \in 0 .. MaxRequests
    /\ notes \in Nat
    /\ asked \in [Request -> Nat]

LoopTypeOK ==
    /\ queue \in Seq(Message)
    /\ pc \in {"loop", "infer", "exiting", "stopped"}
    /\ projectStale \in BOOLEAN
    /\ left \in 0 .. Files
    /\ results \in Seq(Checked)
    /\ applied \in Nat

PassTypeOK ==
    /\ listening \subseteq {"client", "results"}
    /\ stop \in BOOLEAN
    /\ walk \in {"off", "picking", "reading", "finished", "stopped"}

AnswerTypeOK ==
    /\ formatting \subseteq Request
    /\ seen \in [Request -> Nat \cup {Unserved}]
    /\ replies \in [Request -> Nat]

TypeOK == ClientTypeOK /\ LoopTypeOK /\ PassTypeOK /\ AnswerTypeOK

\* The server has asked the client to watch files, or to show progress, and has
\* read the whole workspace.
Init ==
    /\ inbox = <<>> /\ queue = <<>> /\ connected = TRUE
    /\ pc = "loop"
    /\ asking = TRUE
    /\ projectStale = TRUE
    /\ listening = {} /\ stop = FALSE /\ walk = "off"
    /\ left = Files
    /\ results = <<>>
    /\ formatting = {}
    /\ lastId = 0 /\ notes = 0 /\ applied = 0
    /\ asked = [r \in Request |-> 0]
    /\ seen = [r \in Request |-> Unserved]
    /\ replies = [r \in Request |-> 0]

-----------------------------------------------------------------------------
(* The client.  It numbers its requests, and after `shutdown` it sends      *)
(* nothing but `exit`, as the protocol asks.                                *)

\* Whether the client has asked the server to shut down.
ShutdownSent ==
    \/ pc \in {"exiting", "stopped"}
    \/ \E i \in DOMAIN inbox : inbox[i].kind = "shutdown"
    \/ \E i \in DOMAIN queue : queue[i].kind = "shutdown"

Send(kind, id, note) ==
    /\ connected
    /\ Len(inbox) + Len(queue) < MaxWaiting
    /\ inbox' = Append(inbox, [kind |-> kind, id |-> id, note |-> note, at |-> notes])

SendRequest(kind) ==
    /\ ~ShutdownSent
    /\ lastId < MaxRequests
    /\ lastId' = lastId + 1
    /\ asked' = [asked EXCEPT ![lastId + 1] = notes]
    /\ Send(kind, lastId + 1, NoNote)
    /\ UNCHANGED <<serverVars, connected, asking, notes>>

SendNote(note) ==
    /\ ~ShutdownSent
    /\ notes < MaxNotes
    /\ notes' = notes + 1
    /\ Send("note", 0, note)
    /\ UNCHANGED <<serverVars, connected, asking, lastId, asked>>

\* A cancel for a request sent before; the client cancels a request once, and
\* only one it has no answer to yet.
SendCancel(r) ==
    /\ ~ShutdownSent
    /\ r <= lastId
    /\ replies[r] = 0
    /\ \A i \in DOMAIN inbox : ~(inbox[i].kind = "cancel" /\ inbox[i].id = r)
    /\ \A i \in DOMAIN queue : ~(queue[i].kind = "cancel" /\ queue[i].id = r)
    /\ Send("cancel", r, NoNote)
    /\ UNCHANGED <<serverVars, connected, asking, lastId, notes, asked>>

\* An answer to a request of the server's, such as refreshing the inlay hints;
\* however many wait for one count once.
SendResponse ==
    /\ ~ShutdownSent
    /\ asking
    /\ asking' = FALSE
    /\ Send("response", 0, NoNote)
    /\ UNCHANGED <<serverVars, connected, lastId, notes, asked>>

SendExit ==
    /\ ShutdownSent
    /\ \A i \in DOMAIN inbox : inbox[i].kind # "exit"
    /\ \A i \in DOMAIN queue : queue[i].kind # "exit"
    /\ Send("exit", 0, NoNote)
    /\ UNCHANGED <<serverVars, connected, asking, lastId, notes, asked>>

\* The client goes, with or without saying so: its end of stdin is closed.
Disconnect ==
    /\ connected
    /\ connected' = FALSE
    /\ UNCHANGED <<serverVars, inbox, asking, lastId, notes, asked>>

Client ==
    \/ \E kind \in Requests : SendRequest(kind)
    \/ \E note \in Note : SendNote(note)
    \/ \E r \in Request : SendCancel(r)
    \/ SendResponse
    \/ SendExit
    \/ Disconnect

-----------------------------------------------------------------------------
(* The loop of `serve`: what has arrived first, then checks come back, then *)
(* the project's findings.                                                  *)

\* Mutant of Quiet: a pass begins before what has arrived is handled.
ChecksTaken == results = <<>>

\* Nothing waits for the loop but `project_stale`.
Quiet == queue = <<>> /\ results = <<>>

\* One message moves from the connection to `queue`: of `try_iter` at the top
\* of the loop, or of the blocking `select!`.  The connection hands messages
\* over one at a time, so the loop may go on before all that was sent is in.
Receive ==
    /\ pc = "loop"
    /\ inbox # <<>>
    /\ queue' = Append(queue, Head(inbox))
    /\ inbox' = Tail(inbox)
    /\ UNCHANGED <<connected, pc, asking, projectStale, passVars, left, results,
                   answerVars, lastId, notes, applied, asked>>

\* The loop takes the first message of `queue`, which is one of `kinds`.
Pop(kinds) ==
    /\ pc = "loop"
    /\ queue # <<>>
    /\ Head(queue).kind \in kinds
    /\ queue' = Tail(queue)
    /\ UNCHANGED <<clientVars, passVars, results>>

IsCancelled(id) ==
    \E i \in 2 .. Len(queue) : queue[i].kind = "cancel" /\ queue[i].id = id

Reply(id) == replies' = [replies EXCEPT ![id] = @ + 1]

Saw(id) == seen' = [seen EXCEPT ![id] = applied]

\* The cached types after some are dropped, and after some are filled in.
Dropped == left' \in left .. Files
Filled  == left' \in 0 .. left

\* A request whose cancel has arrived is refused instead of served.
RefuseCancelled ==
    /\ Pop(Requests)
    /\ IsCancelled(Head(queue).id)
    /\ Reply(Head(queue).id)
    /\ UNCHANGED <<pc, projectStale, left, formatting, applied, seen>>

\* Mutant of Answer: a request left to a formatting thread is answered too.
AnswerTwice(kind, id) ==
    /\ Saw(id)
    /\ IF kind = "format" THEN formatting' = formatting \cup {id} /\ UNCHANGED left
       ELSE Filled /\ UNCHANGED formatting
    /\ Reply(id)

\* `answer`, for the request `id` of `kind`: formatting is prepared from the
\* state and left to a thread, or refused at once; anything else reads the
\* state, infers what it lacks, and is answered in place.
Answer(kind, id) ==
    /\ Saw(id)
    /\ \/ kind = "format" /\ formatting' = formatting \cup {id} /\ UNCHANGED <<replies, left>>
       \/ kind = "format" /\ Reply(id) /\ UNCHANGED <<formatting, left>>
       \/ kind = "read" /\ Reply(id) /\ Filled /\ UNCHANGED formatting

ServeRequest ==
    /\ Pop({"read", "format"})
    /\ ~IsCancelled(Head(queue).id)
    /\ Answer(Head(queue).kind, Head(queue).id)
    /\ UNCHANGED <<pc, projectStale, applied>>

\* `shutdown` is answered; then `exit` is waited for, unless it is here.
ServeShutdown ==
    /\ Pop({"shutdown"})
    /\ ~IsCancelled(Head(queue).id)
    /\ Reply(Head(queue).id)
    /\ Saw(Head(queue).id)
    /\ pc' = IF \E i \in 2 .. Len(queue) : queue[i].kind = "exit"
             THEN "stopped" ELSE "exiting"
    /\ UNCHANGED <<projectStale, left, formatting, applied>>

\* Mutant of LeaveAfterShutdown: only a message ends the wait.
LeaveOnMessage ==
    /\ pc = "exiting" /\ inbox # <<>>
    /\ pc' = "stopped"
    /\ UNCHANGED <<clientVars, queue, projectStale, passVars, left, results,
                   answerVars, applied>>

\* A message, the client's end, or thirty seconds end the wait.
LeaveAfterShutdown ==
    /\ pc = "exiting"
    /\ pc' = "stopped"
    /\ UNCHANGED <<clientVars, queue, projectStale, passVars, left, results,
                   answerVars, applied>>

\* `sync`: the state follows the notification, which may drop cached types
\* and may ask for the project's findings to be read again.
Notify ==
    /\ Pop({"note"})
    /\ applied' = applied + 1
    /\ projectStale' \in {projectStale, TRUE}
    /\ Dropped
    /\ UNCHANGED <<pc, answerVars>>

\* A cancel nobody waits for, an `exit` out of turn, a client's response.
Ignore ==
    /\ Pop({"cancel", "exit", "response"})
    /\ UNCHANGED <<pc, projectStale, left, answerVars, applied>>

\* `publish`: what a check reports may drop cached types.
Publish ==
    /\ pc = "loop"
    /\ queue = <<>>
    /\ results # <<>>
    /\ results' = Tail(results)
    /\ projectStale' \in {projectStale, TRUE}
    /\ Dropped
    /\ UNCHANGED <<clientVars, queue, pc, passVars, answerVars, applied>>

\* `select!` finds the client gone and nothing else to do.
ClientGone ==
    /\ pc = "loop"
    /\ Quiet /\ ~projectStale
    /\ inbox = <<>> /\ ~connected
    /\ pc' = "stopped"
    /\ UNCHANGED <<clientVars, queue, projectStale, passVars, left, results,
                   answerVars, applied>>

-----------------------------------------------------------------------------
(* `publish_project`, with inference on a thread of its own.                *)

\* With types off nothing is inferred: marks are only taken off, and the client
\* is asked for its inlay hints again.
PublishUninferred ==
    /\ pc = "loop"
    /\ Quiet /\ projectStale
    /\ projectStale' = FALSE
    /\ asking' = TRUE
    /\ UNCHANGED <<inbox, connected, lastId, notes, asked, queue, pc, passVars, left,
                   results, answerVars, applied>>

BeginPass ==
    /\ pc = "loop"
    /\ Quiet /\ projectStale
    /\ pc' = "infer"
    /\ listening' = {"client", "results"}
    /\ stop' = FALSE
    /\ walk' = "picking"
    /\ UNCHANGED <<clientVars, queue, projectStale, left, results, answerVars, applied>>

\* The inference thread starts on the next component, unless told to stop.
PickFile ==
    /\ walk = "picking" /\ ~stop /\ left > 0
    /\ walk' = "reading"
    /\ UNCHANGED <<clientVars, queue, pc, projectStale, listening, stop, left, results,
                   answerVars, applied>>

\* It is read and cached; or, told to stop between the files of a component,
\* the thread leaves all of it uncached.
ReadFile ==
    /\ walk = "reading"
    /\ walk' = "picking"
    /\ \/ left' = IF left > 0 THEN left - 1 ELSE 0
       \/ stop /\ left' = left
    /\ UNCHANGED <<clientVars, queue, pc, projectStale, listening, stop, results,
                   answerVars, applied>>

\* `infer_until` returns: whether every component was reached before `stop`.
EndWalk ==
    /\ walk = "picking"
    /\ stop \/ left = 0
    /\ walk' = IF stop THEN "stopped" ELSE "finished"
    /\ UNCHANGED <<clientVars, queue, pc, projectStale, listening, stop, left, results,
                   answerVars, applied>>

\* The main thread takes one message from the connection while it infers.
Overhear(kinds) ==
    /\ pc = "infer"
    /\ "client" \in listening
    /\ inbox # <<>>
    /\ Head(inbox).kind \in kinds
    /\ inbox' = Tail(inbox)
    /\ UNCHANGED <<connected, asking, lastId, notes, asked, pc, projectStale, walk, results,
                   applied>>

AnswerInferring ==
    /\ Overhear({"read", "format"})
    /\ Answer(Head(inbox).kind, Head(inbox).id)
    /\ UNCHANGED <<queue, listening, stop>>

\* A response, or a cancel for a request answered already.
IgnoreInferring ==
    /\ Overhear({"response", "cancel"})
    /\ UNCHANGED <<queue, listening, stop, left, answerVars>>

\* Mutants of StopForMessage: the client is listened to after it, and the message
\* itself is let go.
StopAndListen ==
    /\ Overhear({"note", "shutdown", "exit"})
    /\ queue' = Append(queue, Head(inbox))
    /\ stop' = TRUE
    /\ UNCHANGED <<listening, left, answerVars>>

StopAndForget ==
    /\ Overhear({"note", "shutdown", "exit"})
    /\ stop' = TRUE
    /\ listening' = listening \ {"client"}
    /\ UNCHANGED <<queue, left, answerVars>>

\* Anything else stops inference and waits, with all that follows it.
StopForMessage ==
    /\ Overhear({"note", "shutdown", "exit"})
    /\ queue' = Append(queue, Head(inbox))
    /\ stop' = TRUE
    /\ listening' = listening \ {"client"}
    /\ UNCHANGED <<left, answerVars>>

\* A check came back: it is published once inference has stopped.
StopForCheck ==
    /\ pc = "infer"
    /\ "results" \in listening
    /\ results # <<>>
    /\ stop' = TRUE
    /\ listening' = listening \ {"results"}
    /\ UNCHANGED <<clientVars, queue, pc, projectStale, walk, left, results,
                   answerVars, applied>>

\* Nobody to answer: inference is stopped.
StopForNobody ==
    /\ pc = "infer"
    /\ "client" \in listening
    /\ inbox = <<>> /\ ~connected
    /\ stop' = TRUE
    /\ listening' = listening \ {"client"}
    /\ UNCHANGED <<clientVars, queue, pc, projectStale, walk, left, results,
                   answerVars, applied>>

\* Mutant of EndPass: whether it finished is taken for whether it is still owed.
EndPassOwed ==
    /\ pc = "infer"
    /\ walk \in {"finished", "stopped"}
    /\ pc' = "loop"
    /\ projectStale' = (walk = "finished")
    /\ asking' = (asking \/ walk = "finished")
    /\ listening' = {} /\ stop' = FALSE /\ walk' = "off"
    /\ UNCHANGED <<inbox, connected, lastId, notes, asked, queue, left, results,
                   answerVars, applied>>

\* The pass is over: finished and published, and the client asked for its inlay
\* hints again; or stopped and still owed.
EndPass ==
    /\ pc = "infer"
    /\ walk \in {"finished", "stopped"}
    /\ pc' = "loop"
    /\ projectStale' = (walk = "stopped")
    /\ asking' = (asking \/ walk = "finished")
    /\ listening' = {} /\ stop' = FALSE /\ walk' = "off"
    /\ UNCHANGED <<inbox, connected, lastId, notes, asked, queue, left, results,
                   answerVars, applied>>

\* Mutant of FormatDone: a formatter that fails answers nothing.
FormatDoneOrNot(r) ==
    /\ r \in formatting
    /\ formatting' = formatting \ {r}
    /\ Reply(r) \/ UNCHANGED replies
    /\ UNCHANGED <<clientVars, queue, pc, projectStale, passVars, left, results,
                   applied, seen>>

\* A formatting thread is done: the request is answered, whatever came of it.
\* It outlives the loop; the process waits for its answer to be written.
FormatDone(r) ==
    /\ r \in formatting
    /\ formatting' = formatting \ {r}
    /\ Reply(r)
    /\ UNCHANGED <<clientVars, queue, pc, projectStale, passVars, left, results,
                   applied, seen>>

\* A check is done: the checker runs for as long as the server does.
CheckDone(checked) ==
    /\ pc # "stopped"
    /\ results' = Append(results, checked)
    /\ UNCHANGED <<clientVars, queue, pc, projectStale, passVars, left, answerVars, applied>>

\* The checker: LanguageServer.tla puts Checker.tla in its place.
CheckReturns(checked) ==
    /\ Len(results) < MaxResults
    /\ CheckDone(checked)

-----------------------------------------------------------------------------
Loop ==
    \/ Receive
    \/ RefuseCancelled \/ ServeRequest \/ ServeShutdown \/ LeaveAfterShutdown
    \/ Notify \/ Ignore
    \/ Publish
    \/ ClientGone

Pass ==
    \/ PublishUninferred
    \/ BeginPass
    \/ PickFile \/ ReadFile \/ EndWalk
    \/ AnswerInferring \/ IgnoreInferring
    \/ StopForMessage \/ StopForCheck \/ StopForNobody
    \/ EndPass

\* The server has returned and every thread it started is done.
Terminated == pc = "stopped" /\ formatting = {} /\ UNCHANGED vars

Next ==
    \/ Client
    \/ Loop
    \/ Pass
    \/ \E r \in Request : FormatDone(r)
    \/ \E checked \in Checked : CheckReturns(checked)
    \/ Terminated

Spec == Init /\ [][Next]_vars

\* The threads run: each of the server's steps is taken if it stays enabled.
\* What the client has sent is received if it is again and again asked for:
\* the thread reading stdin blocks on handing the message over, and `Select`
\* picks at random among the channels that are ready.
Fairness ==
    /\ SF_vars(Receive)
    /\ SF_vars(AnswerInferring \/ IgnoreInferring \/ StopForMessage)
    /\ WF_vars(RefuseCancelled \/ ServeRequest \/ ServeShutdown \/ Notify \/ Ignore)
    /\ WF_vars(LeaveAfterShutdown)
    /\ WF_vars(Publish)
    /\ WF_vars(ClientGone)
    /\ WF_vars(PublishUninferred \/ BeginPass)
    /\ WF_vars(PickFile \/ ReadFile \/ EndWalk)
    /\ WF_vars(StopForCheck)
    /\ WF_vars(StopForNobody)
    /\ WF_vars(EndPass)
    /\ \A r \in Request : WF_vars(FormatDone(r))

FairSpec == Spec /\ Fairness

-----------------------------------------------------------------------------
(* Properties.                                                              *)

\* A request is answered at most once, whichever of the loop, the pass and a
\* formatting thread answers it, and whether or not it was cancelled.
AnsweredOnce == \A r \in Request : replies[r] <= 1

\* An answer reflects every notification the client sent before asking and none
\* it sent after: answering while inference runs, out of the queue's turn,
\* never overtakes an edit.
SeesWhatPrecedes ==
    \A r \in Request : seen[r] # Unserved => seen[r] = asked[r]

\* Only formatting is answered out of order: when a request is answered, so is
\* every earlier one no formatting thread holds.  Once `shutdown` is answered
\* nothing sent before it is left without an answer.
InOrder ==
    \A r \in Request : replies[r] > 0 \/ r \in formatting =>
        \A earlier \in 1 .. r - 1 : replies[earlier] > 0 \/ earlier \in formatting

\* Every request is answered in the end, however the passes, the checks and
\* the other messages fall around it.
RequestsAnswered == \A r \in Request : lastId >= r ~> replies[r] > 0

\* Every notification is applied in the end: a pass stops for it.
Heard == \A n \in 1 .. MaxNotes : notes >= n ~> applied >= n

\* The server stops once asked to shut down, also in the middle of a pass.
ShutdownStops == ShutdownSent ~> pc = "stopped"

\* Whatever the client sends is handled in the end: requests are answered,
\* notifications applied and a shutdown obeyed.
Answered == RequestsAnswered /\ Heard /\ ShutdownStops

\* The server stops once the client is gone: "inference stops, and `serve` sees
\* the client gone" (janet-lsp-plus/src/lsp/mod.rs:640).
GoneStops == ~connected ~> pc = "stopped"

-----------------------------------------------------------------------------
(* Why the safety properties hold: what is true of the messages on their    *)
(* way, in the queue and then in the connection.  ServeProofs.tla proves    *)
(* this from step to step.                                                  *)

Stream == queue \o inbox

IsRequest(message) == message.kind \in Requests

\* Nothing has been done about the request `r`.
Untouched(r) == replies[r] = 0 /\ r \notin formatting /\ seen[r] = Unserved

\* Requests come in the order of their numbers; those on their way and all later
\* ones are untouched.
Coming ==
    \A i \in 1 .. Len(Stream) : IsRequest(Stream[i]) =>
        /\ Stream[i].id \in 1 .. lastId
        /\ asked[Stream[i].id] = Stream[i].at
        /\ \A r \in Request : r >= Stream[i].id => Untouched(r)
        /\ \A j \in 1 .. i - 1 : IsRequest(Stream[j]) => Stream[j].id < Stream[i].id

\* No request is lost: it is answered, being formatted, or on its way.
NoneLost ==
    \A r \in 1 .. lastId :
        \/ replies[r] > 0
        \/ r \in formatting
        \/ \E i \in 1 .. Len(Stream) : IsRequest(Stream[i]) /\ Stream[i].id = r

NotYetSent == \A r \in Request : r > lastId => Untouched(r)

\* What a formatting thread is to answer has no answer yet.
Formatting == \A r \in formatting : replies[r] = 0

\* A message is stamped with the notifications before it: those applied, and
\* those ahead of it in the stream.
After(message) == IF message.kind = "note" THEN message.at + 1 ELSE message.at

Stamped ==
    /\ Stream = <<>> => notes = applied
    /\ Stream # <<>> => Stream[1].at = applied /\ notes = After(Stream[Len(Stream)])
    /\ \A i \in 2 .. Len(Stream) : Stream[i].at = After(Stream[i - 1])

\* While a pass listens to the client nothing waits in the queue.
NothingAhead == pc = "infer" /\ "client" \in listening => queue = <<>>

\* Whichever thread takes a message, it takes the first one the server has not
\* handled: so requests are met in the order and the state they were sent in.
ServeInv ==
    /\ AnsweredOnce
    /\ SeesWhatPrecedes
    /\ Coming
    /\ NoneLost
    /\ NotYetSent
    /\ Formatting
    /\ Stamped
    /\ NothingAhead
=============================================================================
