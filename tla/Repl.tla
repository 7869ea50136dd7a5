---------------------------------- MODULE Repl ----------------------------------
(* Evaluations in the REPL of a project: the kernels that send the requests of *)
(* their editors, the server (netrepl, with what eval.janet adds to it) that   *)
(* evaluates them in one environment, and the language server, which looks up  *)
(* names over a connection of its own.                                         *)
(*                                                                             *)
(* A connection carries frames one after the other, and nothing in a frame     *)
(* says which request it is about: that is a matter of counting.               *)
EXTENDS Integers, Sequences, FiniteSets, SequencesExt, ReplKernels

CONSTANTS
    MaxRequests,    \* bound: requests of an editor, by its kernel
    MaxPrints,      \* bound: lines an evaluation prints, by its kernel
    MaxAsks,        \* bound: lines an evaluation asks for
    MaxLookups      \* bound: lookups of the language server

ASSUME ReplAssumption ==
    /\ None \notin Kernel
    /\ MaxRequests \in [Kernel -> Nat] /\ MaxPrints \in [Kernel -> Nat]
    /\ MaxAsks \in Nat /\ MaxLookups \in Nat

VARIABLES
    phase,          \* what the kernel does: "idle", "waiting", or "asking" its editor
    request,        \* the request it serves, or served last; they are numbered
    prompts,        \* the last request whose prompt the editor shows, or 0
    lines,          \* lines the editor sent for a prompt: the request it showed then
    up, down,       \* frames on the way to the server, and back
    task,           \* what the server does for the connection
    output,         \* what the evaluation has printed and not sent: <<request, number>>
    streaming,      \* whether the evaluation streams its output
    lock,           \* who holds the lock on the stream: "flusher", "prompt" or "nobody"
    flushing,       \* what the flusher is writing
    evaluating,     \* the slots of the environment: whose evaluation an interrupt
    input,          \*   cancels, and whose connection getline asks
    shown,          \* history: for every request, what the editor was shown under it
    taken,          \* history: the request the last reply was to, the request it was taken for
    given,          \* history: the last line an evaluation got: for whose prompt, to whom
    interrupted,    \* history: the last request of the kernel there was when it was
                    \*   interrupted, or 0
    lookup          \* the connection of the language server and its lookups

kernels == <<phase, request>>
editors == <<prompts, lines>>
serving == <<task, output, streaming, lock, flushing, evaluating, input>>
pipes   == <<up, down>>
history == <<shown, taken, given, interrupted>>
vars    == <<kernels, editors, serving, pipes, history, lookup>>

Requests(k) == 1..MaxRequests[k]

Frame(kind, r, text) == [kind |-> kind, request |-> r, text |-> text]

Send(k, frame) == up' = [up EXCEPT ![k] = Append(@, frame)]

Take(k) == down' = [down EXCEPT ![k] = Tail(@)]

Arrives(k, kind) == down[k] # <<>> /\ Head(down[k]).kind = kind

-----------------------------------------------------------------------------
(* The kernel. *)

\* An execute request, or one for completions, docs or the parser's verdict. An
\* editor sends the next one when it likes; the kernel reads it when it is idle.
Begin(k, kind) ==
    /\ phase[k] = "idle"
    /\ request[k] < MaxRequests[k]
    /\ request' = [request EXCEPT ![k] = @ + 1]
    /\ phase' = [phase EXCEPT ![k] = "waiting"]
    /\ Send(k, Frame(kind, request'[k], <<>>))
    /\ UNCHANGED <<editors, serving, down, history, lookup>>

\* Output goes to the editor, under the request.
TakeOutput(k) ==
    /\ phase[k] # "idle"
    /\ Arrives(k, "output")
    /\ Take(k)
    /\ shown' = [shown EXCEPT ![k][request[k]] = @ \o Head(down[k]).text]
    /\ phase' = [phase EXCEPT ![k] = "waiting"]
    /\ UNCHANGED <<request, editors, serving, up, taken, given, interrupted, lookup>>

\* A prompt goes to the editor, and the kernel waits for its line...
TakePrompt(k) ==
    /\ phase[k] = "waiting"
    /\ Arrives(k, "prompt")
    /\ Take(k)
    /\ phase' = [phase EXCEPT ![k] = "asking"]
    /\ prompts' = [prompts EXCEPT ![k] = request[k]]
    /\ UNCHANGED <<request, lines, serving, up, history, lookup>>

\* ...or is answered at once when the editor takes no prompts.
AnswerNothing(k) ==
    /\ phase[k] = "waiting"
    /\ Arrives(k, "prompt")
    /\ Take(k)
    /\ Send(k, Frame("line", request[k], <<>>))
    /\ UNCHANGED <<kernels, editors, serving, history, lookup>>

AnswerLineAgain(k) ==
    /\ phase[k] = "asking"
    /\ lines[k] # <<>>
    /\ Send(k, Frame("line", Head(lines[k]), <<>>))
    /\ phase' = [phase EXCEPT ![k] = "waiting"]
    /\ UNCHANGED <<request, editors, serving, down, history, lookup>>

\* The next line of the editor is taken for the answer.
AnswerLine(k) ==
    /\ phase[k] = "asking"
    /\ lines[k] # <<>>
    /\ lines' = [lines EXCEPT ![k] = Tail(@)]
    /\ Send(k, Frame("line", Head(lines[k]), <<>>))
    /\ phase' = [phase EXCEPT ![k] = "waiting"]
    /\ UNCHANGED <<request, prompts, serving, down, history, lookup>>

\* Any frame that is neither output nor a prompt is the reply.
TakeReply(k) ==
    /\ phase[k] # "idle"
    /\ Arrives(k, "reply")
    /\ Take(k)
    /\ LET reply == Head(down[k]) IN
        /\ shown' = [shown EXCEPT ![k][request[k]] = @ \o reply.text]
        /\ taken' = [taken EXCEPT ![k] = [reply |-> reply.request, for |-> request[k]]]
    /\ phase' = [phase EXCEPT ![k] = "idle"]
    /\ UNCHANGED <<request, editors, serving, up, given, interrupted, lookup>>

-----------------------------------------------------------------------------
(* The editor. *)

\* It sends what was typed at its prompt.
Type(k) ==
    /\ prompts[k] # 0
    /\ lines' = [lines EXCEPT ![k] = Append(@, prompts[k])]
    /\ prompts' = [prompts EXCEPT ![k] = 0]
    /\ UNCHANGED <<kernels, serving, pipes, history, lookup>>

-----------------------------------------------------------------------------
(* The server. *)

Reading == [doing |-> "reading", request |-> 0, prints |-> 0, asks |-> 0]

Evaluates(k) == task[k].doing \in {"running", "asking"}

\* What is evaluated begins: what it prints streams, and the slots are its own.
Evaluate(k) ==
    /\ task[k].doing = "reading"
    /\ up[k] # <<>> /\ Head(up[k]).kind = "eval"
    /\ up' = [up EXCEPT ![k] = Tail(@)]
    /\ task' = [task EXCEPT ![k] = [Reading EXCEPT !.doing = "running", !.request = Head(up[k]).request]]
    /\ streaming' = [streaming EXCEPT ![k] = TRUE]
    /\ evaluating' = k
    /\ input' = k
    /\ UNCHANGED <<kernels, editors, output, lock, flushing, down, history, lookup>>

\* Other forms are evaluated and answered by netrepl itself.
Call(k) ==
    /\ task[k].doing = "reading"
    /\ up[k] # <<>> /\ Head(up[k]).kind = "call"
    /\ up' = [up EXCEPT ![k] = Tail(@)]
    /\ down' = [down EXCEPT ![k] = Append(@, Frame("reply", Head(up[k]).request, <<>>))]
    /\ UNCHANGED <<kernels, editors, serving, history, lookup>>

\* A line nobody asked for is code typed at the prompt: it is evaluated, and
\* the prompt is sent again.
Typed(k) ==
    /\ task[k].doing = "reading"
    /\ up[k] # <<>> /\ Head(up[k]).kind = "line"
    /\ up' = [up EXCEPT ![k] = Tail(@)]
    /\ down' = [down EXCEPT ![k] = Append(@, Frame("reply", 0, <<>>))]
    /\ UNCHANGED <<kernels, editors, serving, history, lookup>>

PrintOut(k) ==
    /\ task[k].doing = "running"
    /\ task[k].prints < MaxPrints[k]
    /\ task' = [task EXCEPT ![k].prints = @ + 1]
    /\ output' = [output EXCEPT ![k] = Append(@, <<task[k].request, task'[k].prints>>)]
    /\ UNCHANGED <<kernels, editors, streaming, lock, flushing, evaluating, input, pipes, history,
                   lookup>>

\* The flusher, every 50 ms: it takes what there is, and writes it.
Flush(k) ==
    /\ lock[k] = "nobody"
    /\ streaming[k] /\ output[k] # <<>>
    /\ lock' = [lock EXCEPT ![k] = "flusher"]
    /\ flushing' = [flushing EXCEPT ![k] = output[k]]
    /\ output' = [output EXCEPT ![k] = <<>>]
    /\ UNCHANGED <<kernels, editors, task, streaming, evaluating, input, pipes, history, lookup>>

FlushedUnmarked(k) ==
    /\ flushing[k] # <<>>
    /\ down' = [down EXCEPT ![k] = Append(@, Frame("reply", 0, flushing[k]))]
    /\ flushing' = [flushing EXCEPT ![k] = <<>>]
    /\ lock' = [lock EXCEPT ![k] = "nobody"]
    /\ UNCHANGED <<kernels, editors, task, output, streaming, evaluating, input, up, history, lookup>>

Flushed(k) ==
    /\ flushing[k] # <<>>
    /\ down' = [down EXCEPT ![k] = Append(@, Frame("output", 0, flushing[k]))]
    /\ flushing' = [flushing EXCEPT ![k] = <<>>]
    /\ lock' = [lock EXCEPT ![k] = "nobody"]
    /\ UNCHANGED <<kernels, editors, task, output, streaming, evaluating, input, up, history, lookup>>

\* What was printed so far, as a frame when there is any.
Pending(k) == IF output[k] = <<>> THEN <<>> ELSE <<Frame("output", 0, output[k])>>

\* getline asks over the connection in the slot.
Ask(k) ==
    /\ task[k].doing = "running"
    /\ task[k].asks < MaxAsks
    /\ input = k
    /\ lock[k] = "nobody"
    /\ down' = [down EXCEPT ![k] = @ \o Pending(k) \o <<Frame("prompt", task[k].request, <<>>)>>]
    /\ output' = [output EXCEPT ![k] = <<>>]
    /\ lock' = [lock EXCEPT ![k] = "prompt"]
    /\ task' = [task EXCEPT ![k].doing = "asking", ![k].asks = @ + 1]
    /\ UNCHANGED <<kernels, editors, streaming, flushing, evaluating, input, up, history, lookup>>

\* With nobody in the slot the input ends.
AskNobody(k) ==
    /\ task[k].doing = "running"
    /\ task[k].asks < MaxAsks
    /\ input = None
    /\ task' = [task EXCEPT ![k].asks = @ + 1]
    /\ given' = [given EXCEPT ![k] = [prompt |-> 0, to |-> task[k].request]]
    /\ UNCHANGED <<kernels, editors, output, streaming, lock, flushing, evaluating, input, pipes,
                   shown, taken, interrupted, lookup>>

\* The next frame is the line.
GetLine(k) ==
    /\ task[k].doing = "asking"
    /\ up[k] # <<>>
    /\ up' = [up EXCEPT ![k] = Tail(@)]
    /\ given' = [given EXCEPT ![k] = [prompt |-> Head(up[k]).request, to |-> task[k].request]]
    /\ task' = [task EXCEPT ![k].doing = "running"]
    /\ lock' = [lock EXCEPT ![k] = "nobody"]
    /\ UNCHANGED <<kernels, editors, output, streaming, flushing, evaluating, input, down, shown,
                   taken, interrupted, lookup>>

LeavesLocked(k) ==
    /\ task' = [task EXCEPT ![k].doing = "ending"]
    /\ evaluating' = None
    /\ input' = None
    /\ UNCHANGED lock

\* An evaluation is over, by itself or cancelled: it leaves the slots.
Leaves(k) ==
    /\ task' = [task EXCEPT ![k].doing = "ending"]
    /\ evaluating' = None
    /\ input' = None
    /\ lock' = [lock EXCEPT ![k] = IF @ = "prompt" THEN "nobody" ELSE @]

End(k) ==
    /\ task[k].doing = "running"
    /\ Leaves(k)
    /\ UNCHANGED <<kernels, editors, output, streaming, flushing, pipes, history, lookup>>

ReplyUnlocked(k) ==
    /\ task[k].doing = "ending"
    /\ streaming' = [streaming EXCEPT ![k] = FALSE]
    /\ down' = [down EXCEPT ![k] = Append(@, Frame("reply", task[k].request, output[k]))]
    /\ output' = [output EXCEPT ![k] = <<>>]
    /\ task' = [task EXCEPT ![k] = Reading]
    /\ UNCHANGED <<kernels, editors, lock, flushing, evaluating, input, up, history, lookup>>

\* Nothing streams from here on: what is left goes with the reply.
Reply(k) ==
    /\ task[k].doing = "ending"
    /\ lock[k] = "nobody"
    /\ streaming' = [streaming EXCEPT ![k] = FALSE]
    /\ down' = [down EXCEPT ![k] = Append(@, Frame("reply", task[k].request, output[k]))]
    /\ output' = [output EXCEPT ![k] = <<>>]
    /\ task' = [task EXCEPT ![k] = Reading]
    /\ UNCHANGED <<kernels, editors, lock, flushing, evaluating, input, up, history, lookup>>

\* The kernel's other task has SIGINT sent to the server that the kernel connected
\* to last, whatever the kernel does, and the server cancels the evaluation in the
\* slot, whichever kernel's it is.  Before the first connection there is nothing to
\* send it to, and one sent to a server that is gone changes nothing.  Bound: a
\* kernel is interrupted once for every request, while it serves it or after.
Interrupt(k) ==
    /\ request[k] # 0 /\ interrupted[k] # request[k]
    /\ interrupted' = [interrupted EXCEPT ![k] = request[k]]
    /\ IF evaluating = None
       THEN UNCHANGED <<task, evaluating, input, lock>>
       ELSE Leaves(evaluating)
    /\ UNCHANGED <<kernels, editors, output, streaming, flushing, pipes, shown, taken, given, lookup>>

-----------------------------------------------------------------------------
(* The language server: State::repl_lookup.                                    *)

NoLookup == [number |-> 0, waiting |-> FALSE, up |-> <<>>, down |-> <<>>, taken |-> 0]

\* Over the connection there is, or a new one.
LookUp ==
    /\ ~lookup.waiting /\ lookup.number < MaxLookups
    /\ lookup' = [lookup EXCEPT !.number = @ + 1, !.waiting = TRUE,
                                !.up = Append(@, lookup.number + 1)]
    /\ UNCHANGED <<kernels, editors, serving, pipes, history>>

AnswerLookUp ==
    /\ lookup.up # <<>>
    /\ lookup' = [lookup EXCEPT !.up = Tail(@), !.down = Append(@, Head(lookup.up))]
    /\ UNCHANGED <<kernels, editors, serving, pipes, history>>

TakeLookUp ==
    /\ lookup.waiting /\ lookup.down # <<>>
    /\ lookup' = [lookup EXCEPT !.down = Tail(@), !.waiting = FALSE, !.taken = Head(lookup.down)]
    /\ UNCHANGED <<kernels, editors, serving, pipes, history>>

TimeOutKeeping ==
    /\ lookup.waiting
    /\ lookup' = [lookup EXCEPT !.waiting = FALSE, !.taken = @ + 1]
    /\ UNCHANGED <<kernels, editors, serving, pipes, history>>

\* The server is busy for longer than the lookup waits: the connection goes.
TimeOut ==
    /\ lookup.waiting
    /\ lookup' = [NoLookup EXCEPT !.number = lookup.number, !.taken = lookup.number]
    /\ UNCHANGED <<kernels, editors, serving, pipes, history>>

-----------------------------------------------------------------------------

Init ==
    /\ phase = [k \in Kernel |-> "idle"]
    /\ request = [k \in Kernel |-> 0]
    /\ prompts = [k \in Kernel |-> 0]
    /\ lines = [k \in Kernel |-> <<>>]
    /\ up = [k \in Kernel |-> <<>>] /\ down = [k \in Kernel |-> <<>>]
    /\ task = [k \in Kernel |-> Reading]
    /\ output = [k \in Kernel |-> <<>>]
    /\ streaming = [k \in Kernel |-> FALSE]
    /\ lock = [k \in Kernel |-> "nobody"]
    /\ flushing = [k \in Kernel |-> <<>>]
    /\ evaluating = None /\ input = None
    /\ shown = [k \in Kernel |-> [r \in Requests(k) |-> <<>>]]
    /\ taken = [k \in Kernel |-> [reply |-> 0, for |-> 0]]
    /\ given = [k \in Kernel |-> [prompt |-> 0, to |-> 0]]
    /\ interrupted = [k \in Kernel |-> 0]
    /\ lookup = NoLookup

Kernels(k) ==
    \/ Begin(k, "eval") \/ Begin(k, "call")
    \/ TakeOutput(k) \/ TakePrompt(k) \/ AnswerNothing(k) \/ AnswerLine(k) \/ TakeReply(k)

Serves(k) ==
    \/ Evaluate(k) \/ Call(k) \/ Typed(k) \/ PrintOut(k) \/ Flush(k) \/ Flushed(k)
    \/ Ask(k) \/ AskNobody(k) \/ GetLine(k) \/ End(k) \/ Reply(k)

LooksUp == LookUp \/ AnswerLookUp \/ TakeLookUp \/ TimeOut

Next ==
    \/ \E k \in Kernel : Kernels(k) \/ Type(k) \/ Serves(k) \/ Interrupt(k)
    \/ LooksUp

Spec == Init /\ [][Next]_vars

\* The kernel reads what it is sent, and the server goes on with what is over.
Fairness ==
    \A k \in Kernel :
        /\ WF_vars(TakeOutput(k)) /\ WF_vars(TakePrompt(k) \/ AnswerNothing(k)) /\ WF_vars(TakeReply(k))
        /\ WF_vars(Flushed(k)) /\ WF_vars(Reply(k))
        /\ WF_vars(Evaluate(k)) /\ WF_vars(Call(k)) /\ WF_vars(Typed(k))

FairSpec == Spec /\ Fairness

\* An editor types only at the prompt of an evaluation that waits for the line, and
\* an evaluation that waits is cancelled only while its editor shows the prompt and
\* has sent nothing.
Patient(k) ==
    /\ Len(lines'[k]) > Len(lines[k]) =>
        phase[k] = "asking" /\ prompts[k] = request[k] /\ task[k].doing = "asking"
    /\ task[k].doing = "asking" /\ task'[k].doing = "ending" => phase[k] = "asking" /\ lines[k] = <<>>

\* No other kernel has taken or emptied the slot of an evaluation that asks.
Undisturbed(k) == task'[k].asks > task[k].asks => input = k

-----------------------------------------------------------------------------
(* What is to hold. *)

Prints(k) == Seq(Requests(k) \X (1..MaxPrints[k]))

\* The types of the connections, their frames and tasks; who waits for a line
\* holds the lock, and nothing is being written while nobody does.
TypeOK ==
    /\ phase \in [Kernel -> {"idle", "waiting", "asking"}]
    /\ evaluating \in Kernel \cup {None} /\ input \in Kernel \cup {None}
    /\ \A k \in Kernel :
        /\ {request[k], prompts[k], interrupted[k]} \subseteq 0..MaxRequests[k]
        /\ lines[k] \in Seq(Requests(k))
        /\ output[k] \in Prints(k) /\ flushing[k] \in Prints(k)
        /\ task[k].doing \in {"reading", "running", "asking", "ending"}
        /\ lock[k] = "flusher" <=> flushing[k] # <<>>
        /\ lock[k] = "prompt" <=> task[k].doing = "asking"
        /\ task[k].doing = "reading" => output[k] = <<>> /\ ~streaming[k]
        /\ Len(up[k]) <= 1

\* The reply a request is answered with is the reply to it.
RepliesMatch == \A k \in Kernel : taken[k].reply = taken[k].for

\* What an evaluation prints is shown under its own request, in order, and all
\* of it by the time the request is answered, whether it was streamed, sent
\* ahead of a prompt or left for the reply.
OutputInOrder ==
    \A k \in Kernel : \A r \in Requests(k) :
        /\ shown[k][r] = [i \in DOMAIN shown[k][r] |-> <<r, i>>]
        /\ task[k].request = r => Len(shown[k][r]) <= task[k].prints
        /\ phase[k] = "idle" => output[k] = <<>> /\ flushing[k] = <<>>

\* The line an evaluation gets was typed at a prompt of its own.
LinesMatch == \A k \in Kernel : given[k].prompt = given[k].to

\* An interrupt cancels the evaluation that the kernel it is sent to has in progress.
InterruptsOwn ==
    [][\A k \in Kernel :
        interrupted'[k] # interrupted[k] /\ Evaluates(k) => task'[k].doing = "ending"]_vars

\* An evaluation that is interrupted while it runs or waits is answered, whatever
\* it is doing, and whether or not its prompt is.
InterruptEnds ==
    \A k \in Kernel : task[k].doing = "ending" ~> phase[k] = "idle"

\* What a lookup answers is the answer to it, whatever timed out before.
LookupsMatch == ~lookup.waiting => lookup.taken = lookup.number

\* Replies, lines and what is looked up go to whom they are for.
RightAnswers == RepliesMatch /\ LinesMatch /\ LookupsMatch
=============================================================================
