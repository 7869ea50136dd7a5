# A TLA+ model of the Janet language server

`bondiano/janet-zed` is a Zed extension for the Janet language: a wasm extension (`src/lib.rs`)
that installs and starts a server, a library and command line checker (`janet-check`), and a
server (`janet-lsp-plus`) that is a language server, a Jupyter kernel and a debug adapter in one
binary. Paths below are relative to the repository.

This directory models two kinds of things. First, the parts whose correctness depends on the order
things happen in: threads, channels, messages, processes, files and caches. Second, the algorithms
whose answers have a meaning outside the code: the types stand for values, a name refers to a
binding, an import to a file. TLC checks small instances of both; TLAPS proves the safety of the
message loop, the checking thread, the types cache, the server's marks, the worker, the record, the
REPL, the debug session and the extension for every value of the constants.

    tlc -workers 2 -config MCServe.cfg MCServe.tla      # and the other MC*.cfg
    tlapm ServeProofs.tla                               # and the other *Proofs.tla

## The system

| part | source | state | operations | talks to |
|---|---|---|---|---|
| message loop | `janet-lsp-plus/src/lsp/mod.rs` | `queue`, `project_stale`, where it stands | serve a request, refuse a cancelled one, apply a notification, publish a check, publish the project, shut down | client, server state, checking thread, inference and formatting threads |
| server state | `lsp/state.rs` | open buffers and versions, the marks kept for them, what Janet compiled, what is to be retyped, what was published for closed files | open, change, close, changed on disk, configure, rescan | workspace |
| checking thread | `lsp/diagnostics.rs` | the batch being gathered or checked | coalesce, check, report | message loop by two channels, worker |
| workspace and types cache | `janet-check/src/analysis/workspace.rs` | files, imports and importers, cached facts, names macros bind | insert, remove, refresh, expand, facts, infer_until | read by requests and by the inference thread at once |
| worker | `janet-check/src/janet/mod.rs`, `check.janet` | the `janet` process, its module cache and fingerprints, checks that hung | check, time out, restart, reload what changed | the disk |
| REPL kernel | `janet-lsp-plus/src/kernel/mod.rs`, `eval.janet` | execution count, the REPL connection, the server's process | execute, interrupt, restart, complete | Jupyter client, netrepl server |
| netrepl | `kernel/netrepl.rs`, `lookup.rs` | the recorded port, token and pid of a project's REPL | start, record, attach, look up | other kernels, the language server, the debugger |
| debug adapter | `janet-lsp-plus/src/dap/mod.rs`, `driver.janet` | the session, the debuggee, breakpoints | launch, attach, step, evaluate, end | editor, driver process |
| Zed extension | `src/lib.rs` | the working directory, the path of the last server | find, download, clean up | GitHub, the editor |
| type algebra and inference | `analysis/types*` | none | unions, fits, narrowing, unification, a walk over each file | workspace |
| names, lints, requests, editing | `analysis/*.rs`, `lsp/handlers.rs`, `lsp/imports.rs`, `editing/*.rs` | none | functions of the syntax trees | message loop |
| command line | `janet-check/src/main.rs` | none | one pass | workspace, worker |

What is hard here, and so what the properties are about:

- The loop answers requests while another thread infers types, and queues everything else. An
  answer must still reflect exactly the edits made before the question.
- A check takes seconds. What comes back may be about a buffer that was edited, closed or reopened
  meanwhile, and carries facts (names macros bind) that are about other files too.
- Four things are shown together (what Janet found, what the types find, in buffers, in closed
  files), each recomputed at its own time from its own texts: Janet loads imports from disk, the
  types read them from buffers.
- Passes over the project are stopped by any message and must be begun again, but not for ever.
- `janet` keeps modules loaded between checks and must notice which files changed, by fingerprints,
  through importers; it may hang or die at any point of that.
- A frame from the REPL does not say what it answers. Kernels, the language server and the user's
  own programs share one server, which they find by two files written one after the other.
- In a debug session three processes speak at once: requests, the lines of the driver, the fibers
  of the debugged program and its exit come in the order of each sender and of no other.
- Types report only what cannot be otherwise. One wrong "No", one value on the wrong side of a
  test, and a correct program is marked.
- Renames and moves rewrite files the user does not look at.

## The modules

### The server

`Serve.tla` is `serve`, `answer`, `infer_answering` and `format_in_background` with the client on
the other end. The connection is `inbox` (sent, not received) and `queue`; the main thread's place
is `pc`, the inference thread's `walk`. Each arm of the loop's `match` and of the `Select` is an
action. What a notification changes is not looked into: it counts, so an answer's view (`seen`) can
be compared with what the client had said when it asked (`asked`). `left` is how many components of
the import graph have no cached types.

`Checker.tla` is the checking thread: `TakeFirst` (`recv`), `Gather` and `Settle` (`coalesce`) and
`CheckOne`. `CheckService.tla` says what such a thread promises; `Checker` implements it with
`owed` as the jobs of a buffer in the order they will be answered.

`LanguageServer.tla` composes both by `INSTANCE` with the server's `State`, the editor and the
disk. `SyncText`, `SyncClose`, `SyncDisk` and `SyncSettings` are the notifications; `Publish` is a
check coming back, `EndPass` and `PublishUninferred` the end of `publish_project`. A text stands
for itself, and anything computed is the record of the texts (and names, and mode) it was computed
from, so "up to date" is an equation. The import graph is fixed (a constant) and the types cache
is not looked into: both are `Workspace`'s.

`Workspace.tla` is the index. `files`, `external` and `exported` are the three maps of the same
names, `imports` the graph (`importers`, which the code keeps beside it, is its inverse),
`reported` what checks saw macros bind, `types` the cached facts and `ambient` the declarations in
scope, kept once asked for. `Change` is `insert` and `remove` of the files of one event followed by
`refresh`, as every caller does it; `Report`, `SetMode` and `SetConfig` are the other `&mut self`
methods. They run only when nothing borrows the index (`Idle`): that is Rust's rule, and the
reason a fact can never be stored under a state it was not read from. `BeginPass` to `EndPass` are
`infer_until`, with its threads (`pass.working`) and its stopping; `Ask` and `InferAsked` a `facts`
of the main thread, during a pass or not. A fact is the record of everything inference read to
find it: the file, its edges, the names reported, the mode, the declarations, and the same of every
file reached by imports. So `CacheFresh` says that reading everything again gives the same record.
A component of files that import each other is inferred in one step (the code walks it twice and
keeps the second walk), and the declarations are a set of files, without the order in which one
shadows another.

`ImportOrder.tla` is Tarjan's walk over the imports and the layers its components are cut into,
which `Workspace` takes as given (`Components`, `Depth`): operators only, compared with their
definitions on every graph of three files, reached by writing imports one at a time (`Edit`). It is
recursive, so it is kept out of the proofs: they know of the layers only how `Depth` orders them.

### Processes

`Worker.tla` is the `janet` that checks buffers. On the Rust side `Ask`, `Receive`, `TimeOut` and `Fail`
are the arms of `exchange` and `check`, with `hung`, the last check that did not finish and what it read
as far as that can be told after the timeout. A reply may be an error, which fails the check and keeps
the process. On Janet's side the script is a loader with a stack (`run`): it begins the program and the
buffer, reads a module, notes its importer, and takes the fingerprints of what was loaded when the
request is done. The disk changes under it at any moment, second by second (a fingerprint is a size and
a time in seconds). What a module holds is the set of file and text pairs it was loaded from, so "as it
is on disk" is again an equation (`ReadFromDisk`). `Installed` files are found on the syspath or by a
custom loader: Janet loads them like any other, but `inputs` does not resolve them, and neither does
`Inputs`. Five variables are history: `since` is what each file said while a check ran, `began` and
`gaveUp` the disk when the check that hung was sent and when it was given up, `missed` what was loaded
that no fingerprint tells from what is there, `lost` the files whose names went with an error.

`Record.tla` is how clients find the server of a project: `netrepl.rs` reads the port and the token,
connects, is refused or let in, starts a server and records it. Servers, kernels and readers crash
in between. `Repl.tla` is what is done over the connections: evaluations with their output, prompts
and interrupts, requests counted against frames, and lookups of the language server with their
timeouts. `Interrupt` comes from any kernel at any moment, idle or not (once for each request it
has made: a bound), and cancels whichever evaluation is in the slot of the server, as the signal does.
`Evaluate` takes that slot and the one of `getline`.

`Debug.tla` is a debug session: the editor, the adapter (`dap/mod.rs`) and the driver with the fibers
of the program (`driver.janet`). The adapter's inputs are three queues, of requests, of the driver's
lines and of the exit. A stop has a number, and a request says which stop the editor had been shown.
Of the fibers that run, one may be computing (`computing`), when nothing else of the program runs; when
none is, the program is at its event loop, where the driver reads and serves and fibers wait or take
their next turn. Tasks may go on when the file of the program has run, although a launched program's
driver has closed its connection by then (`EndMain`). The adapter may be killed at any moment
without a word to the driver (`AdapterDies`).

`Install.tla` is the directory the extension keeps: a server of its own release, sources of Janet,
what earlier versions left. A call is cut where the extension may be stopped.

### Algorithms

These are operators, checked against what they mean on chosen inputs:

| module | code | against |
|---|---|---|
| `Types` | unions (`types/infer/unions.rs`), substitution and named types (`types.rs`) | `Member`: which values a type stands for |
| `Fit` | `types/fit.rs`, `bind` of `types.rs` | a No means that no value of the one is one of the other |
| `Narrow` | `types/narrow.rs` | a value is on the side its test puts it on |
| `Facts` | `narrow` and `restore` of `types/infer/narrowing.rs` | (used by `Walk`) |
| `Walk` | `types/infer/narrowing.rs`, `control.rs` | the values a local can have at each form of a function when it runs (`reach`) |
| `Narrowing` | `tested`, `set` and `default` of `types/infer/`: what they say of the types | what `Walk` takes from them (`TypesSound`) |
| `Unify` | `types/infer/unify.rs`, `calls.rs` | every call made so far still stands with what is known now |
| `Scopes` | `scopes.rs` | (read by `References`) |
| `References` | `modules.rs` (imports), `definitions.rs`, `references.rs`, the rename of `handlers.rs` | a rename that is not refused changes what no name refers to |
| `Imports` | `Search` of `modules.rs`, `lsp/imports.rs` | a written import leads to the file it led to before the move |

`Imports` searches several roots in order and knows directories with a project of their own; a spec says
whether it is at the top of its file, where alone imports are written again. In `References` a quoted
symbol is renamed with the definition it is spelled as, which is what the code does, and is data to what
the names refer to.

`Walk` and `Unify` have state: the one walks a function whose forms are chosen as it goes, the
other makes one call after the other. `Walk` has the types as CONSTANTS (`TestSides`, `Widen`,
`Supplied`, `IsOf`, `Passes`), which the configurations give the operators of `Narrowing`.
`MCReferences.tla` holds the workspaces `References` is checked on, and `MCAlgorithms.tla` all the
inputs.

`ServeProofs`, `CheckerProofs`, `WorkspaceProofs`, `LanguageServerProofs`, `WorkerProofs`, `ReplProofs`
(of `Record`, too) and `DebugProofs` hold the theorems about the module they are named after, and
`AlgorithmProofs` those about `Walk`, `Imports` and `Install`. The other `MC` modules give the
constants values. `MCServe`, `MCRepl` and `MCAlgorithms` put parts side by side: a behaviour is of one
part, named by `part`, and the variables of the others keep still.

## What the runs show

| run | shows | bounds |
|---|---|---|
| `serve` | message loop: `AnsweredOnce`, `SeesWhatPrecedes`, `InOrder`, and with fairness `Answered` (`RequestsAnswered`, `Heard`, `ShutdownStops`); checking thread: `Promised`, the refinement of `CheckService` with its fairness | 2 requests, 1 notification, 2 messages on their way, 1 check, 1 component; 2 buffers, 2 versions, 3 jobs and results |
| `serve_gone` | `GoneStops` fails, see below | 1 request, 1 notification |
| `language_server` | `NoGhosts` (`ClosedBare`, `KeptIsShown`), `CheckedText` always; `SettledBuffers` (what Janet found and what the types find) and `SettledProject` (closed files, the index, opened files) whenever nothing is under way | 2 files, 2 texts, 3 versions; scenarios of notifications: typing 4, saving 3, configuring 3, unwatched 2, anything 1 |
| `settles` | `Settles`: the server comes to rest | 3 notifications |
| `names` | `SettledNames` fails, see below | 4 notifications |
| `workspace` | `CacheFresh`, `GraphCurrent`, `DependenciesFirst`, `PassReaches`; of `ImportOrder`, `WalksInOrder` | 2 modules, 1 dependency, 1 declaration file, 1 project, 1 file in an event; every graph of 3 files; four scenarios |
| `worker` | `CheckedFromDisk` (`ReadFromDisk`, `AnswersMatch`, `NamesKnown`), `RefusedUnchanged` | a leaf, a branch that imports it and is installed, a program file that may import it; 1 buffer, 3 settings, 2 writes at any moment, 2 ticks of the clock, 1 exit or reply that is an error |
| `repl` | finding the server: `OwnServer` (`OwnProject`, `PairsRead`, `Shared`); using it: `RightAnswers` (`RepliesMatch`, `LinesMatch`, `LookupsMatch`), `OutputInOrder`, with fairness `InterruptEnds` | 2 kernels and the language server; 2 servers, 2 crashes, 2 ports, a stranger's netrepl; evaluations: 2 and 1 requests printing 2 and 1 times, 1 question, 2 lookups |
| `debug` | `AnsweredOnce`, `InStep` (`AboutTheStop`, `StoppedTruly`, `ThreadsListed`, `BreakpointsTold`), `BreakpointsFirst`, with fairness `AllAnswered` (`RequestsAnswered`, `GoesOn`) | a program and a task, 2 stops, 3 requests, and a fourth in a launched session that has breakpoints (`LastConfigured`) |
| `algorithms` | `UnionSound`, `FitSound`, `NarrowSound`, `LocalsHold`, `CallsKept`, `RenamesKept`, `MovesKept`, and of the extension `Kept` | unions of 3, types followed 6 deep (inference 8), 2 calls, 2 tests nested; files of two forms, workspaces of 3 modules, 2 or 3 files moved; 2 versions |
| `rename` | `RenamesKept` fails where imports are limited, see below | the same workspaces, `Limited = TRUE` |
| `install` | `ServerThere` fails, see below | 2 versions |

Why these bounds are enough:

- Two requests are enough for one to overtake the other, one notification for an answer to miss it,
  one component for a pass to be stopped before or in the middle of it.
- Two files are enough for one to depend on the other; an importer of an importer behaves as an
  importer (`Reads` is already the transitive relation, as `open_importers` walks it). Two texts
  tell current from stale. Three versions and four notifications allow edit, close, reopen and edit
  with checks of all of them on their way.
- In the index two modules import each other, include each other or import the dependency, the
  project provides a module under the dependency's name, and the declaration is on disk, exported
  and opened: every kind of edge and every place a file can be in. A chain of three (module,
  module, dependency) is the longest an invalidation has to follow there; a graph of three files is
  the smallest with a component inside and outside a cycle in either order.
- The worker's buffer imports the branch and the branch the leaf, so a module is loaded through
  another that `inputs` does not follow, by a program file, or for one and then found by the other. Two writes and two ticks put two writes
  into one second or apart, before, during and after a check; one failure is a process that exits by
  itself or a reply that is an error, besides the kills after timeouts, of which there is no bound.
- Two kernels are the fewest that can share a server or fight over it; with two crashes either the
  server or who uses it can go, and come back. Two lookups are needed for one to be given the
  answer of another that timed out.
- Two stops are needed for a request about one to arrive at the next; four requests allow
  breakpoints, a start, an evaluation or a resume, and an end. One task is enough for a program
  and a task to be stopped at once.
- The types are one of each kind: atoms, a literal, an enum, forms by key and by position,
  functions, named types with and without parameters and recursive, nullable, open and guessed
  unions, and unions of forms told apart by a tag. The values are chosen to tell them apart
  (`Data`, `Calls`). Names and files are two or three, so that any two can be the same or differ.

Each scenario of `MCWorkspace.tla` changes only some of the files (`Touched`), and passes over
chosen files begin in `passes` only. In the scenario `saving` of `MCLanguageServer.tla` a file that
is created is not deleted before the server has heard of it (if it is, no importer is checked
again: `State::changed` asks the import graph before and after, and neither knows the file); checks
succeed and types stay cached except in `whole`, where anything may happen for one notification.

### What the runs leave out, by name

Some behaviours of the code break a property; the passing runs exclude them by a constant, so that
the property is still checked on everything else. Setting the constant the other way shows them.
Where a theorem needs the same, the component's module says what is excluded as a formula about
steps or constants, and the theorem has it as a hypothesis: `FreshVersions`, `CoreApart`, `HeardFirst`
and `Unscanned` (`LanguageServer`; the last two are what `CarefulSpec` adds), `Unusurped` (`Record`),
`Patient` and `Undisturbed` (`Repl`), `Uncancelled` (`Debug`), `OneProject` and `Apart` (of imports).
Each restricts what users, editors, other kernels or other programs do, as the table says.

| constant | of | what it excludes | what it would break |
|---|---|---|---|
| `FreshVersions = TRUE` | `MCLanguageServer` | an editor that counts versions from the same number at each opening | `CheckedText`: the problems of the text that was closed are shown until the next check |
| `CoreSource = {}` | `LanguageServer` | a file of Janet's own sources is opened | `SettledProject`: it keeps the marks it had as a project file, since `State::job` makes no check of it |
| `Racing = FALSE` | `MCRepl` | `Patient`: a line is typed at a prompt whose evaluation no longer waits for it, or is typed or on its way when that evaluation is cancelled (the empty line that is sent where no input is allowed is such a line, too, and so is a prompt the kernel has not taken yet) | `RightAnswers`: the line is read as code and every reply after it is off by one (`netrepl.rs:139`) |
| `Sharing = FALSE` | `MCRepl` | an evaluation asks for a line when another kernel's has the slot of `getline` | `LinesMatch`, told below |
| `Usurping = FALSE` | `MCRepl` | another netrepl takes the port picked for a server that is starting | `OwnServer`, told below |
| `Cancelling = FALSE` | `MCDebug` | a fiber is cancelled while its stop is served | `InStep`: the stop is never taken back |
| `Overwriting = FALSE` | `Walk` | the branch that goes on, after an `if` whose other branch ends, assigns what was tested | `LocalsHold`: `branches` puts the facts of the test back over the assignment |
| `Limited = FALSE` | `MCReferences` | imports under a prefix limited to some names | `RenamesKept`, see `rename` |
| `Single = TRUE` | `MCAlgorithms` | several roots, or a project inside another | `MovesKept`, told below |

Four exclusions are in a property itself, where it would say more than the code can keep:

- `ReadFromDisk` and `NamesKnown` except `missed` and `lost` (`Worker`). `missed` is exactly: a module
  written after it was loaded and before its fingerprint is taken; a file of the program written while
  the program loads; and what a file of the program imports. `lost` are files whose names went with a
  reply that was an error. Each is forgotten when the text is loaded anew. What it breaks without them:
  `AllFromDisk`.
- `RefusedUnchanged` looks from where the check was given up, and along the imports that resolve without
  Janet. From where it was sent it fails (`RefusedOverSame`). Of an installed module nothing is promised:
  a check that hung in one is refused after the module was mended, until something else changes,
  although `janet/mod.rs:156` speaks of unchanged files.
- `PairsRead` and `Shared` except projects two of whose kernels have been starting servers at once
  (`together` of `Record`): there `RecordPaired` fails.
- `MovesKept` is of imports that are `Rewritable`: at the top of their file, and not of an `init.janet`
  written with its extension (`./x/init.janet`). What they would break: `FormsFollow` and `InitFollow`.

### Fairness

The threads of the server run (weak fairness on each of their steps), and nothing is asked of the
client or the user. Receiving is strongly fair: `lsp_server`'s reader blocks until a message is
handed over, and `Select` picks at random among ready channels, so a message that is again and
again asked for is taken. For the checking thread, `MAX_DELAY` bounds how long a burst keeps it
gathering, provided jobs are taken off the channel as fast as typing puts them there
(`Checker!FairSpec`). In the REPL each thread, the server and the event loop of Janet run (weak
fairness); nobody has to type, and an evaluation need not end by itself: `InterruptEnds` says it
does when it is interrupted. In the debugger the adapter's loop is weakly fair, and the driver's
reader and server strongly, because they run only when the program comes around to its event loop
(`Idle`: no fiber is computing; fibers may well be waiting there, or have a turn of their own coming, as
after `(ev/sleep 0)`). `RequestsAnswered` assumes it comes around now and then, and asks nothing where the
adapter is killed: nobody waits for it then (`GoesOn`).

Where a run has parts side by side, each part has the fairness of its own threads and none of the
others': `MCServe` asks fairness of the loop in behaviours of the loop and of the checking thread in
behaviours of that one, so the refinement of `CheckService` is checked over behaviours there are.

### Where the code disagrees with what it says

With a run that shows it:

- `GoneStops`: when the client goes away while a pass is owed, `infer_answering` stops the pass at
  once and `serve` begins it again, without ever reaching the `select!` that would notice.
- `SettledNames`: a check that brings new names bound by macros invalidates the types of what
  imports the module, but publishes only the buffer it is about (and closed files, unless the check
  is stale). Other open buffers keep findings read without the names.
- `RenamesKept` (`rename`): renaming `a` in `m` rewrites `m/a` but not the `a` of
  `(import ./m :only [a])`, and is not refused (`references.rs:231`): the importer stops compiling.
- `ServerThere` (`install`): cleaning up after a download removes directories that start with
  `janet-lsp-`, and so the `janet-lsp-plus-v...` just downloaded (`src/lib.rs:121`).

With a formula that says what the code claims, and that TLC refutes within seconds when it is added to
the configuration named (with the constant set as noted):

- `QuotedSpared` (`MCAlgorithms.cfg`): renaming `a` rewrites the data `'a` of the same file, which
  `handlers.rs:767` says is not a name to rename. (Asked for at the quoted symbol itself, it is refused.)
- `FormsFollow` (`MCAlgorithms.cfg`): `spec_ranges` (`imports.rs:443`) finds the imports at the top of a
  file only; one in a form, as `(when x (import ./m))`, is an edge of the graph, and is left as it was when
  its module moves, against "the imports a move breaks, written again" (`imports.rs:350`).
- `InitFollow` (`MCAlgorithms.cfg`): `./x/init.janet` is written again as its directory with the
  extension (`./y.janet`), which is no file (`imports.rs:409`).
- `RootsFollow` (`MCAlgorithms.cfg`, `Single = FALSE`): `/m` may lead to a file of any root
  (`modules.rs:78`), but is written from the project root of its file (`imports.rs:405`), where another
  root may be searched first.
- `AllFromDisk` (`MCWorker.cfg`): "a module whose file changed is unloaded together with every module that
  imported it" (`check.janet:148`), but fingerprints are taken when the request is done, not when a module
  is loaded (`check.janet:196`): a module written between keeps its old bindings until it is written
  again. A program also keeps the bindings of what its files imported when that changes, since its key
  has its own files only (`check.janet:252`).
- `RefusedOverSame` (`MCWorker.cfg`): "the same request over unchanged files fails at once"
  (`janet/mod.rs:156`), but what a check read is looked at after the timeout (`janet/mod.rs:204`), so a
  file mended while the check hung counts as unchanged.
- `InterruptsOwn` (`MCRepl.cfg`): the server has one slot for what an interrupt cancels, so a kernel, even
  an idle one, cancels whichever evaluation of the project's kernels began last, and its own may go on
  (`kernel/mod.rs:187`, against the README of janet-lsp-plus, 121 and 137).
- `LinesMatch` (`MCRepl.cfg`, `Sharing = TRUE`): the server has one slot for whom `getline` asks, too
  (`netrepl.rs:348`, README of janet-lsp-plus, 133). The line a user types goes to another kernel's
  evaluation.
- `RecordPaired` (`MCRepl.cfg`): "a reader that finds the new port finds its token" (`netrepl.rs:270`),
  but two kernels that start servers at once may leave the port of the one beside the token of the other,
  and each keeps the server it started, although a project has one process (README, 121).
- `OwnProject` (`MCRepl.cfg`, `Usurping = TRUE`): the kernel connects to whatever listens on the port
  picked for its server and records it (`netrepl.rs:387`, against 211-212).
- `StopsSpare` (`MCDebug.cfg`): "the program's own ev tasks keep the process alive" (`driver.janet:584`),
  but when the file of a launched program has run, the driver closes its connection (585), so that the
  next stop of a task that goes on ends the program.

Without a run of their own, besides those:

- Server. A file that is deleted while its `didClose` is on the way: closing drops it from the
  index, since the disk no longer has it, and then the deletion is of a file nobody knows, so open
  buffers that import it are not checked again and keep what was found against it. The same when a
  file is created and deleted before the server hears of the creation. `HeardFirst` excludes both
  (the run, with its few notifications, needs only the second: `Unheard` of `MCLanguageServer`).
  Without a watching client, closing a buffer scans the workspace (`state.rs:188`), but only
  importers of that buffer are typed again: another open buffer whose import the scan found or
  dropped keeps findings read from what it was. `Unscanned` excludes it; it takes a third file.
- Index. `set_config` reads the definitions again of what is in `files` and `external`, "of every
  file", as its comment says, but keeps the declarations libraries export (`exported`) as they were
  read under the old config. `Config::declarations` is ordered by priority, but `exported` is a
  `BTreeMap`, so what libraries export comes in the order of paths.
- Worker. `definers` are not in the key that tells settings apart (`check.janet:400`). A `janet`
  that exits between two checks fails the next one. A module that would now be found elsewhere is
  not looked for again. `run` waits past its timeout when a grandchild holds the pipe.
- REPL. Whom `getline` asks may be a connection of another kernel than the one that evaluates; the model
  has the line come back wrong and follows it no further. A late `InputReply` is taken for the answer to
  a later prompt; `select!` drops a frame half read by `next`; a kernel that attaches again keeps the old
  process id for its interrupts; a kernel that started the server takes it away from the others when it
  drops its connection.
- Debugger. The exit of the process may overtake the driver's last lines; breakpoint events for
  replaced ids still arrive; functions defined again keep removed breakpoints; a second
  `configurationDone` reports the end; `terminate` does nothing to a program attached to.
- Extension. Offline, the newest earlier server may be newer than the extension.
- Types. A dictionary never fits a form whose keys may be missing. `(= (x :n) nil)` of a dictionary
  and a position past the end of a tuple put values on the wrong side, and `:narrows` with a literal
  compares kinds. `set` inside a condition leaves facts of before it. In a `match` the clause
  `{:kind :a :n 1}` counts as covering the tag `:a` (`control.rs:193`, against its comment).
- Inference. `(last [1 "x"])` is `:number?`, since the elements of a tuple are merged in order;
  unifying two variables both ways makes the second `:any`; two closed forms that meet keep the
  keys of both; a struct and a dictionary become a dictionary; `assign` does not look for cycles
  when the variable is bound already.
- Renames. `(match x [a b] ...)`: an unused `a` can be renamed to `b`, which makes the pattern ask
  for equal values. A `def` inside a value of a `let` is captured, because occurrences are compared
  by their place in the text. A file that `use`s a module and defines its name again has its own
  definition renamed with the module's. An importer limited to other names is not asked whether the
  new name hides one of its own. The inputs of `RenamesKept` leave these out (`Unambiguous`, and the
  forms of `MCReferences`).
- Moves. A file `foo.janet` beside a directory `foo/` may be imported for its `init.janet`
  (`Apart` leaves it out), and a file that changes its own name changes the prefix of its import but not the names written under it.

## What is proved

### The message loop

`ServeProofs.tla`, from `ServeAssumption` (the bounds are numbers) only, and of a loop with any number of
checks waiting to be published (`Unbounded`), so that the composition can use them:

- `TypeCorrect`: `Spec => []TypeOK`.
- `StreamCorrect`: `Spec => []ServeInv`, the inductive invariant.
- `AnswersOnce`, `AnswersSee`, `AnswersInOrder`: the three safety properties, for any number of
  requests, notifications, checks and files.

None of the three is inductive. The argument is about the *stream*, the queue followed by the
connection: `Coming` says its requests have ascending numbers, carry the stamp of when they were
asked and are untouched with all later ones; `Stamped` that the first message's stamp is the number
of notifications applied and each next one counts the notification before it; `NothingAhead` that
while a pass listens to the client the queue is empty, so the message it overhears is the first of
the stream; `NoneLost` that a request is answered, with a formatting thread, or in the stream. Each
step leaves the stream and its history alone (`StayStep`), takes its first message (`Advance...`)
or appends one (`Arrive...`), and the lemmas are arranged that way.

### The index

`WorkspaceProofs.tla`, from `WorkspaceAssumption` (which paths are which, and what the functions of
a text return) only, for any files, texts and configs and any number of files in one event:

- `IndexCorrect`: `Spec => []WorkspaceInv`, the inductive invariant: the types, `GraphCurrent`,
  `AmbientFresh` (declarations kept in scope are those there are) and `CacheFresh`.
- `IndexTyped`, `GraphIsCurrent`, `CacheIsFresh`: its parts.

`CacheFresh` is not inductive. That a type stays right when files change needs the graph it was
read along to be the graph there is, because invalidation walks the old graph backwards and
inference walked it forwards (`KeptReachesNoChange`: what is kept reaches nothing that changed),
and it needs the declarations it read to be the ones kept. Where `refresh` leaves the graph alone
`FactsStay` applies; where it rebuilds the graph, only types of dependencies survive, and
`FactsStayAlone` says why they may: a dependency has no edges, so it reads nothing but itself.
That inference keeps the invariant (`InferFresh`) rests on it too: a cached type met on the way
is used as it is, so it has to be what one would read now.

- `ImportsInferredFirst` and `PassesReach`: `Spec => []DependenciesFirst` and `Spec => PassReaches`,
  with `FinitePaths` (a disk holds finitely many files).

The last two are about the layers of a pass, which are cut by depth: the length of the longest chain
of imports below a component. That depth is a number at all is an induction over the files a
component reaches (finitely many, and fewer for what it imports). From it come the two facts the
argument uses: what a component imports is less deep, and a component of depth `n + 1` imports one
of depth `n`, so there is no gap among the layers and the first empty one ends the pass with nothing
above it. `PassInv` says of a pass that everything reached below the layer it has come to has its
types, whichever thread takes what.

### The checking thread

`CheckerProofs.tla`, from `CheckerAssumption`:

- `ChecksAsPromised`: `Spec => Service!ServiceSpec`. Initial states map to initial states, and each
  step to a step of `CheckService` or a stutter, with `owed` the jobs of a buffer on their way.
- `CheckerTyped`: `Spec => []CheckerTypeOK`.

The thread checks what it gathered latest first, so buffers overtake each other; what is owed to one
buffer keeps its order because a batch has one job of it at most (`CheckerInv`), and dropping that job
for a later one is, for the buffer, passing over the first of what is owed. `Of` picks the jobs of a buffer out of a sequence of any length; that picking commutes
with joining sequences and with dropping a job is proved by induction on the length (`OfConcat`,
`OfOne`, `WithoutLeaves`), and each action's step of the refinement follows from those.

### The language server

`LanguageServerProofs.tla`, from `LanguageServerAssumption`:

- `TypeCorrect`: `Spec => []TypeOK`.
- `ServesAsLoop`: the whole server implements the message loop (initial states map to initial
  states, each step to a step or a stutter), and so `AnswersReflect`: what is proved of the loop
  holds of the server with its checks and passes.
- `NoGhostMarks`: `Spec => []NoGhosts`, with the types as the only help it needs.
- `TextChecked`: with `FreshVersions`, `Spec => []CheckedText`.
- `IndexSettles`: `Spec => []SettledIndex`; and `ProjectSettles`: without core sources, `Spec =>
  []SettledProject`.
- `BuffersSettle`: if no file imports a core source (`CoreApart`), `CarefulSpec =>
  []SettledBuffers`.

`CheckedText` is not inductive: it says what is shown now, and a check that is on its way will be
shown later. `TextInv` adds the way of a check: what is queued, gathered, coming back or shown was
found in the text the server has, if its version is the one the server has, and that version never
comes again (`FoundIn`); and versions that the client has sent and the server has not read are
later than the server's, and ascend (`VersionsAhead`). A version that is used twice is all that can
break it, which is what `FreshVersions` excludes.

The `Settled` properties say what is shown when nothing is under way, so their invariants say what
everything under way will come to. `DiskTold` has the index: the last thing said of a file and not
yet handled is right about the disk, and a change finds the file known, or its creation comes
first; so once nothing is left to be said the index is the disk. It needs `ClosesOpen`: the stream
closes only what it opened. `LineInv` follows a buffer down the line of checks, from the jobs
queued through those gathered to the results: the last word in it is about the version that is
open, and its text; where no word is left, what is shown is what Janet found, in that text
(`ShowsLatest`), against imports that are as they are on disk or about whose change something is on
its way that will be acted on (`Due`). That last part is what `HeardFirst` is for; the rest is proved
without (`LineInv(FALSE)`). `TypesInv` adds that the types shown in a buffer at rest are read from
the texts of now, or it is to be published again when the pass that is owed ends. `ClosedInv` says
the same of closed files: what they show is the findings of now, or a pass is owed, or will be once
a check is published (`Underway`).

### The worker

`WorkerProofs.tla`, from `WorkerAssumption` only, of `Spec` as it stands: any files, imports (cycles
included), programs and settings, any writes at any moment, exits, timeouts and errors.

- `WorkerTypes`: `Spec => []TypeOK`.
- `CheckedFromFiles`: `Spec => []CheckedFromDisk`.
- `RefusedWhileUnchanged`: `Spec => RefusedUnchanged`.

`ReadFromDisk` says that what a check used is on the disk or was during the check, but for `missed`, and
rests on what earlier checks left behind. `WorkerInv` says it in parts. One request at a time is with
Janet, and answers are its own (`OneRequest`, `AnswersMatch`). What is loading is a stack along imports,
no file on it twice or loaded already (`Stacked`). What a module holds of another is held by the other,
and `check/unload` of the other drops the module (`Linked`): the importers noted lead from the one to
the other. A fingerprint tells what the module was loaded from, because a file whose fingerprint is the
same has the same text, except for a write in the same second (`Told`), or the pair is in `missed`; the
key tells the same of the program (`ProgramTold`). Once files that changed have been dropped, whatever
is held is of the disk as it was since the request, or missed (`Reads`). `NamesTold` has the names of
what is loaded, of `lost` files nothing. `Hung` relates the stamps of what the check that hung read to
the disk when it was given up: as long as the stamps along the imports are those, so are the files.

### The record

`ReplProofs.tla`, first part, from `RecordAssumption`, for any number of servers, kernels and strangers:

- `RecordTyped`: `RecordSpec => []RecordTypeOK`, with or without strangers in the way: a port has one listener.
- `ProjectsApart` and `ServerShared`: `[]OwnProject` and `[]OwnServer` of the steps that are
  `Unusurped`. The second says of a project that port and token are of one server and the kernels share
  it, unless two of them have been starting servers at once; of such a project it says `OwnProject` only.

Neither is inductive, since a client acts on files it has read long before. `ServersInv` says who
listens where. `ServedInv` follows a port from the file to the connection: who wrote it has
listened, the token in a file is of a server of that project, and a client that is connecting on a
port picked for its own server meets no stranger. `PairedInv` has what kernels that do not connect
at once find: a port file whose server listens has that server's token beside it, what a client has
read is still recorded, and a kernel starts a server only where none can be found.

### The REPL

`ReplProofs.tla`, second part, from `ReplAssumption`, for any number of kernels, requests, prints, questions and
lookups, of the steps where every kernel is `Patient` (lines are typed where they are waited for, and
not interrupted) and `Undisturbed` (an evaluation that asks has the slot of `getline`). Interrupts are
any kernel's at any moment, and cancel whichever evaluation is in the slot:

- `ReplCorrect`: `[]ReplInv`, the inductive invariant.
- `ReplTyped`, `AnswersRight`, `OutputOrdered`: `[]TypeOK`, `[]RightAnswers`, `[]OutputInOrder`.

A frame does not say what it answers, so everything rests on whose turn it is. `Turn` lists the
eight situations a connection can be in, from nothing asked through a request on its way, an
evaluation that runs, asks, was answered or is ending, to the reply on its way back, with what may
be on the wires in each. `Cut` says where the output of a request is: shown, in frames on their way,
being written by the flusher, or kept, in that order with nothing missing. `Locked` says who holds
the lock on writing, `Slots` that the server's one slot for evaluations is of one that runs, whoever's,
and `LooksUpOnce` that a connection for lookups carries one lookup at a time.

### The debugger

`DebugProofs.tla`, from `DebugAssumption`, for any number of tasks, requests and stops:

- `SessionCorrect`: `Spec => []SessionInv`, the inductive invariant.
- `SessionTyped`, `RequestsAnsweredOnce`, `BreakpointsKnown`, `ThreadsKnown`: `[]TypeOK`,
  `[]AnsweredOnce` and two parts of `InStep`; `BreakpointsInPlace`: `BreakpointsFirst`.
- `StaysInStep`: `[]InStep` of the steps that are `Uncancelled`.

`InStep` speaks of an adapter that has heard everything; what it will have heard is in the queues.
So the invariants are about what the queues come to: the breakpoints the last command on its way
sets (`LastBreakpoints`), the threads that are known once the lines on their way are read
(`ThreadsTold`), the stop that is known then (`StopKnown`), and the requests that are nowhere else
than where they can be answered (`Unanswered`, `Numbers`).

### The walk of inference

`AlgorithmProofs.tla`, from `WalkAssumption` (what a program assigns is among its values):
`LocalsAlwaysHold`, `Spec /\ []TypesSound => []LocalsHold` where not `Overwriting`, for any locals,
types, tests and depth of forms.

`TypesSound` is what the walk takes from the types, where it stands: a run that has values of the
types the locals have now satisfies the facts of the side of a test it goes to, a type widened by a
value has the value and all it had, and `default` gives a type that what is there then is of. TLC
checks it at every state of the walk (`NarrowSound`), with the types and tests of `MCAlgorithms`: of
all types it cannot be proved, the operators of `Narrowing` being recursive over tests and types. The
theorem says that the walk adds no mistake of its own: what it puts in place and takes back, keeps
after a branch that never returns, or undoes at a `set`, is right whenever the sides of its tests are.

`LocalsHold` speaks of the types of now; what a branch will put back is in the stack, and what a form
will put in place is in the form. So the invariant (`WalkState`) says of each form the walk is in
what the values that left it or will enter its other part are:

- of every type a local had at the form's mark. Of a local that can be assigned, of every type on the
  stack below the mark too, since a `set` keeps only the oldest of them, widened; of another local,
  only of those since the outermost form began (`Held`);
- of its other facts, for those that enter its other part (`FormRight`), and of those its branch runs
  under unless it has assigned a local since: these are what `branches` puts back in place when the
  other branch never returns, and why `Overwriting` is excluded;
- none at all, after parts that never return.

A `default` is put in place outside of all forms and its local keeps an entry of what it was on
the stack, which the value it has now is not of. That is right since nothing takes it back: the local
is not assignable, and no later form has a mark below it.

### Imports

`AlgorithmProofs.tla`, for any segments of paths, any files, any moves of files and folders, in a
workspace that is one project (`OneProject`: one root, no `project.janet` inside):

- `OffersRight`: an import that is offered leads to the module it is offered for, if no module is
  beside a directory of its name (`Apart`).
- `ImportsFollow`: when files move, and none is beside a directory of its name afterwards, every
  import at the top of its file leads to the file it led to, and so does one in a form whose two ends
  stay. An `init.janet` written by its name with the extension is left out, as in the run
  (`Rewritable`).

Both are what `MovesKept` of the run `algorithms` checks on its places. A relative spec goes up to
what the two paths have in common and down from there, so it names the path of its module
(`WrittenLeads`); and a path leads to its module unless the other of its two candidates, `x.janet` and
`x/init.janet`, is there before it, which `Apart` excludes (`PathLeads`, `StaysLeading`).

### The extension

`AlgorithmProofs.tla`, from `InstallAssumption` (of the versions kept one is the newest):
`KeepsSources`, `Spec => [][Keeps]_vars`, which is `Kept` of the run `algorithms`. A download of
sources knows which directory it is for, even when the Janet they are for has changed meanwhile.

### Only model-checked

- Liveness, since the prover does not reason about fairness: `Answered`, `Promised` (its fairness),
  `Settles`, `InterruptEnds`, `AllAnswered`.
- The algorithms. `Types`, `Fit`, `Narrow`, `Narrowing`, `Unify`, `Scopes`, `References` and
  `ImportOrder` are recursive over types, forms and graphs, by RECURSIVE operators, of which the
  provers know nothing (recursive functions on numbers, like `Of` of `Checker`, can be reasoned about by
  induction; a walk over types whose parts are types of any depth is no such function). So `UnionSound`,
  `FitSound`, `NarrowSound`, `CallsKept`, `RenamesKept` and `WalksInOrder` are
  TLC's alone. What they show holds of the inputs listed in `MCAlgorithms`
  and `MCReferences`, no more.

## What is left

1. The start of the server: the scan of `State::new` before the client watches files, and a config
   file that is edited, which rereads the workspace.
2. Structural editing (`editing/*.rs`) as operators on nested sequences.

## Not modelled

- Inference form by form (definitions, loops, indexing, hundreds of core signatures) and what it
  reports: only how types meet, how calls teach and what conditionals say is modelled.
- How types are written and printed, and that some printed types cannot be read back.
- Lints, highlighting, completion, hints, formatting of messages, JSON, offsets: functions of one
  file, tested by snapshots in the repository.
- In the walk, a `case` or `match` that is exhaustive and none of whose clauses returns
  (`control.rs:171-180`), the empty fact inside of a nested test (`narrowing.rs:77-82`) and rows that are
  written rather than found (`unify.rs:567`): each only makes inference say less.
- Packages and installed modules in `Imports`: their imports name no place in the workspace.
- What a check puts around a buffer (stand-ins, definers, limits on output), which decides what is
  reported and not from which files.
- What the debugger shows of a stop, and where in a function a breakpoint is put.
- The tree-sitter grammar, the one-pass command line and the scripts that generate declarations.

`PROJECT.json` lists each part with its reason.
