--------------------------- MODULE LanguageServer ---------------------------
(***************************************************************************)
(* The language server as one system: the message loop of Serve.tla, the   *)
(* checking thread of Checker.tla, and between them the server's `State`   *)
(* and what it publishes: lsp/state.rs, and `sync`, `publish`,             *)
(* `publish_buffer` and `publish_project` of lsp/mod.rs.  The editor and   *)
(* the disk are around it.                                                 *)
(*                                                                         *)
(* A text stands for itself.  What the server computes from texts is the   *)
(* record of the texts it was computed from: it is up to date when those   *)
(* are.  The types cache is left out: Workspace::facts answers for what    *)
(* the workspace holds now.  Which file imports which is fixed.            *)
(***************************************************************************)
EXTENDS Integers, Sequences, FiniteSets, SequencesExt

CONSTANTS
    Uri,            \* the files of the workspace
    Text,           \* what a file can say
    NoText,         \* the file is not there
    NoNote,         \* the `note` of a message that is no notification
    Reads,          \* by file, the files it imports, however far away
    Faulty,         \* texts that give a file reading them a type finding
    Broken,         \* texts that do not parse
    CoreSource,     \* files of Janet's own core: never checked
    FreshVersions,  \* whether a reopened buffer counts its versions on
    JanetFails,     \* whether a check can fail, time out or panic
    Settings,       \* the `types` settings the user switches between
    MaxVersion,     \* bound: versions of a buffer
    MaxRequests, MaxNotes, MaxWaiting, MaxResults, Files  \* bounds of Serve

ASSUME LanguageServerAssumption ==
    /\ NoText \notin Text
    /\ Reads \in [Uri -> SUBSET Uri]
    /\ \A u \in Uri : u \notin Reads[u]
    /\ \A u \in Uri : \A m \in Reads[u] : Reads[m] \subseteq Reads[u]
    /\ Faulty \subseteq Text /\ Broken \subseteq Text
    /\ CoreSource \subseteq Uri
    /\ FreshVersions \in BOOLEAN /\ JanetFails \in BOOLEAN
    /\ IsFiniteSet(Uri)
    /\ MaxVersion \in Nat
    /\ MaxRequests \in Nat /\ MaxNotes \in Nat /\ MaxWaiting \in Nat /\ MaxResults \in Nat
    /\ Files \in Nat

VARIABLES
    \* Serve
    inbox, queue, connected, pc, asking, projectStale, listening, stop, walk, left, results,
    formatting, lastId, notes, applied, asked, seen, replies,
    \* Checker
    jobs, pending, phase,
    loaded,       \* by file, its text when `janet` last loaded it for an importer
    \* the editor and the disk
    buffer,       \* by file, the text in the editor, and the version last used
    disk,         \* by file, the text on disk
    shown,        \* by file, the diagnostics last published for it
    \* State
    watching,     \* `watching`: the client reports changes on disk
    open,         \* `open`: by file, the version of the open buffer, 0 without one
    indexed,      \* files whose buffer has `indexed` set
    index,        \* `workspace.files`: by file, the text the server goes by
    bound,        \* `workspace.expanded`: the text the names macros bind were seen in
    settings,     \* `reporting` and the workspace's mode
    compiled,     \* `compiled`: what Janet last found in a buffer, in which version
    diagnostics,  \* `diagnostics`: what was last published for an open buffer
    retype,       \* `retype`: buffers to publish again with fresh types
    published     \* `published`: closed files with type findings shown

editorVars  == <<buffer, disk>>
checkerVars == <<jobs, pending, phase, loaded>>
stateVars   == <<watching, open, indexed, index, bound, settings, compiled, diagnostics,
                 retype, published>>
serveVars   == <<inbox, queue, connected, pc, asking, projectStale, listening, stop, walk,
                 left, results, formatting, lastId, notes, applied, asked, seen, replies>>
vars == <<serveVars, checkerVars, editorVars, shown, stateVars>>

-----------------------------------------------------------------------------
(* What is passed around.                                                   *)

Version  == 1 .. MaxVersion
Anything == Text \cup {NoText}

\* What a notification says.
Notification ==
    [what : {"open", "change"}, uri : Uri, version : Version, text : Text]
    \cup [what : {"close", "created", "changed", "deleted"}, uri : Uri]
    \cup [what : {"configure"}, settings : Settings]

Job == [uri : Uri, version : Version, text : Text]

\* What Janet finds: the text it compiled and the imports it loaded from disk.
\* A failed check has compiled nothing.
Problems == [text : Anything, against : UNION {[S -> Anything] : S \in SUBSET Uri}]
Failed   == [text |-> NoText, against |-> <<>>]

\* `Report`: with the problems, the names macros bind in the modules it loaded.
Report == [problems : Problems, bindings : UNION {[S -> Text] : S \in SUBSET Uri}]

Checked == [uri : Uri, version : Version, report : Report]

Srv == INSTANCE Serve WITH Note <- Notification
Chk == INSTANCE Checker WITH latest <- [u \in Uri |-> 0], MaxJobs <- 0

\* `Workspace::facts`: what inference reads a file's types from, in which mode.
NoFacts == [mode |-> "off", reads |-> <<>>]
Facts(text, names, mode, u) ==
    [mode |-> mode,
     reads |-> [f \in {u} \cup Reads[u] |-> [text |-> text[f], names |-> names[f]]]]

\* Published diagnostics: for a buffer under its version, for a project file
\* without one, or none.
Clear == [by |-> "nobody", version |-> 0, problems |-> Failed, facts |-> NoFacts]
NotCompiled == [version |-> 0, problems |-> Failed]

Init ==
    /\ Srv!Init
    /\ Chk!CheckerInit
    /\ loaded = [u \in Uri |-> NoText]
    /\ disk \in [Uri -> Anything]
    /\ buffer = [u \in Uri |-> [version |-> 0, text |-> NoText]]
    /\ shown = [u \in Uri |-> Clear]
    /\ watching \in BOOLEAN
    /\ open = [u \in Uri |-> 0]
    /\ indexed = {}
    /\ index = disk
    /\ bound = [u \in Uri |-> NoText]
    /\ settings \in Settings
    /\ compiled = [u \in Uri |-> NotCompiled]
    /\ diagnostics = [u \in Uri |-> Clear]
    /\ retype = {}
    /\ published = {}

Shown ==
    [by : {"nobody", "buffer", "project"}, version : Version \cup {0}, problems : Problems,
     facts : [mode : Settings \cup {"off"},
              reads : UNION {[S -> [text : Anything, names : Anything]] : S \in SUBSET Uri}]]

TypeOK ==
    /\ Srv!TypeOK
    /\ jobs \in Seq(Job) /\ pending \in Seq(Job)
    /\ phase \in {"idle", "gathering", "checking"}
    /\ loaded \in [Uri -> Anything]
    /\ buffer \in [Uri -> [version : Version \cup {0}, text : Anything]]
    /\ disk \in [Uri -> Anything]
    /\ shown \in [Uri -> Shown]
    /\ watching \in BOOLEAN
    /\ open \in [Uri -> Version \cup {0}]
    /\ indexed \subseteq {u \in Uri : open[u] # 0}
    /\ index \in [Uri -> Anything]
    /\ bound \in [Uri -> Anything]
    /\ settings \in Settings
    /\ compiled \in [Uri -> [version : Version \cup {0}, problems : Problems]]
    /\ diagnostics \in [Uri -> Shown]
    /\ retype \subseteq {u \in Uri : open[u] # 0}
    /\ published \subseteq Uri

-----------------------------------------------------------------------------
(* The editor: it tells the server what the user does.                      *)

IsOpen(u) == open[u] # 0

EditorOpens(u, text) ==
    /\ buffer[u].text = NoText
    /\ LET version == IF FreshVersions THEN buffer[u].version + 1 ELSE 1
       IN /\ version <= MaxVersion
          /\ buffer' = [buffer EXCEPT ![u] = [version |-> version, text |-> text]]
          /\ Srv!SendNote([what |-> "open", uri |-> u, version |-> version, text |-> text])
    /\ UNCHANGED disk

EditorEdits(u, text) ==
    /\ buffer[u].text \notin {NoText, text}
    /\ buffer[u].version < MaxVersion
    /\ LET version == buffer[u].version + 1
       IN /\ buffer' = [buffer EXCEPT ![u] = [version |-> version, text |-> text]]
          /\ Srv!SendNote([what |-> "change", uri |-> u, version |-> version, text |-> text])
    /\ UNCHANGED disk

EditorCloses(u) ==
    /\ buffer[u].text # NoText
    /\ buffer' = [buffer EXCEPT ![u].text = NoText]
    /\ Srv!SendNote([what |-> "close", uri |-> u])
    /\ UNCHANGED disk

\* A file is saved, or written, created or deleted by another program.  The
\* editor that watches says so; by then it may have changed once more.
DiskChanges(u, text) ==
    /\ text # disk[u]
    /\ disk' = [disk EXCEPT ![u] = text]
    /\ IF watching
       THEN Srv!SendNote([what |-> IF disk[u] = NoText THEN "created"
                                   ELSE IF text = NoText THEN "deleted" ELSE "changed",
                          uri |-> u])
       ELSE UNCHANGED serveVars
    /\ UNCHANGED buffer

EditorConfigures(types) ==
    /\ Srv!SendNote([what |-> "configure", settings |-> types])
    /\ UNCHANGED editorVars

Editor ==
    /\ \/ \E u \in Uri, text \in Text : EditorOpens(u, text) \/ EditorEdits(u, text)
       \/ \E u \in Uri : EditorCloses(u)
       \/ \E u \in Uri, text \in Anything : DiskChanges(u, text)
       \/ \E types \in Settings : EditorConfigures(types)
       \/ /\ \/ \E kind \in Srv!Requests : Srv!SendRequest(kind)
             \/ \E r \in Srv!Request : Srv!SendCancel(r)
             \/ Srv!SendResponse \/ Srv!SendExit \/ Srv!Disconnect
          /\ UNCHANGED editorVars
    /\ UNCHANGED <<checkerVars, shown, stateVars>>

-----------------------------------------------------------------------------
(* `sync`: the state follows a notification.                                *)

\* Mutants of OpenImporters: importers nobody has open, and none at all.
ImportersOpenOrNot(files) == {u \in Uri \ files : Reads[u] \cap files # {}}
NoImporters(files) == {u \in files : FALSE}

\* `open_importers`: open buffers that import one of `files`, other than those.
OpenImporters(files) ==
    {u \in Uri \ files : IsOpen(u) /\ Reads[u] \cap files # {}}

\* Mutant of Check: the job is made before the state has the new text.
CheckBefore(uris) ==
    \E order \in SetToSeqs(uris \ CoreSource) :
        Chk!Submit([i \in DOMAIN order |->
            [uri |-> order[i], version |-> open'[order[i]],
             text |-> IF index[order[i]] = NoText THEN index'[order[i]] ELSE index[order[i]]]])

\* `check`: a job for each buffer of `uris`, the text of the index as it is
\* after this step, in the order the buffers come in.
Check(uris) ==
    \E order \in SetToSeqs(uris \ CoreSource) :
        Chk!Submit([i \in DOMAIN order |->
            [uri |-> order[i], version |-> open'[order[i]], text |-> index'[order[i]]]])

\* `rescan`: new files are read, deleted ones dropped; open buffers and files
\* known already are left alone.
Rescanned(known, opened) ==
    [u \in Uri |-> IF opened[u] # 0 THEN known[u]
                   ELSE IF disk[u] = NoText THEN NoText
                   ELSE IF known[u] = NoText THEN disk[u] ELSE known[u]]

\* didOpen and didChange: the buffer is the file, and is checked; open buffers
\* that import it are to be published again with fresh types.
SyncText(n) ==
    LET u == n.uri
        importers == OpenImporters({u})
    IN /\ n.what \in {"open", "change"}
       /\ open' = [open EXCEPT ![u] = n.version]
       /\ indexed' = IF IsOpen(u) THEN indexed
                     ELSE IF index[u] # NoText THEN indexed \cup {u} ELSE indexed \ {u}
       /\ index' = [index EXCEPT ![u] = n.text]
       /\ Check({u})
       /\ retype' = retype \cup importers
       /\ projectStale' = (projectStale \/ importers # {})
       /\ UNCHANGED <<bound, settings, compiled, diagnostics, published, shown>>

\* Mutant of Restored: the file stays what its buffer was.
KeptOnClose(u) == index[u]

\* What a file is once its buffer is closed: what the disk says, if it was known
\* from disk, and else nothing.
Restored(u) == IF u \in indexed THEN disk[u] ELSE NoText

\* didClose: its marks come off, and the file is what the disk says again.  The
\* editor closes only what it opened.
SyncClose(n) ==
    LET u == n.uri
        restored == [index EXCEPT ![u] = Restored(u)]
    IN /\ n.what = "close"
       /\ diagnostics' = [diagnostics EXCEPT ![u] = Clear]
       /\ compiled' = [compiled EXCEPT ![u] = NotCompiled]
       /\ open' = [open EXCEPT ![u] = 0]
       /\ indexed' = indexed \ {u}
       /\ index' = IF watching THEN restored ELSE Rescanned(restored, open')
       /\ retype' = (retype \ {u}) \cup OpenImporters({u})
       /\ shown' = [shown EXCEPT ![u] = Clear]
       /\ projectStale' = TRUE
       /\ UNCHANGED <<bound, settings, published, jobs>>

\* didChangeWatchedFiles: the file is read again unless a buffer stands for it;
\* open buffers that import it, and load it from disk, are checked again.
SyncDisk(n) ==
    LET u == n.uri
        known == IF n.what = "created" THEN disk[u] # NoText ELSE index[u] # NoText
        read  == IF n.what = "deleted" THEN NoText ELSE disk[u]
    IN /\ n.what \in {"created", "changed", "deleted"}
       /\ indexed' = IF ~known \/ ~IsOpen(u) THEN indexed
                     ELSE IF n.what = "deleted" THEN indexed \ {u} ELSE indexed \cup {u}
       /\ index' = IF ~known \/ IsOpen(u) THEN index ELSE [index EXCEPT ![u] = read]
       /\ open' = open
       /\ Check(IF known THEN OpenImporters({u}) ELSE {})
       /\ projectStale' = TRUE
       /\ UNCHANGED <<bound, settings, compiled, diagnostics, retype, published, shown>>

\* didChangeConfiguration: every buffer is marked up again under new settings.
SyncSettings(n) ==
    /\ n.what = "configure"
    /\ settings' = n.settings
    /\ open' = open /\ index' = index
    /\ Check(IF n.settings # settings THEN {u \in Uri : IsOpen(u)} ELSE {})
    /\ projectStale' = (projectStale \/ n.settings # settings)
    /\ UNCHANGED <<indexed, bound, compiled, diagnostics, retype, published, shown>>

Sync ==
    /\ pc = "loop" /\ queue # <<>> /\ Head(queue).kind = "note"
    /\ LET n == Head(queue).note
       IN SyncText(n) \/ SyncClose(n) \/ SyncDisk(n) \/ SyncSettings(n)
    /\ Srv!Notify
    /\ UNCHANGED <<editorVars, pending, phase, loaded, watching>>

-----------------------------------------------------------------------------
(* Publishing.                                                              *)

\* `publish_buffer`: what Janet last found in `u` and what the types find now,
\* under the version Janet checked; nothing unless that is the current one.
Publishable(u, found) == IsOpen(u) /\ found[u].version = open[u]

BufferMarks(u, found, names) ==
    [by |-> "buffer", version |-> found[u].version, problems |-> found[u].problems,
     facts |-> IF settings = "off" THEN NoFacts ELSE Facts(index, names, settings, u)]

\* Mutants of Current: a result is taken for whatever there is, or a failed one is not.
Whatever(checked) == TRUE
Succeeded(checked) ==
    IsOpen(checked.uri) /\ open[checked.uri] = checked.version /\ checked.report.problems # Failed

\* A result for an older version, or for a closed buffer, is stale.
Current(checked) == IsOpen(checked.uri) /\ open[checked.uri] = checked.version

\* `publish`: a check has come back.  The names its macros bound are taken in
\* even from a stale one; the rest only for the version that is open.
Publish ==
    /\ pc = "loop" /\ queue = <<>> /\ results # <<>>
    /\ LET checked == Head(results)
           u == checked.uri
           bindings == checked.report.bindings
           found == [compiled EXCEPT ![u] = [version |-> checked.version,
                                             problems |-> checked.report.problems]]
       IN /\ bound' = [f \in Uri |-> IF f \in DOMAIN bindings THEN bindings[f] ELSE bound[f]]
          /\ IF Current(checked)
             THEN /\ compiled' = found
                  /\ retype' = retype \ {u}
                  /\ diagnostics' = [diagnostics EXCEPT ![u] = BufferMarks(u, found, bound')]
                  /\ shown' = [shown EXCEPT ![u] = BufferMarks(u, found, bound')]
                  /\ projectStale' = TRUE
             ELSE UNCHANGED <<compiled, retype, diagnostics, shown, projectStale>>
    /\ Srv!Publish
    /\ UNCHANGED <<editorVars, checkerVars, watching, open, indexed, index, settings, published>>

\* Mutant of Found: whoever has them open.
FoundAnywhere ==
    {u \in Uri : /\ index[u] \notin Broken \cup {NoText}
                 /\ \E f \in {u} \cup Reads[u] : index[f] \in Faulty}

\* Project files with findings: those nobody has open, that parse.
Found ==
    {u \in Uri : /\ ~IsOpen(u)
                 /\ index[u] \notin Broken \cup {NoText}
                 /\ \E f \in {u} \cup Reads[u] : index[f] \in Faulty}

ProjectMarks(u) ==
    [by |-> "project", version |-> 0, problems |-> Failed,
     facts |-> Facts(index, bound, settings, u)]

\* Mutants of Gone: marks also come off files opened since, or never come off.
EveryPublished == published
NonePublished  == {}

\* Files that had findings; an opened one is the buffer's business now.
Gone == {u \in published : ~IsOpen(u)}

\* The end of `publish_project`: marks come off files without findings now, and
\* are put on those of `fresh`.
PublishFindings(fresh, buffers) ==
    /\ shown' = [u \in Uri |->
           IF u \in fresh THEN ProjectMarks(u)
           ELSE IF u \in Gone THEN Clear
           ELSE IF u \in buffers THEN BufferMarks(u, compiled, bound)
           ELSE shown[u]]
    /\ diagnostics' = [u \in Uri |->
           IF u \in buffers THEN BufferMarks(u, compiled, bound) ELSE diagnostics[u]]
    /\ published' = fresh
    /\ UNCHANGED <<watching, open, indexed, index, bound, settings, compiled>>

PublishUninferred ==
    /\ settings = "off"
    /\ Srv!PublishUninferred
    /\ PublishFindings({}, {})
    /\ UNCHANGED <<retype, checkerVars, editorVars>>

BeginPass ==
    /\ settings # "off"
    /\ Srv!BeginPass
    /\ UNCHANGED <<checkerVars, editorVars, shown, stateVars>>

EndPass ==
    /\ Srv!EndPass
    /\ IF walk = "finished"
       THEN PublishFindings(Found, {u \in retype : Publishable(u, compiled)}) /\ retype' = {}
       ELSE UNCHANGED <<shown, stateVars>>
    /\ UNCHANGED <<checkerVars, editorVars>>

-----------------------------------------------------------------------------
(* The checking thread, and all that leaves the state alone.                *)

\* Imports the `janet` process loads for a check of `u`: those that changed on
\* disk since it last did, and those that read one of them.
Loads(u) ==
    LET there == {f \in Reads[u] : disk[f] # NoText}
    IN {f \in there : \E m \in {f} \cup (Reads[f] \cap there) : loaded[m] # disk[m]}

\* Checking `job`: the problems of its text against the imports on disk, the
\* names its macros bind, and those of the imports it had to load.
Checks(job) ==
    LET u == job.uri
    IN /\ Chk!CheckOne(
              [problems |-> [text |-> job.text, against |-> [f \in Reads[u] |-> disk[f]]],
               bindings |-> [f \in Loads(u) \cup {u} |-> IF f = u THEN job.text ELSE disk[f]]])
       /\ loaded' = [f \in Uri |-> IF f \in Loads(u) THEN disk[f] ELSE loaded[f]]

\* A check fails, times out or panics: the process may go, with all it loaded.
CheckFails ==
    /\ JanetFails
    /\ Chk!CheckOne([problems |-> Failed, bindings |-> <<>>])
    /\ loaded' \in {loaded, [u \in Uri |-> NoText]}

CheckerThread ==
    /\ pc # "stopped"
    /\ \/ (Chk!TakeFirst \/ Chk!Gather \/ Chk!Settle) /\ UNCHANGED loaded
       \/ pending # <<>> /\ Checks(Head(pending))
       \/ CheckFails
    /\ UNCHANGED <<inbox, queue, connected, pc, asking, projectStale, listening, stop, walk,
                   left, formatting, lastId, notes, applied, asked, seen, replies,
                   editorVars, shown, stateVars>>

\* Requests read the state; the rest is between the threads.
Aside(step) == step /\ UNCHANGED <<checkerVars, editorVars, shown, stateVars>>

ServeMessages == Aside(Srv!RefuseCancelled \/ Srv!ServeRequest \/ Srv!ServeShutdown \/ Srv!Ignore)
Overhear      == Aside(Srv!AnswerInferring \/ Srv!IgnoreInferring \/ Srv!StopForMessage)
InferFiles    == Aside(Srv!PickFile \/ Srv!ReadFile \/ Srv!EndWalk)

Server ==
    \/ Aside(Srv!Receive)
    \/ ServeMessages
    \/ Aside(Srv!LeaveAfterShutdown)
    \/ Aside(Srv!ClientGone)
    \/ Sync
    \/ Publish
    \/ PublishUninferred \/ BeginPass
    \/ InferFiles
    \/ Overhear
    \/ Aside(Srv!StopForCheck)
    \/ Aside(Srv!StopForNobody)
    \/ EndPass
    \/ \E r \in Srv!Request : Aside(Srv!FormatDone(r))

Next ==
    \/ Editor
    \/ Server
    \/ CheckerThread
    \/ Srv!Terminated /\ UNCHANGED vars

Spec == Init /\ [][Next]_vars

\* As in Serve.tla, and the checking thread runs.  Nothing is asked of the user.
Fairness ==
    /\ SF_vars(Aside(Srv!Receive))
    /\ SF_vars(Overhear)
    /\ WF_vars(ServeMessages)
    /\ WF_vars(Sync)
    /\ WF_vars(Publish)
    /\ WF_vars(PublishUninferred \/ BeginPass)
    /\ WF_vars(InferFiles)
    /\ WF_vars(Aside(Srv!StopForCheck))
    /\ WF_vars(EndPass)
    /\ WF_vars(CheckerThread)

FairSpec == Spec /\ Fairness

-----------------------------------------------------------------------------
(* Properties.                                                              *)

\* Nothing is under way: every message is handled, every check published, and
\* the project's findings are as fresh as the server takes them to be.
Settled ==
    /\ inbox = <<>> /\ queue = <<>> /\ results = <<>> /\ jobs = <<>> /\ pending = <<>>
    /\ pc = "loop" /\ ~projectStale

\* A buffer's marks never outlive the buffer: a check that comes back after
\* didClose, and a pass that took the buffer for open, put nothing back.
ClosedBare == \A u \in Uri : ~IsOpen(u) => shown[u].by # "buffer"

\* Marks shown under the version that is open were found in the text that is
\* open: "the problems are published for the version that was checked"
\* (janet-lsp-plus/src/lsp/diagnostics.rs:2).
CheckedText ==
    \A u \in Uri :
        /\ shown[u].by = "buffer" /\ shown[u].version = open[u]
        /\ shown[u].problems.text # NoText
        => shown[u].problems.text = index[u]

\* Quick fixes work on the diagnostics the editor shows: what is kept for a
\* buffer is what was last published for it.
KeptIsShown ==
    \A u \in Uri : diagnostics[u] # Clear => IsOpen(u) /\ shown[u] = diagnostics[u]

\* The marks of buffers are on buffers, and are those the server goes by.
NoGhosts == ClosedBare /\ KeptIsShown

\* Once all is settled every open buffer shows what Janet made of its current text,
\* and of the imports now on disk if the client reports changes there, or that the
\* check failed.
SettledChecks ==
    Settled => \A u \in Uri \ CoreSource : IsOpen(u) =>
        /\ shown[u].by = "buffer" /\ shown[u].version = open[u]
        /\ \/ shown[u].problems = Failed
           \/ /\ shown[u].problems.text = index[u]
              /\ watching => shown[u].problems.against = [f \in Reads[u] |-> disk[f]]

TypedTexts(marks) == [f \in DOMAIN marks.facts.reads |-> marks.facts.reads[f].text]

\* Once all is settled the type findings shown, in buffers and in project files,
\* were read from the texts of now, in the mode of now, however far away the
\* import that changed.
SettledTypes ==
    Settled => \A u \in Uri \ CoreSource :
        /\ IsOpen(u) => shown[u].facts.mode = settings
        /\ shown[u].facts # NoFacts =>
               /\ shown[u].facts.mode = settings
               /\ TypedTexts(shown[u]) = [f \in {u} \cup Reads[u] |-> index[f]]

\* Once all is settled marks stand on exactly the closed files with findings.
SettledClosed ==
    Settled => \A u \in Uri : ~IsOpen(u) =>
        (shown[u].by = "project" <=> settings # "off" /\ u \in Found)

\* Once all is settled the server goes by the disk for every closed file.
SettledIndex ==
    Settled /\ watching => \A u \in Uri : ~IsOpen(u) => index[u] = disk[u]

\* Once all is settled no open buffer shows what was found in it as a project
\* file: "an opened one is the buffer's business now"
\* (janet-lsp-plus/src/lsp/mod.rs:999).
SettledOpened ==
    Settled => \A u \in Uri : IsOpen(u) => shown[u].by # "project"

\* Once all is settled buffers show what Janet and the types find in the texts, on
\* disk and in buffers, and under the settings of now.
SettledBuffers == SettledChecks /\ SettledTypes

\* Once all is settled closed files are those on disk, and marked as projects are.
SettledProject == SettledClosed /\ SettledIndex /\ SettledOpened

\* Files of the workspace import none of Janet's own sources.
CoreApart == \A u \in Uri : Reads[u] \cap CoreSource = {}

\* A file goes from disk only once the server has handled what the editor said of
\* its creation and of its closed buffer.
HeardFirst ==
    \A u \in Uri : disk[u] # NoText /\ disk'[u] = NoText =>
        \A i \in DOMAIN (queue \o inbox) :
            LET m == (queue \o inbox)[i]
            IN ~(m.kind = "note" /\ m.note.what \in {"created", "close"} /\ m.note.uri = u)

\* With a client that watches no files, what a scan finds is what the server has.
Unscanned ==
    watching \/ \A u \in Uri : index'[u] # index[u] => IsOpen(u) \/ open'[u] # 0

\* The server, without the two races README.md tells of.
CarefulSpec == Init /\ [][Next /\ HeardFirst /\ Unscanned]_vars

\* The server settles, or the client stops it: no pass, check or retyping keeps
\* asking for the next one.
Settles == []<>(Settled \/ ~connected \/ pc \in {"exiting", "stopped"})

\* "What the types find in it now" (janet-lsp-plus/src/lsp/mod.rs:928): once all
\* is settled the findings shown know the names macros bind now.
SettledNames ==
    Settled => \A u \in Uri : shown[u].facts # NoFacts =>
        \A f \in DOMAIN shown[u].facts.reads : shown[u].facts.reads[f].names = bound[f]
=============================================================================
