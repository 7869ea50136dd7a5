------------------------ MODULE LanguageServerProofs ------------------------
(* Proofs about LanguageServer.tla: types; that the server as a whole is the  *)
(* message loop of Serve.tla, so that what is proved of the loop holds of it; *)
(* that the marks shown are on buffers and were found in their text; and that *)
(* once all is settled they are those of the texts, the disk and the settings *)
(* of now.                                                                    *)
EXTENDS LanguageServer, SequenceTheorems, FiniteSetTheorems, WellFoundedInduction, TLAPS

\* The message loop, and what is proved of it.
Loop == INSTANCE ServeProofs WITH Note <- Notification

LEMMA LoopAssumption == Loop!ServeAssumption
BY LanguageServerAssumption DEF LanguageServerAssumption, Loop!ServeAssumption

-----------------------------------------------------------------------------
(* The inductive invariant.                                                 *)

TypedEditor ==
    /\ buffer \in [Uri -> [version : Version \cup {0}, text : Anything]]
    /\ disk \in [Uri -> Anything]

TypedChecker ==
    /\ jobs \in Seq(Job) /\ pending \in Seq(Job)
    /\ phase \in {"idle", "gathering", "checking"}
    /\ loaded \in [Uri -> Anything]

TypedState ==
    /\ watching \in BOOLEAN
    /\ open \in [Uri -> Version \cup {0}]
    /\ indexed \subseteq {u \in Uri : open[u] # 0}
    /\ index \in [Uri -> Anything]
    /\ bound \in [Uri -> Anything]
    /\ settings \in Settings
    /\ retype \subseteq {u \in Uri : open[u] # 0}
    /\ published \subseteq Uri

TypedMarks ==
    /\ compiled \in [Uri -> [version : Version \cup {0}, problems : Problems]]
    /\ diagnostics \in [Uri -> Shown]
    /\ shown \in [Uri -> Shown]

\* A buffer has a text: what is checked is never missing.
OpenTexts == \A u \in Uri : IsOpen(u) => index[u] \in Text

Typed == Loop!TypeOK /\ TypedEditor /\ TypedChecker /\ TypedState /\ TypedMarks /\ OpenTexts

-----------------------------------------------------------------------------
(* What the operators of the model return.                                  *)

\* What the first message of the queue says, when it is a notification.
LEMMA NoteType ==
    ASSUME Loop!TypeOK, queue # <<>>, Head(queue).kind = "note"
    PROVE  LET n == Head(queue).note
           IN /\ n \in Notification
              /\ n.what \in {"open", "change"} =>
                    n.uri \in Uri /\ n.version \in Version /\ n.text \in Text
              /\ n.what \in {"close", "created", "changed", "deleted"} => n.uri \in Uri
              /\ n.what = "configure" => n.settings \in Settings
<1>1. Head(queue) \in Loop!Message
  BY HeadTailProperties DEF Loop!TypeOK, Loop!LoopTypeOK
<1>2. Head(queue).note \in Notification
  BY <1>1 DEF Loop!Message, Loop!Requests
<1>. QED
  BY <1>2 DEF Notification

\* A batch of checks is a sequence of jobs: each of a buffer that is open and has a
\* text, with its version.
LEMMA BatchType ==
    ASSUME NEW uris \in SUBSET Uri, NEW order \in SetToSeqs(uris \ CoreSource),
           NEW versions \in [Uri -> Version \cup {0}], NEW texts \in [Uri -> Anything],
           \A u \in uris : versions[u] # 0 /\ texts[u] \in Text
    PROVE  /\ [i \in DOMAIN order |->
                  [uri |-> order[i], version |-> versions[order[i]], text |-> texts[order[i]]]]
                  \in Seq(Job)
           /\ \A i \in DOMAIN order : order[i] \in uris
<1>1. IsFiniteSet(uris \ CoreSource)
  BY LanguageServerAssumption, FS_Subset DEF LanguageServerAssumption
<1>2. Cardinality(uris \ CoreSource) \in Nat
  BY <1>1, FS_CardinalityType
<1>3. order \in [1 .. Cardinality(uris \ CoreSource) -> uris \ CoreSource]
  BY DEF SetToSeqs
<1>4. \A i \in DOMAIN order : [uri |-> order[i], version |-> versions[order[i]],
                               text |-> texts[order[i]]] \in Job
  <2>. SUFFICES ASSUME NEW i \in DOMAIN order
                PROVE  [uri |-> order[i], version |-> versions[order[i]],
                        text |-> texts[order[i]]] \in Job
    OBVIOUS
  <2>1. order[i] \in uris
    BY <1>3
  <2>2. order[i] \in Uri /\ versions[order[i]] \in Version \cup {0} /\ versions[order[i]] # 0
    BY <2>1
  <2>3. texts[order[i]] \in Text
    BY <2>1
  <2>. QED
    BY <2>2, <2>3 DEF Job
<1>5. DOMAIN order = 1 .. Cardinality(uris \ CoreSource)
  BY <1>3
<1>6. \A i \in DOMAIN order : order[i] \in uris
  BY <1>3, <1>5
<1>7. [i \in DOMAIN order |-> [uri |-> order[i], version |-> versions[order[i]],
                              text |-> texts[order[i]]]] \in [DOMAIN order -> Job]
  BY <1>4
<1>8. \A n \in Nat : \A f \in [1 .. n -> Job] : f \in Seq(Job)
  OBVIOUS
<1>. QED
  BY <1>2, <1>5, <1>6, <1>7, <1>8

\* Removing the first match of a sequence leaves elements of it.
LEMMA WithoutType ==
    ASSUME NEW S, NEW s \in Seq(S), NEW Test(_)
    PROVE  Chk!RemoveFirstMatch(s, Test) \in Seq(S)
<1>. DEFINE I == {i \in 1 .. Len(s) : Test(s[i])}
            k == Chk!SelectInSeq(s, Test)
<1>1. CASE I = {}
  BY <1>1 DEF Chk!RemoveFirstMatch
<1>2. CASE I # {}
  <2>. DEFINE Less == {p \in Nat \X Nat : p[1] < p[2]}
  <2>0. IsWellFoundedOn(Less, Nat)
    BY NatLessThanWellFounded DEF OpToRel
  <2>1. \E i \in I : \A j \in I : i <= j
    <3>. HIDE DEF I, Less
    <3>1. I \subseteq Nat
      BY DEF I
    <3>2. PICK i \in I : \A j \in I : ~(<<j, i>> \in Less)
      BY <1>2, <2>0, <3>1, WFMin
    <3>3. \A m, n \in Nat : n < m => <<n, m>> \in Less
      BY DEF Less
    <3>. HIDE DEF Less
    <3>4. \A j \in I : i <= j
      <4>. SUFFICES ASSUME NEW j \in I PROVE i <= j
        OBVIOUS
      <4>1. i \in Nat /\ j \in Nat /\ ~(j < i)
        BY <3>1, <3>2, <3>3
      <4>. QED
        BY <4>1
    <3>. QED
      BY <3>4
  <2>2. k = Chk!Min(I)
    BY <1>2 DEF Chk!SelectInSeq
  <2>3. k \in I
    <3>. HIDE DEF I, k
    <3>. QED
      BY <2>1, <2>2 DEF Chk!Min
  <2>4. k \in 1 .. Len(s) /\ Test(s[k])
    BY <2>3
  <2>7. Chk!RemoveAt(s, k) \in Seq(S)
    <3>. HIDE DEF k
    <3>1. SubSeq(s, 1, k - 1) \in Seq(S)
      BY <2>4
    <3>2. SubSeq(s, k + 1, Len(s)) \in Seq(S)
      BY <2>4
    <3>. QED
      BY <3>1, <3>2, ConcatProperties DEF Chk!RemoveAt
  <2>. QED
    BY <2>4, <2>7 DEF Chk!RemoveFirstMatch
<1>. QED
  BY <1>1, <1>2

-----------------------------------------------------------------------------
(* The server is the message loop: each of its steps is one of the loop's.  *)

\* The client's steps, and those between the client and the loop.
LEMMA SameClient ==
    /\ \A kind \in Srv!Requests : Srv!SendRequest(kind) => Loop!SendRequest(kind)
    /\ \A note : Srv!SendNote(note) => Loop!SendNote(note)
    /\ \A r : Srv!SendCancel(r) => Loop!SendCancel(r)
    /\ Srv!SendResponse => Loop!SendResponse
    /\ Srv!SendExit => Loop!SendExit
    /\ Srv!Disconnect => Loop!Disconnect
<1>. USE DEF Srv!Send, Loop!Send, Srv!serverVars, Loop!serverVars, Srv!loopVars, Loop!loopVars,
         Srv!passVars, Loop!passVars, Srv!answerVars, Loop!answerVars,
         Srv!ShutdownSent, Loop!ShutdownSent
<1>1. \A kind \in Srv!Requests : Srv!SendRequest(kind) => Loop!SendRequest(kind)
  BY DEF Srv!SendRequest, Loop!SendRequest
<1>2. \A note : Srv!SendNote(note) => Loop!SendNote(note)
  BY DEF Srv!SendNote, Loop!SendNote
<1>3. \A r : Srv!SendCancel(r) => Loop!SendCancel(r)
  BY DEF Srv!SendCancel, Loop!SendCancel
<1>4. Srv!SendResponse => Loop!SendResponse
  BY DEF Srv!SendResponse, Loop!SendResponse
<1>5. Srv!SendExit => Loop!SendExit
  BY DEF Srv!SendExit, Loop!SendExit
<1>6. Srv!Disconnect => Loop!Disconnect
  BY DEF Srv!Disconnect, Loop!Disconnect
<1>. QED
  BY <1>1, <1>2, <1>3, <1>4, <1>5, <1>6

\* The steps of the loop.
LEMMA SameLoop ==
    /\ Srv!Receive => Loop!Receive
    /\ Srv!RefuseCancelled => Loop!RefuseCancelled
    /\ Srv!ServeRequest => Loop!ServeRequest
    /\ Srv!ServeShutdown => Loop!ServeShutdown
    /\ Srv!LeaveAfterShutdown => Loop!LeaveAfterShutdown
    /\ Srv!Notify => Loop!Notify
    /\ Srv!Ignore => Loop!Ignore
    /\ Srv!Publish => Loop!Publish
    /\ Srv!ClientGone => Loop!ClientGone
<1>. USE DEF Srv!Pop, Loop!Pop, Srv!clientVars, Loop!clientVars, Srv!passVars, Loop!passVars,
         Srv!answerVars, Loop!answerVars, Srv!IsCancelled, Loop!IsCancelled,
         Srv!Reply, Loop!Reply, Srv!Saw, Loop!Saw, Srv!Dropped, Loop!Dropped,
         Srv!Filled, Loop!Filled, Srv!Answer, Loop!Answer, Srv!Quiet, Loop!Quiet
<1>1. Srv!Receive => Loop!Receive
  BY DEF Srv!Receive, Loop!Receive
<1>2. Srv!RefuseCancelled => Loop!RefuseCancelled
  BY DEF Srv!RefuseCancelled, Loop!RefuseCancelled, Srv!Requests, Loop!Requests
<1>3. Srv!ServeRequest => Loop!ServeRequest
  BY DEF Srv!ServeRequest, Loop!ServeRequest
<1>4. Srv!ServeShutdown => Loop!ServeShutdown
  BY DEF Srv!ServeShutdown, Loop!ServeShutdown
<1>5. Srv!LeaveAfterShutdown => Loop!LeaveAfterShutdown
  BY DEF Srv!LeaveAfterShutdown, Loop!LeaveAfterShutdown
<1>6. Srv!Notify => Loop!Notify
  BY DEF Srv!Notify, Loop!Notify
<1>7. Srv!Ignore => Loop!Ignore
  BY DEF Srv!Ignore, Loop!Ignore
<1>8. Srv!Publish => Loop!Publish
  BY DEF Srv!Publish, Loop!Publish
<1>9. Srv!ClientGone => Loop!ClientGone
  BY DEF Srv!ClientGone, Loop!ClientGone
<1>. QED
  BY <1>1, <1>2, <1>3, <1>4, <1>5, <1>6, <1>7, <1>8, <1>9

\* The steps of a pass, and of a formatting thread.
LEMMA SamePass ==
    /\ Srv!PublishUninferred => Loop!PublishUninferred
    /\ Srv!BeginPass => Loop!BeginPass
    /\ Srv!PickFile => Loop!PickFile
    /\ Srv!ReadFile => Loop!ReadFile
    /\ Srv!EndWalk => Loop!EndWalk
    /\ Srv!AnswerInferring => Loop!AnswerInferring
    /\ Srv!IgnoreInferring => Loop!IgnoreInferring
    /\ Srv!StopForMessage => Loop!StopForMessage
    /\ Srv!StopForCheck => Loop!StopForCheck
    /\ Srv!StopForNobody => Loop!StopForNobody
    /\ Srv!EndPass => Loop!EndPass
    /\ \A r : Srv!FormatDone(r) => Loop!FormatDone(r)
<1>. USE DEF Srv!clientVars, Loop!clientVars, Srv!passVars, Loop!passVars,
         Srv!answerVars, Loop!answerVars, Srv!Reply, Loop!Reply, Srv!Saw, Loop!Saw,
         Srv!Filled, Loop!Filled, Srv!Answer, Loop!Answer, Srv!Quiet, Loop!Quiet,
         Srv!Overhear, Loop!Overhear
<1>1. Srv!PublishUninferred => Loop!PublishUninferred
  BY DEF Srv!PublishUninferred, Loop!PublishUninferred
<1>2. Srv!BeginPass => Loop!BeginPass
  BY DEF Srv!BeginPass, Loop!BeginPass
<1>3. Srv!PickFile => Loop!PickFile
  BY DEF Srv!PickFile, Loop!PickFile
<1>4. Srv!ReadFile => Loop!ReadFile
  BY DEF Srv!ReadFile, Loop!ReadFile
<1>5. Srv!EndWalk => Loop!EndWalk
  BY DEF Srv!EndWalk, Loop!EndWalk
<1>6. Srv!AnswerInferring => Loop!AnswerInferring
  BY DEF Srv!AnswerInferring, Loop!AnswerInferring
<1>7. Srv!IgnoreInferring => Loop!IgnoreInferring
  BY DEF Srv!IgnoreInferring, Loop!IgnoreInferring
<1>8. Srv!StopForMessage => Loop!StopForMessage
  BY DEF Srv!StopForMessage, Loop!StopForMessage
<1>9. Srv!StopForCheck => Loop!StopForCheck
  BY DEF Srv!StopForCheck, Loop!StopForCheck
<1>10. Srv!StopForNobody => Loop!StopForNobody
  BY DEF Srv!StopForNobody, Loop!StopForNobody
<1>11. Srv!EndPass => Loop!EndPass
  BY DEF Srv!EndPass, Loop!EndPass
<1>12. \A r : Srv!FormatDone(r) => Loop!FormatDone(r)
  BY DEF Srv!FormatDone, Loop!FormatDone
<1>. QED
  BY <1>1, <1>2, <1>3, <1>4, <1>5, <1>6, <1>7, <1>8, <1>9, <1>10, <1>11, <1>12

-----------------------------------------------------------------------------
(* Types of what Janet and inference find.                                  *)

\* Nothing, as a record of what was found where.
LEMMA NothingFound == Failed \in Problems /\ NoFacts \in [mode : Settings \cup {"off"},
              reads : UNION {[S -> [text : Anything, names : Anything]] : S \in SUBSET Uri}]
<1>1. \A X : <<>> \in [{} -> X]
  OBVIOUS
<1>2. {} \in SUBSET Uri
  OBVIOUS
<1>3. \A X : <<>> \in UNION {[S -> X] : S \in SUBSET Uri}
  BY <1>1, <1>2
<1>4. Failed \in Problems
  BY <1>3 DEF Failed, Problems, Anything
<1>. QED
  BY <1>3, <1>4 DEF NoFacts

\* Marks that are taken off, and what is not compiled yet.
LEMMA ClearType ==
    /\ Clear \in Shown
    /\ NotCompiled \in [version : Version \cup {0}, problems : Problems]
BY NothingFound DEF Clear, Shown, NotCompiled

\* What inference reads a file's types from.
LEMMA FactsType ==
    ASSUME NEW texts \in [Uri -> Anything], NEW names \in [Uri -> Anything],
           NEW mode \in Settings, NEW u \in Uri
    PROVE  Facts(texts, names, mode, u) \in [mode : Settings \cup {"off"},
              reads : UNION {[S -> [text : Anything, names : Anything]] : S \in SUBSET Uri}]
<1>1. {u} \cup Reads[u] \in SUBSET Uri
  BY LanguageServerAssumption DEF LanguageServerAssumption
<1>2. [f \in {u} \cup Reads[u] |-> [text |-> texts[f], names |-> names[f]]]
          \in [{u} \cup Reads[u] -> [text : Anything, names : Anything]]
  BY <1>1
<1>. QED
  BY <1>1, <1>2 DEF Facts

\* The marks of a buffer.
LEMMA BufferMarksType ==
    ASSUME TypedState,
           NEW found \in [Uri -> [version : Version \cup {0}, problems : Problems]],
           NEW names \in [Uri -> Anything], NEW u \in Uri
    PROVE  BufferMarks(u, found, names) \in Shown
<1>1. found[u].version \in Version \cup {0} /\ found[u].problems \in Problems
  OBVIOUS
<1>. QED
  BY <1>1, NothingFound, FactsType DEF BufferMarks, Shown, TypedState

\* The marks of a project file.
LEMMA ProjectMarksType ==
    ASSUME TypedState, NEW u \in Uri
    PROVE  ProjectMarks(u) \in Shown
BY NothingFound, FactsType DEF ProjectMarks, Shown, TypedState

\* What Janet makes of a buffer: of its text and of the imports on disk.
LEMMA ReportType ==
    ASSUME TypedEditor, NEW job \in Job
    PROVE  /\ [text |-> job.text, against |-> [f \in Reads[job.uri] |-> disk[f]]] \in Problems
           /\ [f \in Loads(job.uri) \cup {job.uri} |->
                  IF f = job.uri THEN job.text ELSE disk[f]]
                 \in UNION {[S -> Text] : S \in SUBSET Uri}
<1>1. job.uri \in Uri /\ job.text \in Text /\ Reads[job.uri] \in SUBSET Uri
  BY LanguageServerAssumption DEF LanguageServerAssumption, Job
<1>2. [f \in Reads[job.uri] |-> disk[f]] \in [Reads[job.uri] -> Anything]
  BY <1>1 DEF TypedEditor
<1>3. \A f \in Loads(job.uri) : f \in Uri /\ disk[f] \in Text
  BY <1>1 DEF Loads, TypedEditor, Anything
<1>4. Loads(job.uri) \cup {job.uri} \in SUBSET Uri
  BY <1>1, <1>3
<1>5. [f \in Loads(job.uri) \cup {job.uri} |-> IF f = job.uri THEN job.text ELSE disk[f]]
          \in [Loads(job.uri) \cup {job.uri} -> Text]
  BY <1>1, <1>3
<1>. QED
  BY <1>1, <1>2, <1>4, <1>5 DEF Problems, Anything

-----------------------------------------------------------------------------
(* Each step keeps the types.                                               *)

\* What the checking thread leaves alone.
LEMMA CheckerFrame ==
    ASSUME CheckerThread
    PROVE  /\ UNCHANGED <<inbox, queue, connected, pc, asking, projectStale, listening, stop, walk,
                          left, formatting, lastId, notes, applied, asked, seen, replies>>
           /\ UNCHANGED editorVars /\ UNCHANGED <<shown, stateVars>> /\ pc # "stopped"
BY DEF CheckerThread, editorVars

\* Jobs of whatever kind stay of that kind while they are taken off the channel,
\* gathered and settled.
LEMMA GatherKeeps ==
    ASSUME NEW S, jobs \in Seq(S), pending \in Seq(S), Chk!TakeFirst \/ Chk!Gather \/ Chk!Settle
    PROVE  /\ jobs' \in Seq(S) /\ pending' \in Seq(S)
           /\ phase' \in {"gathering", "checking"} /\ UNCHANGED results
<1>1. ASSUME jobs # <<>> PROVE Head(jobs) \in S /\ Tail(jobs) \in Seq(S)
  BY <1>1
<1>2. CASE Chk!TakeFirst
  BY <1>1, <1>2 DEF Chk!TakeFirst
<1>3. CASE Chk!Gather
  <2>. DEFINE Same(queued) == queued.uri = Head(jobs).uri
  <2>1. Chk!RemoveFirstMatch(pending, Same) \in Seq(S)
    <3>. HIDE DEF Same
    <3>. QED
      BY WithoutType
  <2>2. pending' = Append(Chk!RemoveFirstMatch(pending, Same), Head(jobs))
    BY <1>3 DEF Chk!Gather
  <2>3. pending' \in Seq(S)
    BY <1>1, <1>3, <2>1, <2>2 DEF Chk!Gather
  <2>. QED
    BY <1>1, <1>3, <2>3 DEF Chk!Gather
<1>4. CASE Chk!Settle
  <2>1. Chk!Reverse(pending) \in Seq(S)
    BY DEF Chk!Reverse
  <2>. QED
    BY <1>4, <2>1 DEF Chk!Settle
<1>. QED
  BY <1>2, <1>3, <1>4

\* A report that comes back is one, with the buffer and the version it is about.
LEMMA CheckTyped ==
    ASSUME TypedChecker, TypedEditor, pending # <<>>, loaded' \in [Uri -> Anything],
           NEW report \in Report, Chk!CheckOne(report)
    PROVE  /\ TypedChecker'
           /\ \E checked \in Checked : results' = Append(results, checked)
<1>1. Head(pending) \in Job /\ Tail(pending) \in Seq(Job)
  BY DEF TypedChecker
<1>2. TypedChecker'
  BY <1>1 DEF TypedChecker, Chk!CheckOne
<1>. DEFINE checked == [uri |-> Head(pending).uri, version |-> Head(pending).version,
                        report |-> report]
<1>3. checked \in Checked
  BY <1>1 DEF Checked, Job
<1>4. results' = Append(results, checked)
  BY DEF Chk!CheckOne
<1>. QED
  BY <1>2, <1>3, <1>4

\* The checking thread keeps its types, and does what the loop expects of it.
LEMMA CheckerTyped ==
    ASSUME TypedChecker, TypedEditor, CheckerThread
    PROVE  /\ TypedChecker'
           /\ UNCHANGED results \/ \E checked \in Checked : Loop!CheckDone(checked)
<1>1. CASE (Chk!TakeFirst \/ Chk!Gather \/ Chk!Settle) /\ UNCHANGED loaded
  BY <1>1, GatherKeeps DEF TypedChecker
<1>2. ASSUME \E checked \in Checked : results' = Append(results, checked)
      PROVE  \E checked \in Checked : Loop!CheckDone(checked)
  BY <1>2, CheckerFrame DEF Loop!CheckDone, Loop!clientVars, Loop!passVars, Loop!answerVars
<1>3. CASE pending # <<>> /\ Checks(Head(pending))
  <2>. DEFINE job == Head(pending)
              report == [problems |-> [text |-> job.text,
                                       against |-> [f \in Reads[job.uri] |-> disk[f]]],
                         bindings |-> [f \in Loads(job.uri) \cup {job.uri} |->
                                          IF f = job.uri THEN job.text ELSE disk[f]]]
  <2>1. job \in Job
    BY <1>3 DEF TypedChecker
  <2>2. report \in Report
    BY <2>1, ReportType DEF Report
  <2>3. Chk!CheckOne(report)
    BY <1>3 DEF Checks
  <2>4. loaded' \in [Uri -> Anything]
    BY <1>3 DEF Checks, TypedChecker, TypedEditor
  <2>. HIDE DEF report
  <2>. QED
    BY <1>2, <1>3, <2>2, <2>3, <2>4, CheckTyped
<1>4. CASE CheckFails
  <2>. DEFINE report == [problems |-> Failed, bindings |-> <<>>]
  <2>1. report \in Report
    <3>1. <<>> \in [{} -> Text] /\ {} \in SUBSET Uri
      OBVIOUS
    <3>. QED
      BY <3>1, NothingFound DEF Report
  <2>2. Chk!CheckOne(report) /\ pending # <<>>
    BY <1>4 DEF CheckFails, Chk!CheckOne
  <2>3. loaded' \in [Uri -> Anything]
    BY <1>4 DEF CheckFails, TypedChecker, Anything
  <2>. HIDE DEF report
  <2>. QED
    BY <1>2, <2>1, <2>2, <2>3, CheckTyped
<1>. QED
  BY <1>1, <1>3, <1>4 DEF CheckerThread

\* The user's steps.
LEMMA EditorTyped ==
    ASSUME TypedEditor, Editor
    PROVE  /\ TypedEditor' /\ UNCHANGED <<checkerVars, shown, stateVars>>
           /\ Loop!Client \/ UNCHANGED Loop!vars
<1>. USE LanguageServerAssumption DEF LanguageServerAssumption
<1>1. UNCHANGED <<checkerVars, shown, stateVars>>
  BY DEF Editor
<1>2. ASSUME NEW note \in Notification, Srv!SendNote(note) PROVE Loop!Client
  BY <1>2, SameClient DEF Loop!Client
<1>3. ASSUME NEW u \in Uri, NEW text \in Text, EditorOpens(u, text)
      PROVE  TypedEditor' /\ Loop!Client
  <2>. DEFINE version == IF FreshVersions THEN buffer[u].version + 1 ELSE 1
              note == [what |-> "open", uri |-> u, version |-> version, text |-> text]
  <2>1. version \in Version
    BY <1>3 DEF EditorOpens, TypedEditor, Version
  <2>2. note \in Notification
    BY <2>1 DEF Notification
  <2>3. Srv!SendNote(note) /\ buffer' = [buffer EXCEPT ![u] = [version |-> version, text |-> text]]
    BY <1>3 DEF EditorOpens
  <2>. HIDE DEF note, version
  <2>4. TypedEditor'
    BY <1>3, <2>1, <2>3 DEF EditorOpens, TypedEditor, Anything
  <2>. QED
    BY <1>2, <2>2, <2>3, <2>4
<1>4. ASSUME NEW u \in Uri, NEW text \in Text, EditorEdits(u, text)
      PROVE  TypedEditor' /\ Loop!Client
  <2>. DEFINE version == buffer[u].version + 1
              note == [what |-> "change", uri |-> u, version |-> version, text |-> text]
  <2>1. version \in Version
    BY <1>4 DEF EditorEdits, TypedEditor, Version
  <2>2. note \in Notification
    BY <2>1 DEF Notification
  <2>3. Srv!SendNote(note) /\ buffer' = [buffer EXCEPT ![u] = [version |-> version, text |-> text]]
    BY <1>4 DEF EditorEdits
  <2>. HIDE DEF note, version
  <2>4. TypedEditor'
    BY <1>4, <2>1, <2>3 DEF EditorEdits, TypedEditor, Anything
  <2>. QED
    BY <1>2, <2>2, <2>3, <2>4
<1>5. ASSUME NEW u \in Uri, EditorCloses(u)
      PROVE  TypedEditor' /\ Loop!Client
  <2>1. [what |-> "close", uri |-> u] \in Notification
    BY DEF Notification
  <2>2. TypedEditor'
    BY <1>5 DEF EditorCloses, TypedEditor, Anything
  <2>. QED
    BY <1>2, <1>5, <2>1, <2>2 DEF EditorCloses
<1>6. ASSUME NEW u \in Uri, NEW text \in Anything, DiskChanges(u, text)
      PROVE  TypedEditor' /\ (Loop!Client \/ UNCHANGED Loop!vars)
  <2>. DEFINE note == [what |-> IF disk[u] = NoText THEN "created"
                                ELSE IF text = NoText THEN "deleted" ELSE "changed", uri |-> u]
  <2>1. note \in Notification
    BY DEF Notification
  <2>2. TypedEditor'
    BY <1>6 DEF DiskChanges, TypedEditor
  <2>3. Srv!SendNote(note) \/ UNCHANGED serveVars
    BY <1>6 DEF DiskChanges
  <2>4. UNCHANGED serveVars => UNCHANGED Loop!vars
    BY DEF serveVars, Loop!vars
  <2>. HIDE DEF note
  <2>. QED
    BY <1>2, <2>1, <2>2, <2>3, <2>4
<1>7. ASSUME NEW types \in Settings, EditorConfigures(types)
      PROVE  TypedEditor' /\ Loop!Client
  <2>1. [what |-> "configure", settings |-> types] \in Notification
    BY DEF Notification
  <2>2. TypedEditor'
    BY <1>7 DEF EditorConfigures, TypedEditor, editorVars
  <2>. QED
    BY <1>2, <1>7, <2>1, <2>2 DEF EditorConfigures
<1>8. ASSUME \/ \E kind \in Srv!Requests : Srv!SendRequest(kind)
             \/ \E r \in Srv!Request : Srv!SendCancel(r)
             \/ Srv!SendResponse \/ Srv!SendExit \/ Srv!Disconnect,
             UNCHANGED editorVars
      PROVE  TypedEditor' /\ Loop!Client
  <2>1. TypedEditor'
    BY <1>8 DEF TypedEditor, editorVars
  <2>2. Loop!Client
    BY <1>8, SameClient DEF Loop!Client, Srv!Requests, Loop!Requests, Srv!Request, Loop!Request
  <2>. QED
    BY <2>1, <2>2
<1>. QED
  BY <1>1, <1>3, <1>4, <1>5, <1>6, <1>7, <1>8 DEF Editor

\* Jobs are queued for buffers that are open after the step, in a version there is.
LEMMA CheckJobs ==
    ASSUME jobs \in Seq(Job), NEW uris \in SUBSET Uri, Check(uris),
           open' \in [Uri -> Version \cup {0}], index' \in [Uri -> Anything],
           \A u \in uris : open'[u] # 0 /\ index'[u] \in Text
    PROVE  \E batch \in Seq(Job) :
              /\ jobs' = jobs \o batch
              /\ \A i \in DOMAIN batch : /\ batch[i].uri \in uris
                                         /\ batch[i].version = open'[batch[i].uri]
                                         /\ batch[i].text = index'[batch[i].uri]
<1>1. PICK order \in SetToSeqs(uris \ CoreSource) :
          Chk!Submit([i \in DOMAIN order |->
              [uri |-> order[i], version |-> open'[order[i]], text |-> index'[order[i]]]])
  BY DEF Check
<1>. DEFINE batch == [i \in DOMAIN order |->
              [uri |-> order[i], version |-> open'[order[i]], text |-> index'[order[i]]]]
<1>2. batch \in Seq(Job) /\ \A i \in DOMAIN order : order[i] \in uris
  BY BatchType
<1>3. jobs' = jobs \o batch
  BY <1>1 DEF Chk!Submit
<1>4. \A i \in DOMAIN batch : /\ batch[i].uri \in uris
                              /\ batch[i].version = open'[batch[i].uri]
                              /\ batch[i].text = index'[batch[i].uri]
  BY <1>2
<1>. QED
  BY <1>2, <1>3, <1>4

\* So what is queued is a sequence of jobs.
LEMMA CheckType ==
    ASSUME jobs \in Seq(Job), NEW uris \in SUBSET Uri, Check(uris),
           open' \in [Uri -> Version \cup {0}], index' \in [Uri -> Anything],
           \A u \in uris : open'[u] # 0 /\ index'[u] \in Text
    PROVE  jobs' \in Seq(Job)
<1>1. PICK batch \in Seq(Job) : jobs' = jobs \o batch
  BY CheckJobs
<1>. QED
  BY <1>1

\* didOpen and didChange.
LEMMA SyncTextTyped ==
    ASSUME TypedState, TypedMarks, jobs \in Seq(Job), OpenTexts, NEW n,
           n.what \in {"open", "change"} =>
               n.uri \in Uri /\ n.version \in Version /\ n.text \in Text,
           SyncText(n), UNCHANGED watching
    PROVE  TypedState' /\ TypedMarks' /\ jobs' \in Seq(Job) /\ OpenTexts'
<1>1. n.uri \in Uri /\ n.version \in Version /\ n.text \in Text /\ n.version # 0
  BY DEF SyncText, Version
<1>2. open' = [open EXCEPT ![n.uri] = n.version] /\ open' \in [Uri -> Version \cup {0}]
  BY <1>1 DEF SyncText, TypedState
<1>3. index' = [index EXCEPT ![n.uri] = n.text] /\ index' \in [Uri -> Anything]
  BY <1>1 DEF SyncText, TypedState, Anything
<1>4. \A u \in Uri : open[u] # 0 => open'[u] # 0
  BY <1>1, <1>2 DEF TypedState
<1>5. open'[n.uri] # 0 /\ index'[n.uri] \in Text
  BY <1>1, <1>2, <1>3 DEF TypedState
<1>6. jobs' \in Seq(Job)
  <2>1. Check({n.uri}) /\ {n.uri} \in SUBSET Uri
    BY <1>1 DEF SyncText
  <2>. QED
    BY <1>2, <1>3, <1>5, <2>1, CheckType
<1>7. indexed' \subseteq {u \in Uri : open'[u] # 0}
  BY <1>1, <1>4, <1>5 DEF SyncText, TypedState
<1>8. retype' \subseteq {u \in Uri : open'[u] # 0}
  BY <1>1, <1>4 DEF SyncText, TypedState, OpenImporters, IsOpen
<1>9. TypedState' /\ TypedMarks'
  BY <1>2, <1>3, <1>7, <1>8 DEF SyncText, TypedState, TypedMarks
<1>10. OpenTexts'
  BY <1>1, <1>2, <1>3 DEF OpenTexts, IsOpen, TypedState
<1>. QED
  BY <1>6, <1>9, <1>10

\* didClose.
LEMMA SyncCloseTyped ==
    ASSUME TypedState, TypedMarks, TypedEditor, jobs \in Seq(Job), OpenTexts, NEW n,
           n.what = "close" => n.uri \in Uri,
           SyncClose(n), UNCHANGED watching
    PROVE  TypedState' /\ TypedMarks' /\ jobs' \in Seq(Job) /\ OpenTexts'
<1>1. n.uri \in Uri
  BY DEF SyncClose
<1>2. open' = [open EXCEPT ![n.uri] = 0] /\ open' \in [Uri -> Version \cup {0}]
  BY <1>1 DEF SyncClose, TypedState
<1>3. Restored(n.uri) \in Anything
  BY <1>1 DEF Restored, TypedEditor, Anything
<1>. DEFINE restored == [index EXCEPT ![n.uri] = Restored(n.uri)]
<1>4. restored \in [Uri -> Anything] /\ \A u \in Uri \ {n.uri} : restored[u] = index[u]
  BY <1>1, <1>3 DEF TypedState
<1>5. /\ index' \in [Uri -> Anything]
      /\ \A u \in Uri : open'[u] # 0 => index'[u] = index[u]
  <2>. HIDE DEF restored
  <2>1. /\ Rescanned(restored, open') \in [Uri -> Anything]
        /\ \A u \in Uri : open'[u] # 0 => Rescanned(restored, open')[u] = restored[u]
    BY <1>4 DEF Rescanned, TypedEditor, Anything
  <2>2. index' = restored \/ index' = Rescanned(restored, open')
    BY DEF SyncClose, restored
  <2>3. \A u \in Uri : open'[u] # 0 => u # n.uri
    BY <1>1, <1>2 DEF TypedState
  <2>. QED
    BY <1>4, <2>1, <2>2, <2>3
<1>6. indexed' \subseteq {u \in Uri : open'[u] # 0}
  BY <1>1, <1>2 DEF SyncClose, TypedState
<1>7. retype' \subseteq {u \in Uri : open'[u] # 0}
  BY <1>1, <1>2 DEF SyncClose, TypedState, OpenImporters, IsOpen
<1>8. TypedState'
  BY <1>2, <1>5, <1>6, <1>7 DEF SyncClose, TypedState
<1>9. TypedMarks'
  BY <1>1, ClearType DEF SyncClose, TypedMarks
<1>10. OpenTexts'
  BY <1>1, <1>2, <1>5 DEF OpenTexts, IsOpen, TypedState
<1>. QED
  BY <1>8, <1>9, <1>10 DEF SyncClose

\* didChangeWatchedFiles.
LEMMA SyncDiskTyped ==
    ASSUME TypedState, TypedMarks, TypedEditor, jobs \in Seq(Job), OpenTexts, NEW n,
           n.what \in {"created", "changed", "deleted"} => n.uri \in Uri,
           SyncDisk(n), UNCHANGED watching
    PROVE  TypedState' /\ TypedMarks' /\ jobs' \in Seq(Job) /\ OpenTexts'
<1>1. n.uri \in Uri /\ open' = open
  BY DEF SyncDisk
<1>2. /\ index' \in [Uri -> Anything]
      /\ \A u \in Uri : open[u] # 0 => index'[u] = index[u]
  <2>. DEFINE read == IF n.what = "deleted" THEN NoText ELSE disk[n.uri]
  <2>1. read \in Anything
    BY <1>1 DEF TypedEditor, Anything
  <2>2. index' = index \/ (open[n.uri] = 0 /\ index' = [index EXCEPT ![n.uri] = read])
    <3>. DEFINE known == IF n.what = "created" THEN disk[n.uri] # NoText
                         ELSE index[n.uri] # NoText
    <3>1. index' = IF ~known \/ IsOpen(n.uri) THEN index ELSE [index EXCEPT ![n.uri] = read]
      BY DEF SyncDisk
    <3>. HIDE DEF known, read
    <3>. QED
      BY <3>1 DEF IsOpen
  <2>. HIDE DEF read
  <2>. QED
    BY <1>1, <2>1, <2>2 DEF TypedState
<1>3. indexed' \subseteq {u \in Uri : open[u] # 0}
  BY <1>1 DEF SyncDisk, TypedState, IsOpen
<1>4. jobs' \in Seq(Job)
  <2>1. PICK uris \in SUBSET Uri : Check(uris) /\ \A u \in uris : open[u] # 0
    BY <1>1 DEF SyncDisk, OpenImporters, IsOpen
  <2>2. \A u \in uris : open'[u] # 0 /\ index'[u] \in Text
    BY <1>1, <1>2, <2>1 DEF OpenTexts, IsOpen
  <2>. QED
    BY <1>1, <1>2, <2>1, <2>2, CheckType DEF TypedState
<1>5. TypedState' /\ TypedMarks'
  BY <1>1, <1>2, <1>3 DEF SyncDisk, TypedState, TypedMarks
<1>6. OpenTexts'
  BY <1>1, <1>2 DEF OpenTexts, IsOpen
<1>. QED
  BY <1>4, <1>5, <1>6

\* didChangeConfiguration.
LEMMA SyncSettingsTyped ==
    ASSUME TypedState, TypedMarks, jobs \in Seq(Job), OpenTexts, NEW n,
           n.what = "configure" => n.settings \in Settings,
           SyncSettings(n), UNCHANGED watching
    PROVE  TypedState' /\ TypedMarks' /\ jobs' \in Seq(Job) /\ OpenTexts'
<1>1. open' = open /\ index' = index /\ n.settings \in Settings /\ settings' = n.settings
  BY DEF SyncSettings
<1>2. jobs' \in Seq(Job)
  <2>1. PICK uris \in SUBSET Uri : Check(uris) /\ \A u \in uris : open[u] # 0
    BY DEF SyncSettings, IsOpen
  <2>2. \A u \in uris : open'[u] # 0 /\ index'[u] \in Text
    BY <1>1, <2>1 DEF OpenTexts, IsOpen
  <2>. QED
    BY <1>1, <2>1, <2>2, CheckType DEF TypedState
<1>3. TypedState' /\ TypedMarks' /\ OpenTexts'
  BY <1>1 DEF SyncSettings, TypedState, TypedMarks, OpenTexts, IsOpen
<1>. QED
  BY <1>2, <1>3

\* The state follows a notification.
LEMMA SyncTyped ==
    ASSUME Typed, Sync
    PROVE  TypedState' /\ TypedMarks' /\ TypedChecker' /\ OpenTexts'
<1>. DEFINE n == Head(queue).note
<1>1. /\ SyncText(n) \/ SyncClose(n) \/ SyncDisk(n) \/ SyncSettings(n)
      /\ UNCHANGED <<pending, phase, loaded, watching>>
  BY DEF Sync
<1>2. /\ n.what \in {"open", "change"} =>
             n.uri \in Uri /\ n.version \in Version /\ n.text \in Text
      /\ n.what \in {"close", "created", "changed", "deleted"} => n.uri \in Uri
      /\ n.what = "configure" => n.settings \in Settings
  BY NoteType DEF Typed, Sync
<1>. HIDE DEF n
<1>3. TypedState' /\ TypedMarks' /\ jobs' \in Seq(Job) /\ OpenTexts'
  <2>. USE DEF Typed, TypedChecker
  <2>1. CASE SyncText(n)
    BY <1>1, <1>2, <2>1, SyncTextTyped
  <2>2. CASE SyncClose(n)
    BY <1>1, <1>2, <2>2, SyncCloseTyped
  <2>3. CASE SyncDisk(n)
    BY <1>1, <1>2, <2>3, SyncDiskTyped
  <2>4. CASE SyncSettings(n)
    BY <1>1, <1>2, <2>4, SyncSettingsTyped
  <2>. QED
    BY <1>1, <2>1, <2>2, <2>3, <2>4
<1>. QED
  BY <1>1, <1>3 DEF Typed, TypedChecker

\* What comes back with a check, and what the names macros bind are then.
LEMMA CheckedType ==
    ASSUME Loop!TypeOK, results # <<>>
    PROVE  /\ Head(results) \in Checked
           /\ Head(results).uri \in Uri /\ Head(results).version \in Version
           /\ Head(results).report.problems \in Problems
           /\ Head(results).report.bindings \in UNION {[S -> Text] : S \in SUBSET Uri}
<1>1. Head(results) \in Checked
  BY DEF Loop!TypeOK, Loop!LoopTypeOK
<1>. QED
  BY <1>1 DEF Checked, Report

\* `publish`.
LEMMA PublishTyped ==
    ASSUME Typed, Publish
    PROVE  TypedState' /\ TypedMarks' /\ OpenTexts'
<1>. DEFINE checked == Head(results)
            bindings == checked.report.bindings
            found == [compiled EXCEPT ![checked.uri] = [version |-> checked.version,
                                                        problems |-> checked.report.problems]]
            names == [f \in Uri |-> IF f \in DOMAIN bindings THEN bindings[f] ELSE bound[f]]
<1>1. /\ checked.uri \in Uri /\ checked.version \in Version
      /\ checked.report.problems \in Problems
      /\ bindings \in UNION {[S -> Text] : S \in SUBSET Uri}
  BY CheckedType DEF Publish, Typed
<1>2. bound' = names
  BY DEF Publish
<1>3. names \in [Uri -> Anything]
  <2>1. PICK S \in SUBSET Uri : bindings \in [S -> Text]
    BY <1>1
  <2>2. \A f \in Uri : f \in DOMAIN bindings => bindings[f] \in Text
    BY <2>1
  <2>3. \A f \in Uri : bound[f] \in Anything
    BY DEF Typed, TypedState
  <2>. QED
    BY <2>2, <2>3 DEF Anything
<1>4. found \in [Uri -> [version : Version \cup {0}, problems : Problems]]
  BY <1>1 DEF Typed, TypedMarks
<1>5. UNCHANGED <<watching, open, indexed, index, settings, published>>
  BY DEF Publish
<1>6. \/ /\ compiled' = found
         /\ retype' = retype \ {checked.uri}
         /\ diagnostics' = [diagnostics EXCEPT ![checked.uri] =
                                BufferMarks(checked.uri, found, names)]
         /\ shown' = [shown EXCEPT ![checked.uri] = BufferMarks(checked.uri, found, names)]
      \/ UNCHANGED <<compiled, retype, diagnostics, shown>>
  BY <1>2 DEF Publish
<1>. HIDE DEF checked, bindings, found, names
<1>7. TypedState' /\ OpenTexts'
  BY <1>2, <1>3, <1>5, <1>6 DEF Typed, TypedState, OpenTexts, IsOpen
<1>8. BufferMarks(checked.uri, found, names) \in Shown
  BY <1>1, <1>3, <1>4, BufferMarksType DEF Typed
<1>9. TypedMarks'
  <2>. DEFINE marks == BufferMarks(checked.uri, found, names)
  <2>1. diagnostics \in [Uri -> Shown] /\ shown \in [Uri -> Shown] /\ marks \in Shown
    BY <1>8 DEF Typed, TypedMarks
  <2>. HIDE DEF marks
  <2>2. diagnostics' \in [Uri -> Shown] /\ shown' \in [Uri -> Shown]
    BY <1>6, <2>1 DEF marks
  <2>3. compiled' \in [Uri -> [version : Version \cup {0}, problems : Problems]]
    BY <1>4, <1>6 DEF Typed, TypedMarks
  <2>. QED
    BY <2>2, <2>3 DEF TypedMarks
<1>. QED
  BY <1>7, <1>9

\* The end of `publish_project`.
LEMMA FindingsTyped ==
    ASSUME TypedState, TypedMarks, OpenTexts, NEW fresh \in SUBSET Uri, NEW buffers \in SUBSET Uri,
           PublishFindings(fresh, buffers), retype' = {} \/ retype' = retype
    PROVE  TypedState' /\ TypedMarks' /\ OpenTexts'
<1>1. \A u \in Uri : BufferMarks(u, compiled, bound) \in Shown
  BY BufferMarksType DEF TypedState, TypedMarks
<1>2. \A u \in Uri : ProjectMarks(u) \in Shown
  BY ProjectMarksType
<1>3. TypedMarks'
  BY <1>1, <1>2, ClearType DEF PublishFindings, TypedMarks
<1>. QED
  BY <1>3 DEF PublishFindings, TypedState, OpenTexts, IsOpen

\* The end of a pass.
LEMMA PassTyped ==
    ASSUME Typed, PublishUninferred \/ EndPass
    PROVE  TypedState' /\ TypedMarks' /\ OpenTexts'
<1>1. CASE PublishUninferred
  BY <1>1, FindingsTyped DEF PublishUninferred, Typed
<1>2. CASE EndPass /\ walk = "finished"
  <2>. DEFINE buffers == {u \in retype : Publishable(u, compiled)}
  <2>1. Found \in SUBSET Uri /\ buffers \in SUBSET Uri
    BY DEF Found, Typed, TypedState
  <2>2. PublishFindings(Found, buffers) /\ retype' = {}
    BY <1>2 DEF EndPass
  <2>. HIDE DEF buffers
  <2>. QED
    BY <2>1, <2>2, FindingsTyped DEF Typed
<1>3. CASE EndPass /\ walk # "finished"
  BY <1>3 DEF EndPass, stateVars, Typed, TypedState, TypedMarks, OpenTexts, IsOpen
<1>. QED
  BY <1>1, <1>2, <1>3

\* What a step aside leaves alone.
LEMMA AsideTyped ==
    ASSUME Typed, UNCHANGED <<checkerVars, shown, stateVars>>
    PROVE  TypedState' /\ TypedMarks' /\ TypedChecker' /\ OpenTexts'
BY DEF Typed, TypedState, TypedMarks, TypedChecker, OpenTexts, IsOpen, checkerVars, stateVars

\* A step of the server is one of the loop's, and leaves the state alone but for
\* the four that work on it.
LEMMA ServerSteps ==
    ASSUME Server
    PROVE  /\ Loop!Loop \/ Loop!Pass \/ \E r \in Loop!Request : Loop!FormatDone(r)
           /\ \/ Sync \/ Publish \/ PublishUninferred \/ EndPass
              \/ UNCHANGED <<checkerVars, editorVars, shown, stateVars>>
           /\ UNCHANGED editorVars
<1>. USE SameLoop, SamePass DEF Loop!Loop, Loop!Pass
<1>. DEFINE step == Loop!Loop \/ Loop!Pass \/ \E r \in Loop!Request : Loop!FormatDone(r)
            rest == UNCHANGED <<checkerVars, editorVars, shown, stateVars>>
<1>1. CASE ServeMessages \/ Aside(Srv!Receive) \/ Aside(Srv!LeaveAfterShutdown)
           \/ Aside(Srv!ClientGone)
  BY <1>1 DEF ServeMessages, Aside
<1>2. CASE InferFiles \/ Overhear \/ Aside(Srv!StopForCheck) \/ Aside(Srv!StopForNobody)
  BY <1>2 DEF InferFiles, Overhear, Aside
<1>3. CASE \E r \in Srv!Request : Aside(Srv!FormatDone(r))
  BY <1>3 DEF Aside, Srv!Request, Loop!Request
<1>4. CASE BeginPass
  BY <1>4 DEF BeginPass
<1>5. CASE Sync
  BY <1>5 DEF Sync
<1>6. CASE Publish
  BY <1>6 DEF Publish
<1>7. CASE PublishUninferred
  BY <1>7 DEF PublishUninferred
<1>8. CASE EndPass
  BY <1>8 DEF EndPass
<1>. QED
  BY <1>1, <1>2, <1>3, <1>4, <1>5, <1>6, <1>7, <1>8 DEF Server

\* Every step is a step of the message loop, or none.
LEMMA LoopStep ==
    ASSUME Typed, [Next]_vars
    PROVE  [Loop!Unbounded]_(Loop!vars)
<1>1. CASE Editor
  BY <1>1, EditorTyped DEF Typed, Loop!Unbounded, Loop!Next
<1>2. CASE Server
  BY <1>2, ServerSteps DEF Loop!Unbounded, Loop!Next
<1>3. CASE CheckerThread
  <2>1. CASE UNCHANGED results
    BY <1>3, <2>1, CheckerFrame DEF Loop!vars
  <2>. QED
    BY <1>3, <2>1, CheckerTyped DEF Typed, Loop!Unbounded
<1>4. CASE UNCHANGED vars
  BY <1>4 DEF vars, serveVars, Loop!vars
<1>. QED
  BY <1>1, <1>2, <1>3, <1>4 DEF Next

\* The types are inductive.
LEMMA StepTyped == Typed /\ [Next]_vars => Typed'
<1>. SUFFICES ASSUME Typed, [Next]_vars PROVE Typed'
  OBVIOUS
<1>1. Loop!TypeOK'
  BY LoopStep, LoopAssumption, Loop!NextType DEF Typed
<1>2. CASE Editor
  BY <1>1, <1>2, EditorTyped, AsideTyped DEF Typed
<1>3. CASE Server
  <2>1. TypedEditor'
    BY <1>3, ServerSteps DEF Typed, TypedEditor, editorVars
  <2>2. TypedState' /\ TypedMarks' /\ TypedChecker' /\ OpenTexts'
    <3>1. CASE Publish \/ PublishUninferred \/ EndPass
      <4>1. UNCHANGED checkerVars
        BY <3>1 DEF Publish, PublishUninferred, EndPass
      <4>2. TypedChecker'
        BY <4>1 DEF Typed, TypedChecker, checkerVars
      <4>. QED
        BY <3>1, <4>2, PublishTyped, PassTyped
    <3>. QED
      BY <1>3, <3>1, ServerSteps, SyncTyped, AsideTyped
  <2>. QED
    BY <1>1, <2>1, <2>2 DEF Typed
<1>4. CASE CheckerThread
  <2>1. TypedEditor' /\ TypedState' /\ TypedMarks' /\ OpenTexts'
    BY <1>4, CheckerFrame
       DEF Typed, TypedEditor, TypedState, TypedMarks, OpenTexts, IsOpen, stateVars, editorVars
  <2>. QED
    BY <1>1, <1>4, <2>1, CheckerTyped DEF Typed
<1>5. CASE UNCHANGED vars
  <2>1. TypedEditor'
    BY <1>5 DEF vars, editorVars, Typed, TypedEditor
  <2>. QED
    BY <1>1, <1>5, <2>1, AsideTyped DEF vars, Typed
<1>. QED
  BY <1>2, <1>3, <1>4, <1>5 DEF Next

\* Nothing is under way at first.
LEMMA InitTyped == Init => Typed /\ Loop!Init
<1>. SUFFICES ASSUME Init PROVE Typed /\ Loop!Init
  OBVIOUS
<1>1. Loop!Init
  BY DEF Init, Srv!Init, Loop!Init, Srv!Request, Loop!Request, Srv!Unserved, Loop!Unserved
<1>2. Loop!TypeOK
  BY <1>1, LoopAssumption, Loop!InitType
<1>3. TypedEditor /\ TypedChecker
  <2>1. <<>> \in Seq(Job)
    OBVIOUS
  <2>. QED
    BY <2>1 DEF Init, Chk!CheckerInit, TypedEditor, TypedChecker, Anything
<1>4. TypedState
  BY DEF Init, TypedState, Anything
<1>5. TypedMarks
  BY ClearType DEF Init, TypedMarks
<1>6. OpenTexts
  BY DEF Init, OpenTexts, IsOpen
<1>. QED
  BY <1>1, <1>2, <1>3, <1>4, <1>5, <1>6 DEF Typed

LEMMA TypedAlways == Spec => []Typed
<1>1. Init => Typed
  BY InitTyped
<1>. QED
  BY <1>1, StepTyped, PTL DEF Spec

\* The variables of the server, its checking thread, its editor and the disk keep
\* their types, whatever the user types, saves and configures: what is checked has
\* a text, what is shown was found in texts there are.
THEOREM TypeCorrect == Spec => []TypeOK
<1>1. Typed => TypeOK
  BY DEF Typed, TypedEditor, TypedChecker, TypedState, TypedMarks, TypeOK,
     Loop!TypeOK, Srv!TypeOK, Loop!ClientTypeOK, Srv!ClientTypeOK, Loop!LoopTypeOK, Srv!LoopTypeOK,
     Loop!PassTypeOK, Srv!PassTypeOK, Loop!AnswerTypeOK, Srv!AnswerTypeOK, Loop!Message, Srv!Message,
     Loop!Request, Srv!Request, Loop!Requests, Srv!Requests, Loop!Unserved, Srv!Unserved
<1>. QED
  BY <1>1, TypedAlways, PTL

-----------------------------------------------------------------------------
(* What is proved of the message loop holds of the server.                  *)

\* The server implements the message loop of Serve.tla: what notifications, checks
\* and passes do to the state never gets in the way of a message.
THEOREM ServesAsLoop == Spec => Loop!Init /\ [][Loop!Unbounded]_(Loop!vars)
<1>1. Init => Loop!Init
  BY InitTyped
<1>2. Typed /\ [Next]_vars => [Loop!Unbounded]_(Loop!vars)
  BY LoopStep
<1>. QED
  BY <1>1, <1>2, TypedAlways, PTL DEF Spec

\* The stream of messages keeps its invariant.
LEMMA StreamAlways == Spec => []Loop!ServeInv
<1>1. Init => Loop!ServeInv
  BY InitTyped, LoopAssumption, Loop!InitInv
<1>2. Typed /\ Loop!ServeInv /\ [Next]_vars => Loop!ServeInv'
  <2>. SUFFICES ASSUME Typed, Loop!ServeInv, [Next]_vars PROVE Loop!ServeInv'
    OBVIOUS
  <2>1. Loop!TypeOK
    BY DEF Typed
  <2>. QED
    BY <2>1, LoopStep, LoopAssumption, Loop!NextInv
<1>. QED
  BY <1>1, <1>2, TypedAlways, PTL DEF Spec

\* In the server as a whole, too, no request is answered twice, and an answer
\* reflects exactly the notifications sent before its request, although their
\* handling queues checks and passes, and answers come in the middle of those.
THEOREM AnswersReflect == Spec => [](Srv!AnsweredOnce /\ Srv!SeesWhatPrecedes)
<1>1. Loop!ServeInv => Srv!AnsweredOnce /\ Srv!SeesWhatPrecedes
  BY DEF Loop!ServeInv, Loop!AnsweredOnce, Srv!AnsweredOnce, Loop!SeesWhatPrecedes,
     Srv!SeesWhatPrecedes, Loop!Request, Srv!Request, Loop!Unserved, Srv!Unserved
<1>. QED
  BY <1>1, StreamAlways, PTL

-----------------------------------------------------------------------------
(* The marks of buffers are on buffers.                                     *)

\* Publishing puts a buffer's marks only on what is open, and keeps what it shows.
LEMMA PublishGhosts ==
    ASSUME Typed, NoGhosts, Publish
    PROVE  NoGhosts'
<1>. DEFINE checked == Head(results)
            found == [compiled EXCEPT ![checked.uri] = [version |-> checked.version,
                                                        problems |-> checked.report.problems]]
            marks == BufferMarks(checked.uri, found, bound')
<1>1. UNCHANGED open
  BY DEF Publish
<1>2. CASE Current(checked)
  <2>1. /\ diagnostics' = [diagnostics EXCEPT ![checked.uri] = marks]
        /\ shown' = [shown EXCEPT ![checked.uri] = marks]
    BY <1>2 DEF Publish
  <2>2. IsOpen(checked.uri) /\ checked.uri \in Uri
    BY <1>2, CheckedType DEF Current, Typed, Publish
  <2>. HIDE DEF marks, checked
  <2>. QED
    BY <1>1, <2>1, <2>2 DEF NoGhosts, ClosedBare, KeptIsShown, IsOpen, Typed, TypedMarks
<1>3. CASE ~Current(checked)
  BY <1>1, <1>3 DEF Publish, NoGhosts, ClosedBare, KeptIsShown, IsOpen
<1>. QED
  BY <1>2, <1>3

\* So does the end of a pass: findings go to files nobody has open.
LEMMA FindingsGhosts ==
    ASSUME Typed, NoGhosts, NEW fresh \in SUBSET Uri, NEW buffers \in SUBSET Uri,
           \A u \in fresh : ~IsOpen(u), \A u \in buffers : IsOpen(u),
           PublishFindings(fresh, buffers)
    PROVE  NoGhosts'
<1>1. UNCHANGED open /\ Clear.by # "buffer"
  BY DEF PublishFindings, Clear
<1>2. ASSUME NEW u \in Uri
      PROVE  /\ shown'[u] = IF u \in fresh THEN ProjectMarks(u)
                            ELSE IF u \in Gone THEN Clear
                            ELSE IF u \in buffers THEN BufferMarks(u, compiled, bound)
                            ELSE shown[u]
             /\ diagnostics'[u] = IF u \in buffers THEN BufferMarks(u, compiled, bound)
                                  ELSE diagnostics[u]
             /\ u \in Gone => ~IsOpen(u)
             /\ ProjectMarks(u).by # "buffer"
  BY DEF PublishFindings, Gone, ProjectMarks
<1>3. ClosedBare'
  BY <1>1, <1>2 DEF ClosedBare, NoGhosts, IsOpen
<1>4. KeptIsShown'
  BY <1>1, <1>2 DEF KeptIsShown, NoGhosts, IsOpen
<1>. QED
  BY <1>3, <1>4 DEF NoGhosts

\* A notification takes a buffer's marks off when it closes the buffer.
LEMMA SyncGhosts ==
    ASSUME Typed, NoGhosts, Sync
    PROVE  NoGhosts'
<1>. DEFINE n == Head(queue).note
<1>1. /\ SyncText(n) \/ SyncClose(n) \/ SyncDisk(n) \/ SyncSettings(n)
      /\ n.what \in {"open", "change"} => n.uri \in Uri /\ n.version # 0
      /\ n.what = "close" => n.uri \in Uri
  BY NoteType DEF Sync, Typed, Version
<1>. HIDE DEF n
<1>2. CASE SyncText(n)
  <2>1. /\ open' = [open EXCEPT ![n.uri] = n.version] /\ UNCHANGED <<diagnostics, shown>>
        /\ n.uri \in Uri /\ n.version # 0
    BY <1>1, <1>2 DEF SyncText
  <2>. QED
    BY <2>1 DEF NoGhosts, ClosedBare, KeptIsShown, IsOpen, Typed, TypedState
<1>3. CASE SyncClose(n)
  <2>1. /\ open' = [open EXCEPT ![n.uri] = 0]
        /\ diagnostics' = [diagnostics EXCEPT ![n.uri] = Clear]
        /\ shown' = [shown EXCEPT ![n.uri] = Clear]
        /\ n.uri \in Uri /\ Clear.by # "buffer"
    BY <1>1, <1>3 DEF SyncClose, Clear
  <2>. QED
    BY <2>1 DEF NoGhosts, ClosedBare, KeptIsShown, IsOpen, Typed, TypedState, TypedMarks
<1>4. CASE SyncDisk(n) \/ SyncSettings(n)
  BY <1>4 DEF SyncDisk, SyncSettings, NoGhosts, ClosedBare, KeptIsShown, IsOpen
<1>. QED
  BY <1>1, <1>2, <1>3, <1>4

LEMMA StepGhosts == Typed /\ NoGhosts /\ [Next]_vars => NoGhosts'
<1>. SUFFICES ASSUME Typed, NoGhosts, [Next]_vars PROVE NoGhosts'
  OBVIOUS
<1>1. ASSUME UNCHANGED <<shown, stateVars>> PROVE NoGhosts'
  BY <1>1 DEF stateVars, NoGhosts, ClosedBare, KeptIsShown, IsOpen
<1>2. CASE Editor
  BY <1>1, <1>2, EditorTyped DEF Typed
<1>3. CASE PublishUninferred
  BY <1>3, FindingsGhosts DEF PublishUninferred
<1>4. CASE EndPass
  <2>. DEFINE buffers == {u \in retype : Publishable(u, compiled)}
  <2>1. CASE walk = "finished"
    <3>1. /\ Found \in SUBSET Uri /\ \A u \in Found : ~IsOpen(u)
          /\ buffers \in SUBSET Uri /\ \A u \in buffers : IsOpen(u)
      BY DEF Found, Typed, TypedState, Publishable
    <3>2. PublishFindings(Found, buffers)
      BY <1>4, <2>1 DEF EndPass
    <3>. HIDE DEF buffers
    <3>. QED
      BY <3>1, <3>2, FindingsGhosts
  <2>2. CASE walk # "finished"
    BY <1>1, <1>4, <2>2 DEF EndPass
  <2>. QED
    BY <2>1, <2>2
<1>5. CASE Server
  BY <1>1, <1>3, <1>4, <1>5, ServerSteps, SyncGhosts, PublishGhosts
<1>6. CASE CheckerThread
  BY <1>1, <1>6, CheckerFrame
<1>. QED
  BY <1>1, <1>2, <1>5, <1>6 DEF Next, vars

\* The marks of a buffer never outlive it: neither a check that comes back late nor
\* a pass that was under way when it was closed puts them back; and what the server
\* keeps for a buffer is what the editor shows.
THEOREM NoGhostMarks == Spec => []NoGhosts
<1>1. Init => NoGhosts
  BY DEF Init, NoGhosts, ClosedBare, KeptIsShown, Clear
<1>. QED
  BY <1>1, StepGhosts, TypedAlways, PTL DEF Spec

-----------------------------------------------------------------------------
(* Marks were found in the text they stand on.                              *)

\* `m` brings a text of the buffer `u`.
Brings(m, u) == m.kind = "note" /\ m.note.what \in {"open", "change"} /\ m.note.uri = u

Stream == Loop!Stream

\* The versions of a buffer on their way are later than the one the server has,
\* each later than those before it.
VersionsAhead ==
    \A u \in Uri :
        /\ open[u] <= buffer[u].version
        /\ \A i \in 1 .. Len(Stream) : Brings(Stream[i], u) =>
              /\ Stream[i].note.version \in Version
              /\ open[u] < Stream[i].note.version
              /\ Stream[i].note.version <= buffer[u].version
              /\ \A j \in 1 .. i - 1 :
                    Brings(Stream[j], u) => Stream[j].note.version < Stream[i].note.version

\* What was found in `text` under `version` is about the text the server has, if that
\* version is the one it has; and that version never comes again.
FoundIn(u, version, text) ==
    /\ version \in Version /\ version <= buffer[u].version
    /\ version = open[u] => text = index[u]
    /\ \A i \in 1 .. Len(Stream) : Brings(Stream[i], u) => version < Stream[i].note.version

FoundJobs == {job \in Job : FoundIn(job.uri, job.version, job.text)}

FoundChecks ==
    {checked \in Checked : checked.report.problems.text # NoText =>
        FoundIn(checked.uri, checked.version, checked.report.problems.text)}

FoundMarks ==
    \A u \in Uri :
        /\ compiled[u].problems.text # NoText =>
              FoundIn(u, compiled[u].version, compiled[u].problems.text)
        /\ shown[u].by = "buffer" /\ shown[u].problems.text # NoText =>
              FoundIn(u, shown[u].version, shown[u].problems.text)

TextInv ==
    /\ VersionsAhead
    /\ jobs \in Seq(FoundJobs) /\ pending \in Seq(FoundJobs) /\ results \in Seq(FoundChecks)
    /\ FoundMarks

\* What a step does to texts: versions only grow; a buffer is opened or changed by the
\* first message of the stream only, or closed; and a text that is sent has a version
\* there was none of.
TextsMove ==
    \A u \in Uri :
        /\ buffer[u].version <= buffer'[u].version
        /\ \/ open'[u] = open[u] /\ (index'[u] = index[u] \/ open[u] = 0)
           \/ open'[u] = 0
           \/ \E i \in 1 .. Len(Stream) :
                 Brings(Stream[i], u) /\ open'[u] = Stream[i].note.version
        /\ \A i \in 1 .. Len(Stream') : Brings(Stream'[i], u) =>
              \/ \E j \in 1 .. Len(Stream) : Stream'[i] = Stream[j]
              \/ /\ Stream'[i].note.version \in Version
                 /\ buffer[u].version < Stream'[i].note.version

\* So what was found stays found.
LEMMA FoundStays ==
    ASSUME TypedEditor, TypedState, TypedEditor', TextsMove,
           NEW u \in Uri, NEW version, NEW text, FoundIn(u, version, text)
    PROVE  FoundIn(u, version, text)'
<1>1. version \in Version /\ version # 0 /\ version \in Int
  BY LanguageServerAssumption DEF FoundIn, Version, LanguageServerAssumption
<1>2. buffer[u].version \in Int /\ buffer'[u].version \in Int
  BY LanguageServerAssumption DEF TypedEditor, Version, LanguageServerAssumption
<1>3. version <= buffer'[u].version
  BY <1>1, <1>2 DEF TextsMove, FoundIn
<1>4. version = open'[u] => text = index'[u]
  <2>1. CASE open'[u] = open[u] /\ (index'[u] = index[u] \/ open[u] = 0)
    BY <1>1, <2>1 DEF FoundIn
  <2>2. CASE open'[u] = 0
    BY <1>1, <2>2
  <2>3. ASSUME NEW i \in 1 .. Len(Stream), Brings(Stream[i], u), open'[u] = Stream[i].note.version
        PROVE  version # open'[u]
    <3>1. version < open'[u]
      BY <2>3 DEF FoundIn
    <3>. QED
      BY <1>1, <3>1
  <2>. QED
    BY <2>1, <2>2, <2>3 DEF TextsMove
<1>5. ASSUME NEW i \in 1 .. Len(Stream'), Brings(Stream'[i], u)
      PROVE  version < Stream'[i].note.version
  <2>1. CASE \E j \in 1 .. Len(Stream) : Stream'[i] = Stream[j]
    BY <1>5, <2>1 DEF FoundIn
  <2>2. CASE Stream'[i].note.version \in Version /\ buffer[u].version < Stream'[i].note.version
    BY <1>1, <1>2, <2>2, LanguageServerAssumption DEF FoundIn, Version, LanguageServerAssumption
  <2>. QED
    BY <1>5, <2>1, <2>2 DEF TextsMove
<1>. QED
  BY <1>1, <1>3, <1>4, <1>5 DEF FoundIn

\* A message that brings a text brings a version.
LEMMA BringsVersion ==
    ASSUME NEW m \in Loop!Message, NEW u, Brings(m, u)
    PROVE  m.note \in Notification /\ m.note.version \in Version /\ m.note.text \in Text
<1>1. m.note \in Notification
  BY DEF Loop!Message, Loop!Requests, Brings
<1>. QED
  BY <1>1 DEF Notification, Brings

\* What the editor sends: a version of a buffer later than all before, or no text.
EditorSends ==
    /\ \A u \in Uri : buffer[u].version <= buffer'[u].version
    /\ \/ Stream' = Stream
       \/ \E m \in Loop!Message :
             /\ Loop!Appended(m)
             /\ \A u \in Uri : Brings(m, u) =>
                   /\ buffer[u].version < m.note.version
                   /\ buffer'[u].version = m.note.version

\* A notification goes to the end of the stream.
LEMMA NoteSent ==
    ASSUME Loop!TypeOK, NEW note \in Notification, Srv!SendNote(note)
    PROVE  \E m \in Loop!Message : Loop!Appended(m) /\ m.kind = "note" /\ m.note = note
<1>. DEFINE m == [kind |-> "note", id |-> 0, note |-> note, at |-> notes]
<1>1. Loop!Send("note", 0, note) /\ UNCHANGED queue
  BY SameClient DEF Loop!SendNote, Loop!serverVars, Loop!loopVars
<1>2. m \in Loop!Message
  BY DEF Loop!Message, Loop!TypeOK, Loop!ClientTypeOK
<1>3. Loop!Appended(m)
  BY <1>1, <1>2, LoopAssumption, Loop!SendStream DEF Loop!Appended
<1>. QED
  BY <1>2, <1>3

\* The other messages bring no text.
LEMMA OtherSent ==
    ASSUME Loop!TypeOK,
           \/ \E kind \in Srv!Requests : Srv!SendRequest(kind)
           \/ \E r \in Srv!Request : Srv!SendCancel(r)
           \/ Srv!SendResponse \/ Srv!SendExit \/ Srv!Disconnect
    PROVE  \/ Stream' = Stream
           \/ \E m \in Loop!Message : Loop!Appended(m) /\ m.kind # "note"
<1>1. Loop!Client
  BY SameClient DEF Loop!Client, Srv!Requests, Loop!Requests, Srv!Request, Loop!Request
<1>2. UNCHANGED notes
  BY DEF Srv!SendRequest, Srv!SendCancel, Srv!SendResponse, Srv!SendExit, Srv!Disconnect
<1>3. notes \in Nat
  BY DEF Loop!TypeOK, Loop!ClientTypeOK
<1>4. ASSUME NEW note, Loop!SendNote(note) PROVE FALSE
  BY <1>2, <1>3, <1>4 DEF Loop!SendNote
<1>5. \/ Stream' = Stream
      \/ \E m \in Loop!Message :
            Loop!Appended(m) /\ (m.kind = "note" => Loop!SendNote(m.note))
  BY <1>1, LoopAssumption, Loop!ClientStream DEF Stream
<1>. QED
  BY <1>4, <1>5

\* Each step of the user's sends what it should.
LEMMA EditorSent ==
    ASSUME Typed, Editor, FreshVersions
    PROVE  EditorSends
<1>1. \A u \in Uri : buffer[u].version \in Int
  BY LanguageServerAssumption DEF Typed, TypedEditor, Version, LanguageServerAssumption
<1>2. ASSUME NEW u \in Uri, NEW text \in Text, NEW version \in Version,
             NEW what \in {"open", "change"},
             Srv!SendNote([what |-> what, uri |-> u, version |-> version, text |-> text]),
             version = buffer[u].version + 1,
             buffer' = [buffer EXCEPT ![u] = [version |-> version, text |-> text]]
      PROVE  EditorSends
  <2>. DEFINE note == [what |-> what, uri |-> u, version |-> version, text |-> text]
  <2>1. note \in Notification
    BY DEF Notification
  <2>2. PICK m \in Loop!Message : Loop!Appended(m) /\ m.kind = "note" /\ m.note = note
    BY <1>2, <2>1, NoteSent DEF Typed
  <2>3. /\ buffer[u].version < version /\ buffer'[u].version = version
        /\ \A v \in Uri : v # u => buffer'[v].version = buffer[v].version
    BY <1>1, <1>2 DEF Typed, TypedEditor
  <2>4. ASSUME NEW v \in Uri PROVE buffer[v].version <= buffer'[v].version
    <3>1. buffer[v].version \in Int /\ buffer[v].version <= buffer[v].version
      BY <1>1
    <3>2. buffer[u].version <= buffer[u].version + 1
      BY <1>1
    <3>. QED
      BY <1>2, <2>3, <3>1, <3>2
  <2>5. \A v \in Uri : Brings(m, v) => /\ buffer[v].version < m.note.version
                                       /\ buffer'[v].version = m.note.version
    BY <2>2, <2>3 DEF Brings
  <2>. QED
    BY <2>2, <2>4, <2>5 DEF EditorSends
<1>3. ASSUME NEW note \in Notification, note.what \notin {"open", "change"},
             Srv!SendNote(note) \/ UNCHANGED serveVars,
             \A u \in Uri : buffer'[u].version = buffer[u].version
      PROVE  EditorSends
  <2>1. CASE Srv!SendNote(note)
    <3>1. PICK m \in Loop!Message : Loop!Appended(m) /\ m.kind = "note" /\ m.note = note
      BY <2>1, NoteSent DEF Typed
    <3>. QED
      BY <1>1, <1>3, <3>1 DEF EditorSends, Brings
  <2>2. CASE UNCHANGED serveVars
    <3>1. Stream' = Stream
      BY <2>2 DEF serveVars, Stream, Loop!Stream
    <3>. QED
      BY <1>1, <1>3, <3>1 DEF EditorSends
  <2>. QED
    BY <1>3, <2>1, <2>2
<1>4. ASSUME NEW u \in Uri, NEW text \in Text, EditorOpens(u, text) PROVE EditorSends
  <2>1. buffer[u].version + 1 \in Version
    BY <1>1, <1>4, LanguageServerAssumption
       DEF EditorOpens, Typed, TypedEditor, Version, LanguageServerAssumption
  <2>. QED
    BY <1>2, <1>4, <2>1 DEF EditorOpens
<1>5. ASSUME NEW u \in Uri, NEW text \in Text, EditorEdits(u, text) PROVE EditorSends
  <2>1. buffer[u].version + 1 \in Version
    BY <1>1, <1>5, LanguageServerAssumption
       DEF EditorEdits, Typed, TypedEditor, Version, LanguageServerAssumption
  <2>. QED
    BY <1>2, <1>5, <2>1 DEF EditorEdits
<1>6. ASSUME NEW u \in Uri, EditorCloses(u) PROVE EditorSends
  <2>1. [what |-> "close", uri |-> u] \in Notification
    BY DEF Notification
  <2>2. \A v \in Uri : buffer'[v].version = buffer[v].version
    BY <1>6 DEF EditorCloses, Typed, TypedEditor
  <2>. QED
    BY <1>3, <1>6, <2>1, <2>2 DEF EditorCloses
<1>7. ASSUME NEW u \in Uri, NEW text \in Anything, DiskChanges(u, text) PROVE EditorSends
  <2>. DEFINE note == [what |-> IF disk[u] = NoText THEN "created"
                                ELSE IF text = NoText THEN "deleted" ELSE "changed", uri |-> u]
  <2>1. note \in Notification /\ note.what \notin {"open", "change"}
    BY DEF Notification
  <2>2. Srv!SendNote(note) \/ UNCHANGED serveVars
    BY <1>7 DEF DiskChanges
  <2>3. buffer' = buffer
    BY <1>7 DEF DiskChanges
  <2>. HIDE DEF note
  <2>. QED
    BY <1>3, <2>1, <2>2, <2>3
<1>8. ASSUME NEW types \in Settings, EditorConfigures(types) PROVE EditorSends
  <2>1. [what |-> "configure", settings |-> types] \in Notification
    BY DEF Notification
  <2>. QED
    BY <1>3, <1>8, <2>1 DEF EditorConfigures, editorVars
<1>9. ASSUME \/ \E kind \in Srv!Requests : Srv!SendRequest(kind)
             \/ \E r \in Srv!Request : Srv!SendCancel(r)
             \/ Srv!SendResponse \/ Srv!SendExit \/ Srv!Disconnect,
             UNCHANGED editorVars
      PROVE  EditorSends
  <2>1. \/ Stream' = Stream
        \/ \E m \in Loop!Message : Loop!Appended(m) /\ m.kind # "note"
    BY <1>9, OtherSent DEF Typed
  <2>. QED
    BY <1>1, <1>9, <2>1 DEF EditorSends, Brings, editorVars
<1>. QED
  BY <1>4, <1>5, <1>6, <1>7, <1>8, <1>9 DEF Editor

\* What the server does to texts: it takes `k` messages off the stream, and opens or
\* changes a buffer as the one it takes says.
ServerTakes(k) ==
    /\ k \in {0, 1} /\ Len(Stream') = Len(Stream) - k
    /\ \A i \in 1 .. Len(Stream') : Stream'[i] = Stream[i + k]
    /\ UNCHANGED buffer
    /\ \A u \in Uri :
          \/ open'[u] = open[u] /\ (index'[u] = index[u] \/ open[u] = 0)
          \/ open'[u] = 0
          \/ /\ k = 1 /\ Len(Stream) >= 1 /\ Brings(Stream[1], u)
             /\ open'[u] = Stream[1].note.version

\* What a notification does to the buffers and texts of the state.
LEMMA SyncMoves ==
    ASSUME Typed, Sync, NEW u \in Uri
    PROVE  \/ open'[u] = open[u] /\ (index'[u] = index[u] \/ open[u] = 0)
           \/ open'[u] = 0
           \/ Brings(Head(queue), u) /\ open'[u] = Head(queue).note.version
<1>. DEFINE n == Head(queue).note
<1>1. SyncText(n) \/ SyncClose(n) \/ SyncDisk(n) \/ SyncSettings(n)
  BY DEF Sync
<1>2. CASE SyncText(n)
  BY <1>2 DEF Sync, SyncText, Brings, Typed, TypedState
<1>3. CASE SyncClose(n)
  <2>1. n.uri \in Uri
    BY <1>3, NoteType DEF Sync, SyncClose, Typed
  <2>2. open' = [open EXCEPT ![n.uri] = 0]
    BY <1>3 DEF SyncClose
  <2>3. CASE u = n.uri
    BY <2>1, <2>2, <2>3 DEF Typed, TypedState
  <2>4. CASE u # n.uri
    <3>. DEFINE restored == [index EXCEPT ![n.uri] = Restored(n.uri)]
    <3>1. open'[u] = open[u] /\ restored[u] = index[u]
      BY <2>1, <2>2, <2>4 DEF Typed, TypedState
    <3>2. index' = restored \/ index' = Rescanned(restored, open')
      BY <1>3 DEF SyncClose
    <3>. HIDE DEF restored
    <3>. QED
      BY <3>1, <3>2 DEF Rescanned
  <2>. QED
    BY <2>3, <2>4
<1>4. CASE SyncDisk(n)
  <2>. DEFINE known == IF n.what = "created" THEN disk[n.uri] # NoText ELSE index[n.uri] # NoText
              read == IF n.what = "deleted" THEN NoText ELSE disk[n.uri]
  <2>1. /\ index' = IF ~known \/ IsOpen(n.uri) THEN index ELSE [index EXCEPT ![n.uri] = read]
        /\ open' = open
    BY <1>4 DEF SyncDisk
  <2>. HIDE DEF known, read, n
  <2>. QED
    BY <2>1 DEF IsOpen, Typed, TypedState
<1>5. CASE SyncSettings(n)
  BY <1>5 DEF SyncSettings
<1>. QED
  BY <1>1, <1>2, <1>3, <1>4, <1>5

\* Whatever else the server and the checking thread do leaves buffers and texts alone.
LEMMA OthersStay ==
    ASSUME (Server /\ ~Sync) \/ CheckerThread \/ UNCHANGED vars
    PROVE  UNCHANGED <<open, index, buffer>>
<1>1. CASE Server /\ ~Sync
  BY <1>1, ServerSteps
     DEF Publish, PublishUninferred, EndPass, PublishFindings, stateVars, editorVars
<1>2. CASE CheckerThread
  BY <1>2, CheckerFrame DEF stateVars, editorVars
<1>. QED
  BY <1>1, <1>2 DEF vars, stateVars, editorVars

\* So the server takes one message or none.
LEMMA ServerMoves ==
    ASSUME Typed, Loop!NothingAhead, Server \/ CheckerThread \/ UNCHANGED vars
    PROVE  \E k \in {0, 1} : ServerTakes(k)
<1>1. Stream \in Seq(Loop!Message) /\ Len(Stream) \in Nat
  <2>1. Loop!Stream \in Seq(Loop!Message)
    BY LoopAssumption, Loop!StreamType DEF Typed
  <2>. QED
    BY <2>1 DEF Stream
<1>2. CASE Sync
  <2>1. Loop!Pop({"note"})
    BY <1>2, SameLoop DEF Sync, Loop!Notify
  <2>2. Stream # <<>> /\ Stream' = Tail(Stream) /\ Stream[1] = Head(queue)
    BY <2>1, LoopAssumption, Loop!PopStream DEF Typed, Stream
  <2>3. /\ Len(Stream') = Len(Stream) - 1 /\ Len(Stream) >= 1
        /\ \A i \in 1 .. Len(Stream') : Stream'[i] = Stream[i + 1]
    BY <1>1, <2>2
  <2>4. UNCHANGED buffer
    BY <1>2 DEF Sync, editorVars
  <2>. QED
    BY <1>2, <2>2, <2>3, <2>4, SyncMoves DEF ServerTakes
<1>3. CASE ~Sync
  <2>1. UNCHANGED <<open, index, buffer>>
    BY <1>3, OthersStay
  <2>2. Stream' = Stream \/ (Stream # <<>> /\ Stream' = Tail(Stream))
    <3>1. CASE Server
      BY <3>1, ServerSteps, LoopAssumption, Loop!ServerStream DEF Typed, Stream
    <3>2. CASE CheckerThread
      BY <3>2, CheckerFrame DEF Stream, Loop!Stream
    <3>3. CASE UNCHANGED vars
      BY <3>3 DEF vars, serveVars, Stream, Loop!Stream
    <3>. QED
      BY <3>1, <3>2, <3>3
  <2>3. CASE Stream' = Stream
    <3>1. Len(Stream') = Len(Stream) - 0 /\ \A i \in 1 .. Len(Stream') : Stream'[i] = Stream[i + 0]
      BY <1>1, <2>3
    <3>. QED
      BY <2>1, <3>1 DEF ServerTakes
  <2>4. CASE Stream # <<>> /\ Stream' = Tail(Stream)
    <3>1. Len(Stream') = Len(Stream) - 1 /\ \A i \in 1 .. Len(Stream') : Stream'[i] = Stream[i + 1]
      BY <1>1, <2>4
    <3>. QED
      BY <2>1, <3>1 DEF ServerTakes
  <2>. QED
    BY <2>2, <2>3, <2>4
<1>. QED
  BY <1>2, <1>3

\* The steps of the server move texts as they should, and keep later versions ahead.
LEMMA ServerAhead ==
    ASSUME Typed, VersionsAhead, NEW k \in {0, 1}, ServerTakes(k)
    PROVE  TextsMove /\ VersionsAhead'
<1>1. Len(Stream) \in Nat
  <2>1. Loop!Stream \in Seq(Loop!Message)
    BY LoopAssumption, Loop!StreamType DEF Typed
  <2>. QED
    BY <2>1 DEF Stream
<1>2. \A i \in 1 .. Len(Stream') : i + k \in 1 .. Len(Stream) /\ Stream'[i] = Stream[i + k]
  BY <1>1 DEF ServerTakes
<1>3. \A u \in Uri : buffer[u].version \in Int /\ open[u] \in Int /\ buffer[u].version >= 0
  BY LanguageServerAssumption
     DEF Typed, TypedEditor, TypedState, Version, LanguageServerAssumption
<1>4. TextsMove
  <2>. SUFFICES ASSUME NEW u \in Uri
       PROVE  /\ buffer[u].version <= buffer'[u].version
              /\ \/ open'[u] = open[u] /\ (index'[u] = index[u] \/ open[u] = 0)
                 \/ open'[u] = 0
                 \/ \E i \in 1 .. Len(Stream) :
                       Brings(Stream[i], u) /\ open'[u] = Stream[i].note.version
              /\ \A i \in 1 .. Len(Stream') : \E j \in 1 .. Len(Stream) : Stream'[i] = Stream[j]
    BY DEF TextsMove
  <2>1. buffer[u].version <= buffer'[u].version
    BY <1>3 DEF ServerTakes
  <2>2. Len(Stream) >= 1 => 1 \in 1 .. Len(Stream)
    BY <1>1
  <2>. QED
    BY <1>2, <2>1, <2>2 DEF ServerTakes
<1>5. VersionsAhead'
  <2>. SUFFICES ASSUME NEW u \in Uri
       PROVE  /\ open'[u] <= buffer'[u].version
              /\ \A i \in 1 .. Len(Stream') : Brings(Stream'[i], u) =>
                    /\ Stream'[i].note.version \in Version
                    /\ open'[u] < Stream'[i].note.version
                    /\ Stream'[i].note.version <= buffer'[u].version
                    /\ \A j \in 1 .. i - 1 :
                          Brings(Stream'[j], u) => Stream'[j].note.version < Stream'[i].note.version
    BY DEF VersionsAhead
  <2>1. buffer' = buffer
    BY DEF ServerTakes
  <2>2. open'[u] <= buffer'[u].version
    BY <1>1, <1>3, <2>1 DEF ServerTakes, VersionsAhead
  <2>3. ASSUME NEW i \in 1 .. Len(Stream'), Brings(Stream'[i], u)
        PROVE  open'[u] < Stream'[i].note.version
    <3>1. /\ i + k \in 1 .. Len(Stream) /\ Brings(Stream[i + k], u)
          /\ Stream'[i].note.version = Stream[i + k].note.version
          /\ Stream[i + k].note.version \in Version
      BY <1>2, <2>3 DEF VersionsAhead
    <3>2. CASE open'[u] = open[u]
      BY <3>1, <3>2 DEF VersionsAhead
    <3>3. CASE open'[u] = 0
      BY <3>1, <3>3, LanguageServerAssumption DEF Version, LanguageServerAssumption
    <3>4. CASE /\ k = 1 /\ Len(Stream) >= 1 /\ Brings(Stream[1], u)
               /\ open'[u] = Stream[1].note.version
      <4>1. 1 \in 1 .. (i + k) - 1
        BY <1>1, <2>3, <3>1, <3>4
      <4>. QED
        BY <3>1, <3>4, <4>1 DEF VersionsAhead
    <3>. QED
      BY <3>2, <3>3, <3>4 DEF ServerTakes
  <2>4. ASSUME NEW i \in 1 .. Len(Stream'), Brings(Stream'[i], u)
        PROVE  /\ Stream'[i].note.version \in Version
               /\ Stream'[i].note.version <= buffer'[u].version
    BY <1>2, <2>1, <2>4 DEF VersionsAhead
  <2>5. ASSUME NEW i \in 1 .. Len(Stream'), Brings(Stream'[i], u), NEW j \in 1 .. i - 1,
               Brings(Stream'[j], u)
        PROVE  Stream'[j].note.version < Stream'[i].note.version
    <3>1. Len(Stream') \in Nat /\ j \in 1 .. Len(Stream') /\ j + k \in 1 .. (i + k) - 1
      BY <1>1, <2>5 DEF ServerTakes
    <3>2. Stream'[j] = Stream[j + k] /\ Stream'[i] = Stream[i + k] /\ i + k \in 1 .. Len(Stream)
      BY <1>2, <3>1
    <3>. QED
      BY <2>5, <3>1, <3>2 DEF VersionsAhead
  <2>. QED
    BY <2>2, <2>3, <2>4, <2>5
<1>. QED
  BY <1>4, <1>5

\* So do the user's.
LEMMA EditorAhead ==
    ASSUME Typed, TypedEditor', VersionsAhead, EditorSends, UNCHANGED <<open, index>>
    PROVE  TextsMove /\ VersionsAhead'
<1>1. Len(Stream) \in Nat
  <2>1. Loop!Stream \in Seq(Loop!Message)
    BY LoopAssumption, Loop!StreamType DEF Typed
  <2>. QED
    BY <2>1 DEF Stream
<1>2. \A u \in Uri : /\ buffer[u].version \in Int /\ open[u] \in Int /\ buffer'[u].version \in Int
                     /\ buffer[u].version <= buffer'[u].version
  BY LanguageServerAssumption
     DEF Typed, TypedEditor, TypedState, Version, LanguageServerAssumption, EditorSends
<1>3. \A u \in Uri : open'[u] <= buffer'[u].version
  BY <1>2 DEF VersionsAhead
<1>4. Version \subseteq Int
  BY DEF Version
<1>5. CASE Stream' = Stream
  <2>1. TextsMove
    BY <1>2, <1>5 DEF TextsMove
  <2>2. VersionsAhead'
    <3>. SUFFICES ASSUME NEW u \in Uri, NEW i \in 1 .. Len(Stream), Brings(Stream[i], u)
                  PROVE  Stream[i].note.version <= buffer'[u].version
      BY <1>3, <1>5 DEF VersionsAhead
    <3>1. Stream[i].note.version \in Int /\ Stream[i].note.version <= buffer[u].version
      BY <1>4 DEF VersionsAhead
    <3>. QED
      BY <1>2, <3>1
  <2>. QED
    BY <2>1, <2>2
<1>6. ASSUME NEW m \in Loop!Message, Loop!Appended(m),
             \A u \in Uri : Brings(m, u) =>
                 buffer[u].version < m.note.version /\ buffer'[u].version = m.note.version
      PROVE  TextsMove /\ VersionsAhead'
  <2>1. /\ Len(Stream') = Len(Stream) + 1
        /\ \A i \in 1 .. Len(Stream) : Stream'[i] = Stream[i]
        /\ Stream'[Len(Stream) + 1] = m
    BY <1>6 DEF Loop!Appended, Stream
  <2>2. \A i \in 1 .. Len(Stream') : i \in 1 .. Len(Stream) \/ i = Len(Stream) + 1
    BY <1>1, <2>1
  <2>3. \A u \in Uri : Brings(m, u) => m.note.version \in Version
    BY BringsVersion
  <2>4. TextsMove
    BY <1>2, <1>6, <2>1, <2>2, <2>3 DEF TextsMove
  <2>5. ASSUME NEW u \in Uri, NEW i \in 1 .. Len(Stream'), Brings(Stream'[i], u)
        PROVE  /\ Stream'[i].note.version \in Version
               /\ open'[u] < Stream'[i].note.version
               /\ Stream'[i].note.version <= buffer'[u].version
               /\ \A j \in 1 .. i - 1 :
                     Brings(Stream'[j], u) => Stream'[j].note.version < Stream'[i].note.version
    <3>1. CASE i \in 1 .. Len(Stream)
      <4>1. Stream'[i] = Stream[i] /\ \A j \in 1 .. i - 1 : Stream'[j] = Stream[j]
        BY <1>1, <2>1, <3>1
      <4>2. /\ Stream[i].note.version \in Version
            /\ open[u] < Stream[i].note.version
            /\ Stream[i].note.version <= buffer[u].version
            /\ \A j \in 1 .. i - 1 :
                  Brings(Stream[j], u) => Stream[j].note.version < Stream[i].note.version
        BY <2>5, <3>1, <4>1 DEF VersionsAhead
      <4>3. Stream[i].note.version <= buffer'[u].version
        BY <1>2, <1>4, <4>2
      <4>. QED
        BY <4>1, <4>2, <4>3
    <3>2. CASE i = Len(Stream) + 1
      <4>1. Stream'[i] = m /\ m.note.version \in Version /\ m.note.version \in Int
        BY <1>4, <2>1, <2>3, <2>5, <3>2
      <4>2. buffer[u].version < m.note.version /\ buffer'[u].version = m.note.version
        BY <1>6, <2>5, <4>1
      <4>3. open[u] < m.note.version
        BY <1>2, <4>1, <4>2 DEF VersionsAhead
      <4>4. ASSUME NEW j \in 1 .. i - 1, Brings(Stream'[j], u)
            PROVE  Stream'[j].note.version < m.note.version
        <5>1. j \in 1 .. Len(Stream) /\ Stream'[j] = Stream[j]
          BY <1>1, <2>1, <3>2
        <5>2. Stream[j].note.version \in Int /\ Stream[j].note.version <= buffer[u].version
          BY <1>4, <4>4, <5>1 DEF VersionsAhead
        <5>. QED
          BY <1>2, <4>1, <4>2, <5>1, <5>2
      <4>. QED
        BY <1>2, <4>1, <4>2, <4>3, <4>4
    <3>. QED
      BY <2>2, <3>1, <3>2
  <2>6. VersionsAhead'
    BY <1>3, <2>5 DEF VersionsAhead
  <2>. QED
    BY <2>4, <2>6
<1>. QED
  BY <1>5, <1>6 DEF EditorSends

\* `FoundIn` of what there is after a step.
FoundNext(u, version, text) ==
    /\ version \in Version /\ version <= buffer'[u].version
    /\ version = open'[u] => text = index'[u]
    /\ \A i \in 1 .. Len(Stream') : Brings(Stream'[i], u) => version < Stream'[i].note.version

\* Jobs and reports found before a step are found after it; and so are marks.
LEMMA AllFoundStay ==
    ASSUME TypedEditor, TypedState, TypedEditor', TextsMove
    PROVE  /\ \A u \in Uri : \A version, text :
                 FoundIn(u, version, text) => FoundNext(u, version, text)
           /\ FoundJobs \subseteq FoundJobs'
           /\ FoundChecks \subseteq FoundChecks'
<1>1. ASSUME NEW u \in Uri, NEW version, NEW text, FoundIn(u, version, text)
      PROVE  FoundNext(u, version, text)
  <2>1. FoundIn(u, version, text)'
    BY <1>1, FoundStays
  <2>. QED
    BY <2>1 DEF FoundIn, FoundNext
<1>2. FoundJobs' = {job \in Job : FoundNext(job.uri, job.version, job.text)}
  BY DEF FoundJobs, FoundIn, FoundNext
<1>3. FoundChecks' = {checked \in Checked : checked.report.problems.text # NoText =>
          FoundNext(checked.uri, checked.version, checked.report.problems.text)}
  BY DEF FoundChecks, FoundIn, FoundNext
<1>4. \A job \in Job : job.uri \in Uri
  BY DEF Job
<1>5. \A checked \in Checked : checked.uri \in Uri
  BY DEF Checked
<1>6. FoundJobs \subseteq FoundJobs'
  BY <1>1, <1>2, <1>4 DEF FoundJobs
<1>7. FoundChecks \subseteq FoundChecks'
  BY <1>1, <1>3, <1>5 DEF FoundChecks
<1>. QED
  BY <1>1, <1>6, <1>7

\* What a notification queues is found in the text it leaves.
LEMMA SyncJobs ==
    ASSUME Typed, Typed', VersionsAhead', FoundJobs \subseteq FoundJobs', jobs \in Seq(FoundJobs),
           Sync
    PROVE  jobs' \in Seq(FoundJobs')
<1>. DEFINE n == Head(queue).note
<1>1. SyncText(n) \/ SyncClose(n) \/ SyncDisk(n) \/ SyncSettings(n)
  BY DEF Sync
<1>2. jobs \in Seq(FoundJobs')
  BY SeqMonotonic
<1>3. ASSUME NEW uris \in SUBSET Uri, Check(uris), \A u \in uris : open'[u] # 0
      PROVE  jobs' \in Seq(FoundJobs')
  <2>1. /\ open' \in [Uri -> Version \cup {0}] /\ index' \in [Uri -> Anything]
        /\ \A u \in uris : open'[u] # 0 /\ index'[u] \in Text
    BY <1>3 DEF Typed, TypedState, OpenTexts, IsOpen
  <2>2. PICK batch \in Seq(Job) :
            /\ jobs' = jobs \o batch
            /\ \A i \in DOMAIN batch : /\ batch[i].uri \in uris
                                       /\ batch[i].version = open'[batch[i].uri]
                                       /\ batch[i].text = index'[batch[i].uri]
    <3>1. jobs \in Seq(Job)
      BY DEF Typed, TypedChecker
    <3>. QED
      BY <1>3, <2>1, <3>1, CheckJobs
  <2>3. ASSUME NEW u \in uris PROVE FoundNext(u, open'[u], index'[u])
    <3>1. open'[u] \in Version
      BY <2>1
    <3>. QED
      BY <3>1 DEF FoundNext, VersionsAhead
  <2>4. FoundJobs' = {job \in Job : FoundNext(job.uri, job.version, job.text)}
    BY DEF FoundJobs, FoundIn, FoundNext
  <2>5. \A i \in DOMAIN batch : batch[i] \in FoundJobs'
    BY <2>2, <2>3, <2>4
  <2>6. batch \in Seq(FoundJobs')
    <3>1. DOMAIN batch = 1 .. Len(batch) /\ Len(batch) \in Nat
      BY <2>2
    <3>. QED
      BY <2>5, <3>1
  <2>. QED
    BY <1>2, <2>2, <2>6, ConcatProperties
<1>4. CASE SyncText(n)
  <2>1. n.uri \in Uri /\ n.version # 0
    BY <1>4, NoteType DEF Sync, SyncText, Typed, Version
  <2>2. Check({n.uri}) /\ open'[n.uri] # 0
    BY <1>4, <2>1 DEF SyncText, Typed, TypedState
  <2>. QED
    BY <1>3, <2>1, <2>2
<1>5. CASE SyncClose(n)
  BY <1>2, <1>5 DEF SyncClose
<1>6. CASE SyncDisk(n)
  <2>1. PICK uris \in SUBSET Uri : Check(uris) /\ \A u \in uris : open'[u] # 0
    BY <1>6 DEF SyncDisk, OpenImporters, IsOpen
  <2>. QED
    BY <1>3, <2>1
<1>7. CASE SyncSettings(n)
  <2>1. PICK uris \in SUBSET Uri : Check(uris) /\ \A u \in uris : open'[u] # 0
    BY <1>7 DEF SyncSettings, IsOpen
  <2>. QED
    BY <1>3, <2>1
<1>. QED
  BY <1>1, <1>4, <1>5, <1>6, <1>7

\* The checking thread passes on what it was given, and finds it in that text.
LEMMA CheckerFound ==
    ASSUME Typed, TextInv, CheckerThread
    PROVE  jobs' \in Seq(FoundJobs) /\ pending' \in Seq(FoundJobs) /\ results' \in Seq(FoundChecks)
<1>. DEFINE job == Head(pending)
<1>1. jobs \in Seq(FoundJobs) /\ pending \in Seq(FoundJobs) /\ results \in Seq(FoundChecks)
  BY DEF TextInv
<1>2. CASE Chk!TakeFirst \/ Chk!Gather \/ Chk!Settle
  BY <1>1, <1>2, GatherKeeps
<1>3. ASSUME pending # <<>>, NEW report \in Report, Chk!CheckOne(report),
             report.problems.text \in {NoText, job.text}
      PROVE  jobs' \in Seq(FoundJobs) /\ pending' \in Seq(FoundJobs)
             /\ results' \in Seq(FoundChecks)
  <2>. DEFINE checked == [uri |-> job.uri, version |-> job.version, report |-> report]
  <2>1. job \in FoundJobs /\ Tail(pending) \in Seq(FoundJobs)
    BY <1>1, <1>3
  <2>2. job \in Job /\ FoundIn(job.uri, job.version, job.text)
    BY <2>1 DEF FoundJobs
  <2>3. checked \in Checked
    BY <2>2 DEF Checked, Job
  <2>4. checked \in FoundChecks
    BY <1>3, <2>2, <2>3 DEF FoundChecks
  <2>5. results' = Append(results, checked) /\ pending' = Tail(pending) /\ jobs' = jobs
    BY <1>3 DEF Chk!CheckOne
  <2>. HIDE DEF checked
  <2>. QED
    BY <1>1, <2>1, <2>4, <2>5
<1>4. CASE pending # <<>> /\ Checks(job)
  <2>. DEFINE report == [problems |-> [text |-> job.text,
                                       against |-> [f \in Reads[job.uri] |-> disk[f]]],
                         bindings |-> [f \in Loads(job.uri) \cup {job.uri} |->
                                          IF f = job.uri THEN job.text ELSE disk[f]]]
  <2>1. job \in Job
    BY <1>4 DEF Typed, TypedChecker
  <2>2. report \in Report
    BY <2>1, ReportType DEF Report, Typed
  <2>3. Chk!CheckOne(report) /\ report.problems.text = job.text
    BY <1>4 DEF Checks
  <2>. HIDE DEF report, job
  <2>. QED
    BY <1>3, <1>4, <2>2, <2>3
<1>5. CASE CheckFails
  <2>. DEFINE report == [problems |-> Failed, bindings |-> <<>>]
  <2>1. report \in Report
    <3>1. <<>> \in [{} -> Text] /\ {} \in SUBSET Uri
      OBVIOUS
    <3>. QED
      BY <3>1, NothingFound DEF Report
  <2>2. Chk!CheckOne(report) /\ pending # <<>> /\ report.problems.text = NoText
    BY <1>5 DEF CheckFails, Chk!CheckOne, Failed
  <2>. HIDE DEF report, job
  <2>. QED
    BY <1>3, <2>1, <2>2
<1>. QED
  BY <1>2, <1>4, <1>5 DEF CheckerThread

\* `FoundMarks` of the marks there are after a step.
MarksFound ==
    \A u \in Uri :
        /\ compiled'[u].problems.text # NoText =>
              FoundIn(u, compiled'[u].version, compiled'[u].problems.text)
        /\ shown'[u].by = "buffer" /\ shown'[u].problems.text # NoText =>
              FoundIn(u, shown'[u].version, shown'[u].problems.text)

\* What a check that comes back says is about the text it was found in.
LEMMA PublishFound ==
    ASSUME Typed, TextInv, Publish
    PROVE  MarksFound /\ results' \in Seq(FoundChecks)
<1>. DEFINE checked == Head(results)
            found == [compiled EXCEPT ![checked.uri] = [version |-> checked.version,
                                                        problems |-> checked.report.problems]]
            marks == BufferMarks(checked.uri, found, bound')
<1>1. /\ checked \in FoundChecks /\ results' = Tail(results) /\ results \in Seq(FoundChecks)
      /\ results # <<>>
  BY DEF TextInv, Publish, Srv!Publish
<1>2. results' \in Seq(FoundChecks)
  BY <1>1
<1>3. /\ checked.uri \in Uri
      /\ checked.report.problems.text # NoText =>
            FoundIn(checked.uri, checked.version, checked.report.problems.text)
  BY <1>1 DEF FoundChecks, Checked
<1>4. CASE Current(checked)
  <2>1. compiled' = found /\ shown' = [shown EXCEPT ![checked.uri] = marks]
    BY <1>4 DEF Publish
  <2>2. /\ found[checked.uri] = [version |-> checked.version, problems |-> checked.report.problems]
        /\ \A u \in Uri : u # checked.uri => found[u] = compiled[u]
    BY <1>3 DEF Typed, TypedMarks
  <2>3. marks.version = checked.version /\ marks.problems = checked.report.problems
    BY <2>2 DEF BufferMarks
  <2>4. /\ shown'[checked.uri] = marks
        /\ \A u \in Uri : u # checked.uri => shown'[u] = shown[u]
    BY <1>3, <2>1 DEF Typed, TypedMarks
  <2>5. ASSUME NEW u \in Uri
        PROVE  /\ compiled'[u].problems.text # NoText =>
                      FoundIn(u, compiled'[u].version, compiled'[u].problems.text)
               /\ shown'[u].by = "buffer" /\ shown'[u].problems.text # NoText =>
                      FoundIn(u, shown'[u].version, shown'[u].problems.text)
    <3>. HIDE DEF checked, marks, found
    <3>1. CASE u = checked.uri
      <4>1. compiled'[u].version = checked.version /\ compiled'[u].problems = checked.report.problems
        BY <2>1, <2>2, <3>1
      <4>2. shown'[u].version = checked.version /\ shown'[u].problems = checked.report.problems
        BY <2>3, <2>4, <3>1
      <4>. QED
        BY <1>3, <3>1, <4>1, <4>2
    <3>2. CASE u # checked.uri
      BY <2>1, <2>2, <2>4, <3>2 DEF TextInv, FoundMarks
    <3>. QED
      BY <3>1, <3>2
  <2>6. MarksFound
    BY <2>5 DEF MarksFound
  <2>. QED
    BY <1>2, <2>6
<1>5. CASE ~Current(checked)
  BY <1>2, <1>5 DEF Publish, MarksFound, TextInv, FoundMarks
<1>. QED
  BY <1>4, <1>5

\* What the end of a pass publishes for a buffer is what Janet last found in it.
LEMMA FindingsFound ==
    ASSUME Typed, TextInv, NEW fresh \in SUBSET Uri, NEW buffers \in SUBSET Uri,
           PublishFindings(fresh, buffers)
    PROVE  MarksFound
<1>1. compiled' = compiled
  BY DEF PublishFindings
<1>2. ASSUME NEW u \in Uri, shown'[u].by = "buffer", shown'[u].problems.text # NoText
      PROVE  FoundIn(u, shown'[u].version, shown'[u].problems.text)
  <2>1. shown'[u] = IF u \in fresh THEN ProjectMarks(u)
                    ELSE IF u \in Gone THEN Clear
                    ELSE IF u \in buffers THEN BufferMarks(u, compiled, bound)
                    ELSE shown[u]
    BY DEF PublishFindings
  <2>2. ProjectMarks(u).by # "buffer" /\ Clear.by # "buffer"
    BY DEF ProjectMarks, Clear
  <2>3. CASE shown'[u] = BufferMarks(u, compiled, bound)
    <3>1. shown'[u].version = compiled[u].version /\ shown'[u].problems = compiled[u].problems
      BY <2>3 DEF BufferMarks
    <3>. QED
      BY <1>2, <3>1 DEF TextInv, FoundMarks
  <2>4. CASE shown'[u] = shown[u]
    BY <1>2, <2>4 DEF TextInv, FoundMarks
  <2>. QED
    BY <1>2, <2>1, <2>2, <2>3, <2>4
<1>. QED
  BY <1>1, <1>2 DEF MarksFound, TextInv, FoundMarks

\* So every step leaves marks that are found.
LEMMA StepMarks ==
    ASSUME Typed, TextInv, [Next]_vars
    PROVE  MarksFound
<1>1. ASSUME UNCHANGED <<shown, stateVars>> PROVE MarksFound
  BY <1>1 DEF stateVars, MarksFound, TextInv, FoundMarks
<1>2. CASE Editor
  BY <1>1, <1>2, EditorTyped DEF Typed
<1>3. CASE Sync
  <2>. DEFINE n == Head(queue).note
  <2>1. SyncText(n) \/ SyncClose(n) \/ SyncDisk(n) \/ SyncSettings(n)
    BY <1>3 DEF Sync
  <2>2. CASE SyncClose(n)
    <3>1. n.uri \in Uri
      BY <1>3, <2>2, NoteType DEF Sync, SyncClose, Typed
    <3>2. /\ compiled' = [compiled EXCEPT ![n.uri] = NotCompiled]
          /\ shown' = [shown EXCEPT ![n.uri] = Clear]
      BY <2>2 DEF SyncClose
    <3>3. NotCompiled.problems.text = NoText /\ Clear.problems.text = NoText
      BY DEF NotCompiled, Clear, Failed
    <3>. HIDE DEF n
    <3>. QED
      BY <3>1, <3>2, <3>3 DEF MarksFound, TextInv, FoundMarks, Typed, TypedMarks
  <2>3. CASE SyncText(n) \/ SyncDisk(n) \/ SyncSettings(n)
    BY <2>3 DEF SyncText, SyncDisk, SyncSettings, MarksFound, TextInv, FoundMarks
  <2>. QED
    BY <2>1, <2>2, <2>3
<1>4. CASE PublishUninferred
  BY <1>4, FindingsFound DEF PublishUninferred
<1>5. CASE EndPass
  <2>. DEFINE buffers == {u \in retype : Publishable(u, compiled)}
  <2>1. Found \in SUBSET Uri /\ buffers \in SUBSET Uri
    BY DEF Found, Typed, TypedState
  <2>2. CASE walk = "finished"
    <3>1. PublishFindings(Found, buffers)
      BY <1>5, <2>2 DEF EndPass
    <3>. HIDE DEF buffers
    <3>. QED
      BY <2>1, <3>1, FindingsFound
  <2>3. CASE walk # "finished"
    BY <1>1, <1>5, <2>3 DEF EndPass
  <2>. QED
    BY <2>2, <2>3
<1>6. CASE Server
  BY <1>1, <1>3, <1>4, <1>5, <1>6, ServerSteps, PublishFound
<1>7. CASE CheckerThread
  BY <1>1, <1>7, CheckerFrame
<1>. QED
  BY <1>1, <1>2, <1>6, <1>7 DEF Next, vars

\* Only `publish` takes results off their channel, and no step of the loop adds one.
LEMMA ResultsTaken ==
    ASSUME \/ Loop!Client \/ Loop!Loop \/ Loop!Pass
           \/ \E r \in Loop!Request : Loop!FormatDone(r)
    PROVE  UNCHANGED results \/ (results # <<>> /\ results' = Tail(results))
<1>. USE DEF Loop!serverVars, Loop!loopVars, Loop!Pop, Loop!Overhear
<1>1. CASE Loop!Client
  BY <1>1 DEF Loop!Client, Loop!SendRequest, Loop!SendNote, Loop!SendCancel, Loop!SendResponse,
              Loop!SendExit, Loop!Disconnect
<1>2. CASE Loop!Loop
  BY <1>2 DEF Loop!Loop, Loop!Receive, Loop!RefuseCancelled, Loop!ServeRequest,
              Loop!ServeShutdown, Loop!LeaveAfterShutdown, Loop!Notify, Loop!Ignore,
              Loop!Publish, Loop!ClientGone
<1>3. CASE Loop!Pass
  BY <1>3 DEF Loop!Pass, Loop!PublishUninferred, Loop!BeginPass, Loop!PickFile, Loop!ReadFile,
              Loop!EndWalk, Loop!AnswerInferring, Loop!IgnoreInferring, Loop!StopForMessage,
              Loop!StopForCheck, Loop!StopForNobody, Loop!EndPass
<1>4. CASE \E r \in Loop!Request : Loop!FormatDone(r)
  BY <1>4 DEF Loop!FormatDone
<1>. QED
  BY <1>1, <1>2, <1>3, <1>4

\* What the channels hold after a step was found before it, or is found in the text
\* the step leaves.
LEMMA StepChannels ==
    ASSUME Typed, Typed', TextInv, VersionsAhead', [Next]_vars,
           FoundJobs \subseteq FoundJobs', FoundChecks \subseteq FoundChecks'
    PROVE  jobs' \in Seq(FoundJobs') /\ pending' \in Seq(FoundJobs')
           /\ results' \in Seq(FoundChecks')
<1>1. jobs \in Seq(FoundJobs) /\ pending \in Seq(FoundJobs) /\ results \in Seq(FoundChecks)
  BY DEF TextInv
<1>2. jobs \in Seq(FoundJobs') /\ pending \in Seq(FoundJobs') /\ results \in Seq(FoundChecks')
  BY <1>1, SeqMonotonic
<1>3. CASE CheckerThread
  <2>1. jobs' \in Seq(FoundJobs) /\ pending' \in Seq(FoundJobs) /\ results' \in Seq(FoundChecks)
    BY <1>3, CheckerFound
  <2>. QED
    BY <2>1, SeqMonotonic
<1>4. CASE Editor \/ Server
  <2>1. results' \in Seq(FoundChecks')
    <3>1. UNCHANGED results \/ (results # <<>> /\ results' = Tail(results))
      <4>1. CASE UNCHANGED Loop!vars
        BY <4>1 DEF Loop!vars
      <4>. QED
        BY <1>4, <4>1, EditorTyped, ServerSteps, ResultsTaken DEF Typed
    <3>. QED
      BY <1>2, <3>1
  <2>2. CASE Sync
    BY <1>2, <2>1, <2>2, SyncJobs DEF TextInv, Sync
  <2>3. CASE ~Sync
    <3>1. UNCHANGED checkerVars
      BY <1>4, <2>3, EditorTyped, ServerSteps DEF Typed, Publish, PublishUninferred, EndPass
    <3>. QED
      BY <1>2, <2>1, <3>1 DEF checkerVars
  <2>. QED
    BY <2>2, <2>3
<1>5. CASE UNCHANGED vars
  BY <1>2, <1>5 DEF vars, serveVars, checkerVars
<1>. QED
  BY <1>3, <1>4, <1>5 DEF Next

LEMMA StepText ==
    ASSUME FreshVersions, Typed, Typed', Loop!ServeInv, TextInv, [Next]_vars
    PROVE  TextInv'
<1>1. TypedEditor /\ TypedState /\ TypedEditor' /\ VersionsAhead
  BY DEF Typed, TextInv
<1>2. TextsMove /\ VersionsAhead'
  <2>1. CASE Editor
    <3>1. UNCHANGED <<open, index>>
      BY <1>1, <2>1, EditorTyped DEF stateVars
    <3>. QED
      BY <1>1, <2>1, <3>1, EditorSent, EditorAhead
  <2>2. CASE Server \/ CheckerThread \/ UNCHANGED vars
    <3>1. PICK k \in {0, 1} : ServerTakes(k)
      BY <2>2, ServerMoves DEF Loop!ServeInv
    <3>. QED
      BY <1>1, <3>1, ServerAhead
  <2>. QED
    BY <2>1, <2>2 DEF Next
<1>3. /\ \A u \in Uri : \A version, text :
            FoundIn(u, version, text) => FoundNext(u, version, text)
      /\ FoundJobs \subseteq FoundJobs' /\ FoundChecks \subseteq FoundChecks'
  BY <1>1, <1>2, AllFoundStay
<1>4. jobs' \in Seq(FoundJobs') /\ pending' \in Seq(FoundJobs') /\ results' \in Seq(FoundChecks')
  BY <1>2, <1>3, StepChannels
<1>5. FoundMarks'
  <2>1. MarksFound
    BY StepMarks
  <2>2. \A u \in Uri :
           /\ compiled'[u].problems.text # NoText =>
                 FoundNext(u, compiled'[u].version, compiled'[u].problems.text)
           /\ shown'[u].by = "buffer" /\ shown'[u].problems.text # NoText =>
                 FoundNext(u, shown'[u].version, shown'[u].problems.text)
    BY <1>3, <2>1 DEF MarksFound
  <2>. QED
    BY <2>2 DEF FoundMarks, FoundIn, FoundNext
<1>. QED
  BY <1>2, <1>4, <1>5 DEF TextInv

\* Nothing has been found at first.
LEMMA InitText == Init => TextInv
<1>. SUFFICES ASSUME Init PROVE TextInv
  OBVIOUS
<1>1. Len(Stream) = 0
  BY DEF Init, Srv!Init, Stream, Loop!Stream
<1>2. VersionsAhead
  BY <1>1 DEF Init, VersionsAhead
<1>3. jobs \in Seq(FoundJobs) /\ pending \in Seq(FoundJobs) /\ results \in Seq(FoundChecks)
  BY EmptySeq DEF Init, Srv!Init, Chk!CheckerInit
<1>4. FoundMarks
  BY DEF Init, FoundMarks, NotCompiled, Clear, Failed
<1>. QED
  BY <1>2, <1>3, <1>4 DEF TextInv

\* With an editor that never uses a version of a buffer twice, marks shown under the
\* version that is open were found in the text that is open, however many checks of
\* however many texts are queued, gathered, run and returned in between, and whether
\* or not the buffer was closed and opened again meanwhile.
THEOREM TextChecked == FreshVersions => (Spec => []CheckedText)
<1>. SUFFICES ASSUME FreshVersions PROVE Spec => []CheckedText
  OBVIOUS
<1>1. Typed /\ Typed' /\ Loop!ServeInv /\ TextInv /\ [Next]_vars => TextInv'
  BY StepText
<1>2. Typed /\ TextInv => CheckedText
  BY DEF TextInv, FoundMarks, FoundIn, CheckedText
<1>. QED
  BY <1>1, <1>2, InitText, TypedAlways, StreamAlways, PTL DEF Spec

-----------------------------------------------------------------------------
(* Once all is settled: the index is the disk.                              *)

\* `m` says one of `whats` of the file `u`.
Says(m, whats, u) == m.kind = "note" /\ m.note.what \in whats /\ m.note.uri = u

OnDisk == {"created", "changed", "deleted"}

\* `t` is `s` without its first message; `s` with `m` after it.
Shorter(t, s) ==
    /\ Len(s) \in Nat \ {0} /\ Len(t) = Len(s) - 1
    /\ \A i \in 1 .. Len(t) : t[i] = s[i + 1]
Longer(t, s, m) ==
    /\ Len(s) \in Nat /\ Len(t) = Len(s) + 1
    /\ \A i \in 1 .. Len(s) : t[i] = s[i]
    /\ t[Len(s) + 1] = m

\* The buffer `u`, now open in `version` if that is not 0, is open once the first `n`
\* messages of `s` are handled.
OpenBy(s, n, u, version) ==
    \/ \E j \in 1 .. n : Brings(s[j], u) /\ \A k \in j + 1 .. n : ~Says(s[k], {"close"}, u)
    \/ version # 0 /\ \A k \in 1 .. n : ~Says(s[k], {"close"}, u)

\* Only what is open is closed.
ClosesOpen ==
    \A u \in Uri :
        /\ buffer[u].text # NoText => OpenBy(Stream, Len(Stream), u, open[u])
        /\ \A i \in 1 .. Len(Stream) :
              Says(Stream[i], {"close"}, u) => OpenBy(Stream, i - 1, u, open[u])

\* Whether the disk is spoken of, and where it is last.
Tells(s, u) == \E i \in 1 .. Len(s) : Says(s[i], OnDisk, u)
LastTold(s, i, u) == Says(s[i], OnDisk, u) /\ \A j \in i + 1 .. Len(s) : ~Says(s[j], OnDisk, u)

\* What was said of `u` and is not handled yet leads from what is known of it, `kept`,
\* to what is on disk, `there`: the last word is right, and a change finds the file
\* known.
Told(s, u, kept, there) ==
    /\ ~Tells(s, u) => (kept # NoText <=> there # NoText)
    /\ \A i \in 1 .. Len(s) : LastTold(s, i, u) =>
          /\ Says(s[i], {"deleted"}, u) <=> there = NoText
          /\ Says(s[i], {"changed"}, u) =>
                \/ /\ kept # NoText
                   /\ \A j \in 1 .. Len(s) : ~Says(s[j], {"deleted"}, u)
                \/ \E j \in 1 .. Len(s) :
                      /\ Says(s[j], {"created"}, u)
                      /\ \A k \in j .. Len(s) : ~Says(s[k], {"deleted"}, u)

\* What the workspace keeps of `u` from disk: nothing of a buffer it did not know.
Kept(u) == IF IsOpen(u) /\ u \notin indexed THEN NoText ELSE index[u]

DiskTold ==
    watching => \A u \in Uri :
        /\ Told(Stream, u, Kept(u), disk[u])
        /\ ~Tells(Stream, u) /\ ~IsOpen(u) => index[u] = disk[u]

\* A disk message that is not the first is still there when that is handled.
LEMMA TellsTail ==
    ASSUME NEW s, NEW t, Shorter(t, s), NEW u
    PROVE  /\ Tells(t, u) => Tells(s, u)
           /\ Tells(s, u) /\ ~Says(s[1], OnDisk, u) => Tells(t, u)
<1>1. \A i \in 1 .. Len(t) : i + 1 \in 2 .. Len(s) /\ t[i] = s[i + 1]
  BY DEF Shorter
<1>2. \A i \in 1 .. Len(s) : i # 1 => i - 1 \in 1 .. Len(t) /\ s[i] = t[i - 1]
  <2>. SUFFICES ASSUME NEW i \in 1 .. Len(s), i # 1 PROVE i - 1 \in 1 .. Len(t) /\ s[i] = t[i - 1]
    OBVIOUS
  <2>1. i - 1 \in 1 .. Len(t) /\ (i - 1) + 1 = i
    BY DEF Shorter
  <2>. QED
    BY <1>1, <2>1
<1>. QED
  BY <1>1, <1>2 DEF Tells

\* The last disk message is the same.
LEMMA LastToldTail ==
    ASSUME NEW s, NEW t, Shorter(t, s), NEW u, NEW i \in 1 .. Len(t), LastTold(t, i, u)
    PROVE  i + 1 \in 1 .. Len(s) /\ t[i] = s[i + 1] /\ LastTold(s, i + 1, u)
<1>1. \A j \in 1 .. Len(t) : j + 1 \in 2 .. Len(s) /\ t[j] = s[j + 1]
  BY DEF Shorter
<1>2. ASSUME NEW j \in (i + 1) + 1 .. Len(s) PROVE ~Says(s[j], OnDisk, u)
  <2>1. j - 1 \in i + 1 .. Len(t) /\ j - 1 \in 1 .. Len(t) /\ (j - 1) + 1 = j
    BY DEF Shorter
  <2>. QED
    BY <1>1, <2>1 DEF LastTold
<1>. QED
  BY <1>1, <1>2 DEF LastTold

\* Handling another message leaves what was told.
LEMMA ToldTail ==
    ASSUME NEW s, NEW t, Shorter(t, s), NEW u, NEW kept, NEW there, Told(s, u, kept, there),
           ~Says(s[1], OnDisk, u), NEW after,
           kept = NoText => after = NoText,
           kept # NoText /\ there # NoText => after # NoText
    PROVE  Told(t, u, after, there)
<1>1. ~Tells(t, u) => (after # NoText <=> there # NoText)
  BY TellsTail DEF Told
<1>2. ASSUME NEW i \in 1 .. Len(t), LastTold(t, i, u)
      PROVE  /\ Says(t[i], {"deleted"}, u) <=> there = NoText
             /\ Says(t[i], {"changed"}, u) =>
                   \/ /\ after # NoText
                      /\ \A j \in 1 .. Len(t) : ~Says(t[j], {"deleted"}, u)
                   \/ \E j \in 1 .. Len(t) :
                         /\ Says(t[j], {"created"}, u)
                         /\ \A k \in j .. Len(t) : ~Says(t[k], {"deleted"}, u)
  <2>1. i + 1 \in 1 .. Len(s) /\ t[i] = s[i + 1] /\ LastTold(s, i + 1, u)
    BY <1>2, LastToldTail
  <2>2. Says(t[i], {"deleted"}, u) <=> there = NoText
    BY <2>1 DEF Told
  <2>3. ASSUME Says(t[i], {"changed"}, u)
        PROVE  \/ /\ after # NoText
                  /\ \A j \in 1 .. Len(t) : ~Says(t[j], {"deleted"}, u)
               \/ \E j \in 1 .. Len(t) :
                     /\ Says(t[j], {"created"}, u)
                     /\ \A k \in j .. Len(t) : ~Says(t[k], {"deleted"}, u)
    <3>1. there # NoText
      BY <2>2, <2>3 DEF Says
    <3>2. \A j \in 1 .. Len(t) : j + 1 \in 1 .. Len(s) /\ t[j] = s[j + 1]
      BY DEF Shorter
    <3>3. CASE kept # NoText /\ \A j \in 1 .. Len(s) : ~Says(s[j], {"deleted"}, u)
      BY <3>1, <3>2, <3>3
    <3>4. ASSUME NEW j \in 1 .. Len(s), Says(s[j], {"created"}, u),
                 \A k \in j .. Len(s) : ~Says(s[k], {"deleted"}, u)
          PROVE  \E l \in 1 .. Len(t) : /\ Says(t[l], {"created"}, u)
                                        /\ \A k \in l .. Len(t) : ~Says(t[k], {"deleted"}, u)
      <4>1. j # 1
        BY <3>4 DEF Says, OnDisk
      <4>2. j - 1 \in 1 .. Len(t) /\ (j - 1) + 1 = j
        BY <4>1 DEF Shorter
      <4>3. Says(t[j - 1], {"created"}, u)
        BY <3>2, <3>4, <4>2
      <4>4. ASSUME NEW k \in j - 1 .. Len(t) PROVE ~Says(t[k], {"deleted"}, u)
        <5>1. k \in 1 .. Len(t) /\ k + 1 \in j .. Len(s)
          BY <4>2 DEF Shorter
        <5>. QED
          BY <3>2, <3>4, <5>1
      <4>. QED
        BY <4>2, <4>3, <4>4
    <3>. QED
      BY <2>1, <2>3, <3>3, <3>4 DEF Told
  <2>. QED
    BY <2>2, <2>3
<1>. QED
  BY <1>1, <1>2 DEF Told

\* Handling what was said of the disk does too: a file that is created and there, or
\* changed, known and there, is known then; one deleted is not.
LEMMA ToldRead ==
    ASSUME NEW s, NEW t, Shorter(t, s), NEW u, NEW kept, NEW there, Told(s, u, kept, there),
           Says(s[1], OnDisk, u), NEW after,
           Says(s[1], {"created"}, u) /\ there # NoText => after # NoText,
           Says(s[1], {"changed"}, u) /\ kept # NoText /\ there # NoText => after # NoText,
           Says(s[1], {"deleted"}, u) => after = NoText
    PROVE  Told(t, u, after, there)
<1>0. 1 \in 1 .. Len(s) /\ \A j \in 1 .. Len(t) : j + 1 \in 1 .. Len(s) /\ t[j] = s[j + 1]
  BY DEF Shorter
<1>1. ASSUME ~Tells(t, u) PROVE after # NoText <=> there # NoText
  <2>1. ASSUME NEW j \in 2 .. Len(s) PROVE ~Says(s[j], OnDisk, u)
    <3>1. j - 1 \in 1 .. Len(t) /\ (j - 1) + 1 = j
      BY DEF Shorter
    <3>. QED
      BY <1>0, <1>1, <3>1 DEF Tells
  <2>2. LastTold(s, 1, u)
    BY <2>1 DEF LastTold
  <2>3. Says(s[1], {"deleted"}, u) <=> there = NoText
    BY <1>0, <2>2 DEF Told
  <2>4. ASSUME Says(s[1], {"changed"}, u) PROVE kept # NoText
    <3>1. ASSUME NEW j \in 1 .. Len(s), Says(s[j], {"created"}, u) PROVE FALSE
      <4>1. j = 1
        BY <2>1, <3>1 DEF Says, OnDisk
      <4>. QED
        BY <2>4, <3>1, <4>1 DEF Says
    <3>. QED
      BY <1>0, <2>2, <2>4, <3>1 DEF Told
  <2>5. Says(s[1], {"created"}, u) \/ Says(s[1], {"changed"}, u) \/ Says(s[1], {"deleted"}, u)
    BY DEF Says, OnDisk
  <2>. QED
    BY <2>3, <2>4, <2>5
<1>2. ASSUME NEW i \in 1 .. Len(t), LastTold(t, i, u)
      PROVE  /\ Says(t[i], {"deleted"}, u) <=> there = NoText
             /\ Says(t[i], {"changed"}, u) =>
                   \/ /\ after # NoText
                      /\ \A j \in 1 .. Len(t) : ~Says(t[j], {"deleted"}, u)
                   \/ \E j \in 1 .. Len(t) :
                         /\ Says(t[j], {"created"}, u)
                         /\ \A k \in j .. Len(t) : ~Says(t[k], {"deleted"}, u)
  <2>1. i + 1 \in 1 .. Len(s) /\ t[i] = s[i + 1] /\ LastTold(s, i + 1, u)
    BY <1>2, LastToldTail
  <2>2. Says(t[i], {"deleted"}, u) <=> there = NoText
    BY <2>1 DEF Told
  <2>3. ASSUME Says(t[i], {"changed"}, u)
        PROVE  \/ /\ after # NoText
                  /\ \A j \in 1 .. Len(t) : ~Says(t[j], {"deleted"}, u)
               \/ \E j \in 1 .. Len(t) :
                     /\ Says(t[j], {"created"}, u)
                     /\ \A k \in j .. Len(t) : ~Says(t[k], {"deleted"}, u)
    <3>1. there # NoText
      BY <2>2, <2>3 DEF Says
    <3>3. CASE kept # NoText /\ \A j \in 1 .. Len(s) : ~Says(s[j], {"deleted"}, u)
      <4>1. after # NoText
        BY <1>0, <3>1, <3>3 DEF Says, OnDisk
      <4>. QED
        BY <1>0, <3>3, <4>1
    <3>4. ASSUME NEW j \in 1 .. Len(s), Says(s[j], {"created"}, u),
                 \A k \in j .. Len(s) : ~Says(s[k], {"deleted"}, u)
          PROVE  \/ /\ after # NoText
                    /\ \A l \in 1 .. Len(t) : ~Says(t[l], {"deleted"}, u)
                 \/ \E l \in 1 .. Len(t) :
                       /\ Says(t[l], {"created"}, u)
                       /\ \A k \in l .. Len(t) : ~Says(t[k], {"deleted"}, u)
      <4>1. CASE j = 1
        BY <1>0, <3>1, <3>4, <4>1
      <4>2. CASE j # 1
        <5>1. j - 1 \in 1 .. Len(t) /\ (j - 1) + 1 = j
          BY <4>2 DEF Shorter
        <5>2. Says(t[j - 1], {"created"}, u)
          BY <1>0, <3>4, <5>1
        <5>3. ASSUME NEW k \in j - 1 .. Len(t) PROVE ~Says(t[k], {"deleted"}, u)
          <6>1. k \in 1 .. Len(t) /\ k + 1 \in j .. Len(s)
            BY <5>1 DEF Shorter
          <6>. QED
            BY <1>0, <3>4, <6>1
        <5>. QED
          BY <5>1, <5>2, <5>3
      <4>. QED
        BY <4>1, <4>2
    <3>. QED
      BY <2>1, <2>3, <3>3, <3>4 DEF Told
  <2>. QED
    BY <2>2, <2>3
<1>. QED
  BY <1>1, <1>2 DEF Told

\* A set of positions has a greatest one.
LEMMA Greatest ==
    ASSUME NEW n \in Nat, NEW I \in SUBSET (0 .. n), I # {}
    PROVE  \E i \in I : \A j \in I : j <= i
<1>. DEFINE Less == {p \in Nat \X Nat : p[1] < p[2]}
            J == {n - i : i \in I}
<1>1. IsWellFoundedOn(Less, Nat)
  BY NatLessThanWellFounded DEF OpToRel
<1>2. J \subseteq Nat /\ J # {}
  <2>1. \A i \in 0 .. n : n - i \in Nat
    OBVIOUS
  <2>2. PICK i \in I : TRUE
    OBVIOUS
  <2>3. n - i \in J
    BY <2>2
  <2>4. \A j \in I : j \in 0 .. n
    OBVIOUS
  <2>. QED
    BY <2>1, <2>3, <2>4
<1>3. \A m, k \in Nat : k < m => <<k, m>> \in Less
  OBVIOUS
<1>4. PICK d \in J : \A k \in J : ~(<<k, d>> \in Less)
  <2>. HIDE DEF J, Less
  <2>. QED
    BY <1>1, <1>2, WFMin
<1>5. \A k \in J : d <= k
  <2>. HIDE DEF Less
  <2>1. \A k \in J : k \in Nat /\ d \in Nat /\ ~(k < d)
    BY <1>2, <1>3, <1>4
  <2>. QED
    BY <2>1
<1>6. PICK i \in I : d = n - i
  BY <1>4
<1>7. ASSUME NEW j \in I PROVE j <= i
  <2>1. n - i <= n - j
    BY <1>5, <1>6
  <2>2. i \in Int /\ j \in Int
    OBVIOUS
  <2>. QED
    BY <2>1, <2>2
<1>. QED
  BY <1>7

\* A message at the end that is not about the disk changes nothing.
LEMMA ToldLonger ==
    ASSUME NEW s, NEW t, NEW m, Longer(t, s, m), NEW u, NEW kept, NEW there,
           Told(s, u, kept, there), ~Says(m, OnDisk, u)
    PROVE  Told(t, u, kept, there) /\ (Tells(t, u) <=> Tells(s, u))
<1>1. /\ \A i \in 1 .. Len(s) : i \in 1 .. Len(t) /\ t[i] = s[i]
      /\ \A i \in 1 .. Len(t) : i \in 1 .. Len(s) \/ (i = Len(s) + 1 /\ t[i] = m)
  BY DEF Longer
<1>2. Tells(t, u) <=> Tells(s, u)
  BY <1>1 DEF Tells
<1>3. ASSUME NEW i \in 1 .. Len(t), LastTold(t, i, u)
      PROVE  /\ Says(t[i], {"deleted"}, u) <=> there = NoText
             /\ Says(t[i], {"changed"}, u) =>
                   \/ /\ kept # NoText
                      /\ \A j \in 1 .. Len(t) : ~Says(t[j], {"deleted"}, u)
                   \/ \E j \in 1 .. Len(t) :
                         /\ Says(t[j], {"created"}, u)
                         /\ \A k \in j .. Len(t) : ~Says(t[k], {"deleted"}, u)
  <2>1. i \in 1 .. Len(s) /\ t[i] = s[i]
    BY <1>1, <1>3 DEF LastTold
  <2>2. ASSUME NEW j \in i + 1 .. Len(s) PROVE ~Says(s[j], OnDisk, u)
    <3>1. j \in 1 .. Len(s) /\ j \in i + 1 .. Len(t)
      BY <2>1 DEF Longer
    <3>. QED
      BY <1>1, <1>3, <3>1 DEF LastTold
  <2>3. LastTold(s, i, u)
    BY <1>3, <2>1, <2>2 DEF LastTold
  <2>4. ~Says(m, {"deleted"}, u)
    BY DEF Says, OnDisk
  <2>5. ASSUME NEW j \in 1 .. Len(s), \A k \in j .. Len(s) : ~Says(s[k], {"deleted"}, u),
               NEW k \in j .. Len(t)
        PROVE  ~Says(t[k], {"deleted"}, u)
    <3>1. CASE k \in j .. Len(s)
      BY <1>1, <2>5, <3>1
    <3>2. CASE k = Len(s) + 1
      BY <2>4, <3>2 DEF Longer
    <3>. QED
      BY <2>5, <3>1, <3>2 DEF Longer
  <2>6. ASSUME NEW j \in 1 .. Len(s), Says(s[j], {"created"}, u),
               \A k \in j .. Len(s) : ~Says(s[k], {"deleted"}, u)
        PROVE  \E l \in 1 .. Len(t) : /\ Says(t[l], {"created"}, u)
                                      /\ \A k \in l .. Len(t) : ~Says(t[k], {"deleted"}, u)
    BY <1>1, <2>5, <2>6
  <2>7. (\A j \in 1 .. Len(s) : ~Says(s[j], {"deleted"}, u)) =>
            \A j \in 1 .. Len(t) : ~Says(t[j], {"deleted"}, u)
    BY <1>1, <2>4
  <2>. QED
    BY <2>1, <2>3, <2>6, <2>7 DEF Told
<1>. QED
  BY <1>2, <1>3 DEF Told

\* What is written to the disk is told, by the message that fits what was there.
LEMMA ToldWritten ==
    ASSUME NEW s, NEW t, NEW m, Longer(t, s, m), NEW u, NEW kept, NEW before, NEW there,
           Told(s, u, kept, before), before # there,
           Says(m, {IF before = NoText THEN "created"
                    ELSE IF there = NoText THEN "deleted" ELSE "changed"}, u)
    PROVE  Told(t, u, kept, there) /\ Tells(t, u)
<1>0. /\ \A i \in 1 .. Len(s) : i \in 1 .. Len(t) /\ t[i] = s[i]
      /\ \A i \in 1 .. Len(t) : i \in 1 .. Len(s) \/ (i = Len(s) + 1 /\ t[i] = m)
      /\ Len(s) + 1 \in 1 .. Len(t) /\ t[Len(s) + 1] = m
  BY DEF Longer
<1>1. Tells(t, u)
  BY <1>0 DEF Tells, Says, OnDisk
<1>2. ASSUME NEW i \in 1 .. Len(t), LastTold(t, i, u) PROVE t[i] = m
  <2>1. CASE i \in 1 .. Len(s)
    <3>1. Len(s) + 1 \in i + 1 .. Len(t)
      BY <2>1 DEF Longer
    <3>. QED
      BY <1>0, <1>2, <3>1 DEF LastTold, Says, OnDisk
  <2>. QED
    BY <1>0, <1>2, <2>1
<1>3. Says(m, {"deleted"}, u) <=> there = NoText
  BY DEF Says
<1>4. ASSUME Says(m, {"changed"}, u)
      PROVE  \/ /\ kept # NoText
                /\ \A j \in 1 .. Len(t) : ~Says(t[j], {"deleted"}, u)
             \/ \E j \in 1 .. Len(t) :
                   /\ Says(t[j], {"created"}, u)
                   /\ \A k \in j .. Len(t) : ~Says(t[k], {"deleted"}, u)
  <2>1. before # NoText /\ ~Says(m, {"deleted"}, u)
    BY <1>4 DEF Says
  <2>2. CASE ~Tells(s, u)
    <3>1. \A j \in 1 .. Len(s) : ~Says(s[j], {"deleted"}, u)
      BY <2>2 DEF Tells, Says, OnDisk
    <3>. QED
      BY <1>0, <2>1, <2>2, <3>1 DEF Told
  <2>3. CASE Tells(s, u)
    <3>. DEFINE I == {i \in 1 .. Len(s) : Says(s[i], OnDisk, u)}
    <3>1. \E i \in I : \A j \in I : j <= i
      <4>1. I \subseteq 0 .. Len(s) /\ I # {} /\ Len(s) \in Nat
        BY <2>3 DEF Tells, Longer
      <4>. HIDE DEF I
      <4>. QED
        BY <4>1, Greatest
    <3>2. PICK i \in 1 .. Len(s) : LastTold(s, i, u)
      <4>1. PICK i \in I : \A j \in I : j <= i
        BY <3>1
      <4>2. \A j \in i + 1 .. Len(s) : j \in 1 .. Len(s) /\ ~(j <= i)
        BY DEF Longer
      <4>. QED
        BY <4>1, <4>2 DEF LastTold
    <3>3. ~Says(s[i], {"deleted"}, u)
      BY <2>1, <3>2 DEF Told
    <3>4. ASSUME NEW j \in 1 .. Len(s), Says(s[j], {"created"}, u),
                 \A k \in j .. Len(s) : ~Says(s[k], {"deleted"}, u)
          PROVE  \E l \in 1 .. Len(t) :
                    /\ Says(t[l], {"created"}, u)
                    /\ \A k \in l .. Len(t) : ~Says(t[k], {"deleted"}, u)
      <4>1. ASSUME NEW k \in j .. Len(t) PROVE ~Says(t[k], {"deleted"}, u)
        <5>1. k \in 1 .. Len(t)
          OBVIOUS
        <5>2. CASE k \in 1 .. Len(s)
          BY <1>0, <3>4, <5>2
        <5>. QED
          BY <1>0, <2>1, <5>1, <5>2
      <4>. QED
        BY <1>0, <3>4, <4>1
    <3>5. CASE Says(s[i], {"created"}, u)
      <4>1. ASSUME NEW k \in i .. Len(s) PROVE ~Says(s[k], {"deleted"}, u)
        BY <3>2, <3>3 DEF LastTold, Says, OnDisk
      <4>. QED
        BY <3>4, <3>5, <4>1
    <3>6. CASE Says(s[i], {"changed"}, u)
      <4>1. \/ kept # NoText /\ \A j \in 1 .. Len(s) : ~Says(s[j], {"deleted"}, u)
            \/ \E j \in 1 .. Len(s) :
                  /\ Says(s[j], {"created"}, u)
                  /\ \A k \in j .. Len(s) : ~Says(s[k], {"deleted"}, u)
        BY <3>2, <3>6 DEF Told
      <4>. QED
        BY <1>0, <2>1, <3>4, <4>1
    <3>. QED
      BY <3>2, <3>3, <3>5, <3>6 DEF LastTold, Says, OnDisk
  <2>. QED
    BY <2>2, <2>3
<1>. QED
  BY <1>0, <1>1, <1>2, <1>3, <1>4 DEF Told

-----------------------------------------------------------------------------
\* Handling the first message: what it opens is open, what it closes is not.
LEMMA OpenByTail ==
    ASSUME NEW s, NEW t, Shorter(t, s), NEW n \in 0 .. Len(t), NEW u, NEW before, NEW after,
           OpenBy(s, n + 1, u, before),
           Brings(s[1], u) => after # 0,
           before # 0 /\ ~Says(s[1], {"close"}, u) => after # 0
    PROVE  OpenBy(t, n, u, after)
<1>1. \A k \in 1 .. n : k \in 1 .. Len(t) /\ k + 1 \in 1 .. n + 1 /\ t[k] = s[k + 1]
  BY DEF Shorter
<1>2. ASSUME NEW j \in 1 .. n + 1, Brings(s[j], u),
             \A k \in j + 1 .. n + 1 : ~Says(s[k], {"close"}, u)
      PROVE  OpenBy(t, n, u, after)
  <2>1. CASE j = 1
    <3>1. \A k \in 1 .. n : k + 1 \in j + 1 .. n + 1
      BY <2>1
    <3>. QED
      BY <1>1, <1>2, <2>1, <3>1 DEF OpenBy
  <2>2. CASE j # 1
    <3>1. j - 1 \in 1 .. n /\ (j - 1) + 1 = j
      BY <2>2 DEF Shorter
    <3>2. ASSUME NEW k \in (j - 1) + 1 .. n PROVE ~Says(t[k], {"close"}, u)
      <4>1. k \in 1 .. n /\ k + 1 \in j + 1 .. n + 1
        BY <3>1
      <4>. QED
        BY <1>1, <1>2, <4>1
    <3>. QED
      BY <1>1, <1>2, <3>1, <3>2 DEF OpenBy
  <2>. QED
    BY <2>1, <2>2
<1>3. ASSUME before # 0, \A k \in 1 .. n + 1 : ~Says(s[k], {"close"}, u)
      PROVE  OpenBy(t, n, u, after)
  <2>1. 1 \in 1 .. n + 1
    OBVIOUS
  <2>. QED
    BY <1>1, <1>3, <2>1 DEF OpenBy
<1>. QED
  BY <1>2, <1>3 DEF OpenBy

\* Nothing at the end changes what was to be open before it.
LEMMA OpenByLonger ==
    ASSUME NEW s, NEW t, NEW m, Longer(t, s, m), NEW n \in 0 .. Len(s), NEW u, NEW version,
           OpenBy(s, n, u, version)
    PROVE  OpenBy(t, n, u, version)
<1>1. \A k \in 1 .. n : t[k] = s[k]
  BY DEF Longer
<1>2. \A j \in 1 .. n : \A k \in j + 1 .. n : k \in 1 .. n
  OBVIOUS
<1>. QED
  BY <1>1, <1>2 DEF OpenBy

\* What is opened is open at the end, and what was stays unless it is closed.
LEMMA OpenByEnd ==
    ASSUME NEW s, NEW t, NEW m, Longer(t, s, m), NEW u, NEW version,
           Brings(m, u) \/ (OpenBy(s, Len(s), u, version) /\ ~Says(m, {"close"}, u))
    PROVE  OpenBy(t, Len(t), u, version)
<1>1. Len(t) = Len(s) + 1 /\ Len(s) \in Nat /\ t[Len(t)] = m
      /\ \A k \in 1 .. Len(s) : t[k] = s[k]
  BY DEF Longer
<1>2. CASE Brings(m, u)
  <2>1. Len(t) \in 1 .. Len(t) /\ \A k \in Len(t) + 1 .. Len(t) : FALSE
    BY <1>1
  <2>. QED
    BY <1>1, <1>2, <2>1 DEF OpenBy
<1>3. CASE OpenBy(s, Len(s), u, version) /\ ~Says(m, {"close"}, u)
  <2>1. ASSUME NEW j \in 0 .. Len(s), \A k \in j + 1 .. Len(s) : ~Says(s[k], {"close"}, u),
               NEW k \in j + 1 .. Len(t)
        PROVE  ~Says(t[k], {"close"}, u)
    <3>1. k \in j + 1 .. Len(s) \/ k = Len(t)
      BY <1>1
    <3>2. k \in j + 1 .. Len(s) => k \in 1 .. Len(s)
      BY <1>1
    <3>. QED
      BY <1>1, <1>3, <2>1, <3>1, <3>2
  <2>2. \A j \in 1 .. Len(s) : j \in 1 .. Len(t) /\ j \in 0 .. Len(s)
    BY <1>1
  <2>3. CASE version # 0 /\ \A k \in 1 .. Len(s) : ~Says(s[k], {"close"}, u)
    <3>1. 0 \in 0 .. Len(s) /\ 0 + 1 = 1
      BY <1>1
    <3>2. \A z \in 0 .. Len(s) : z = 0 => \A k \in z + 1 .. Len(t) : ~Says(t[k], {"close"}, u)
      BY <2>1, <2>3, <3>1
    <3>3. \A k \in 1 .. Len(t) : ~Says(t[k], {"close"}, u)
      BY <3>1, <3>2
    <3>. QED
      BY <2>3, <3>3 DEF OpenBy
  <2>4. CASE \E j \in 1 .. Len(s) :
                Brings(s[j], u) /\ \A k \in j + 1 .. Len(s) : ~Says(s[k], {"close"}, u)
    BY <1>1, <2>1, <2>2, <2>4 DEF OpenBy
  <2>. QED
    BY <1>3, <2>3, <2>4 DEF OpenBy
<1>. QED
  BY <1>2, <1>3

-----------------------------------------------------------------------------
(* What the steps do to the stream.                                         *)

LEMMA StreamIs == Typed => Stream \in Seq(Loop!Message) /\ Len(Stream) \in Nat
<1>. SUFFICES ASSUME Typed PROVE Stream \in Seq(Loop!Message) /\ Len(Stream) \in Nat
  OBVIOUS
<1>1. Loop!Stream \in Seq(Loop!Message)
  BY LoopAssumption, Loop!StreamType DEF Typed
<1>. QED
  BY <1>1 DEF Stream

\* The editor brings a text of `u`, says that its buffer is closed, writes to the disk,
\* or says nothing of files.
BringsText(u) ==
    /\ \E m : Longer(Stream', Stream, m) /\ Brings(m, u)
    /\ UNCHANGED disk /\ \A v \in Uri \ {u} : buffer'[v] = buffer[v]

SaysClosed(u) ==
    /\ \E m : Longer(Stream', Stream, m) /\ Says(m, {"close"}, u)
    /\ buffer[u].text # NoText /\ buffer'[u].text = NoText
    /\ UNCHANGED disk /\ \A v \in Uri \ {u} : buffer'[v] = buffer[v]

Writes(u, text) ==
    /\ text # disk[u] /\ disk' = [disk EXCEPT ![u] = text] /\ UNCHANGED buffer
    /\ IF watching
       THEN \E m : /\ Longer(Stream', Stream, m)
                   /\ Says(m, {IF disk[u] = NoText THEN "created"
                               ELSE IF text = NoText THEN "deleted" ELSE "changed"}, u)
       ELSE Stream' = Stream

SaysElse ==
    /\ UNCHANGED editorVars
    /\ \/ Stream' = Stream
       \/ \E m : Longer(Stream', Stream, m) /\ (m.kind # "note" \/ m.note.what = "configure")

LEMMA EditorMoves ==
    ASSUME Typed, Editor
    PROVE  /\ UNCHANGED <<checkerVars, shown, stateVars>>
           /\ \/ \E u \in Uri : BringsText(u) \/ SaysClosed(u)
              \/ \E u \in Uri, text \in Anything : Writes(u, text)
              \/ SaysElse
<1>0. Len(Stream) \in Nat
  BY StreamIs
<1>1. ASSUME NEW note \in Notification, Srv!SendNote(note)
      PROVE  \E m : Longer(Stream', Stream, m) /\ m.kind = "note" /\ m.note = note
  <2>1. PICK m \in Loop!Message : Loop!Appended(m) /\ m.kind = "note" /\ m.note = note
    BY <1>1, NoteSent DEF Typed
  <2>2. Longer(Stream', Stream, m)
    BY <1>0, <2>1 DEF Loop!Appended, Longer, Stream
  <2>. QED
    BY <2>1, <2>2
<1>2. ASSUME NEW u \in Uri, NEW text \in Text, NEW version \in Version,
             NEW what \in {"open", "change"},
             Srv!SendNote([what |-> what, uri |-> u, version |-> version, text |-> text]),
             buffer' = [buffer EXCEPT ![u] = [version |-> version, text |-> text]],
             UNCHANGED disk
      PROVE  BringsText(u)
  <2>. DEFINE note == [what |-> what, uri |-> u, version |-> version, text |-> text]
  <2>1. note \in Notification
    BY DEF Notification
  <2>2. PICK m : Longer(Stream', Stream, m) /\ m.kind = "note" /\ m.note = note
    BY <1>1, <1>2, <2>1
  <2>3. Brings(m, u)
    BY <2>2 DEF Brings
  <2>4. \A v \in Uri \ {u} : buffer'[v] = buffer[v]
    BY <1>2 DEF Typed, TypedEditor
  <2>. QED
    BY <1>2, <2>2, <2>3, <2>4 DEF BringsText
<1>3. ASSUME NEW u \in Uri, NEW text \in Text, EditorOpens(u, text) PROVE BringsText(u)
  <2>. DEFINE version == IF FreshVersions THEN buffer[u].version + 1 ELSE 1
  <2>1. version \in Version
    BY <1>3, LanguageServerAssumption
       DEF EditorOpens, Typed, TypedEditor, Version, LanguageServerAssumption
  <2>2. /\ buffer' = [buffer EXCEPT ![u] = [version |-> version, text |-> text]]
        /\ Srv!SendNote([what |-> "open", uri |-> u, version |-> version, text |-> text])
        /\ UNCHANGED disk
    BY <1>3 DEF EditorOpens
  <2>. HIDE DEF version
  <2>. QED
    BY <1>2, <2>1, <2>2
<1>4. ASSUME NEW u \in Uri, NEW text \in Text, EditorEdits(u, text) PROVE BringsText(u)
  <2>. DEFINE version == buffer[u].version + 1
  <2>1. version \in Version
    BY <1>4, LanguageServerAssumption
       DEF EditorEdits, Typed, TypedEditor, Version, LanguageServerAssumption
  <2>2. /\ buffer' = [buffer EXCEPT ![u] = [version |-> version, text |-> text]]
        /\ Srv!SendNote([what |-> "change", uri |-> u, version |-> version, text |-> text])
        /\ UNCHANGED disk
    BY <1>4 DEF EditorEdits
  <2>. HIDE DEF version
  <2>. QED
    BY <1>2, <2>1, <2>2
<1>5. ASSUME NEW u \in Uri, EditorCloses(u) PROVE SaysClosed(u)
  <2>1. [what |-> "close", uri |-> u] \in Notification
    BY DEF Notification
  <2>2. PICK m : Longer(Stream', Stream, m) /\ m.kind = "note"
                 /\ m.note = [what |-> "close", uri |-> u]
    BY <1>1, <1>5, <2>1 DEF EditorCloses
  <2>3. Says(m, {"close"}, u)
    BY <2>2 DEF Says
  <2>4. buffer'[u].text = NoText /\ \A v \in Uri \ {u} : buffer'[v] = buffer[v]
    BY <1>5 DEF EditorCloses, Typed, TypedEditor
  <2>. QED
    BY <1>5, <2>2, <2>3, <2>4 DEF EditorCloses, SaysClosed
<1>6. ASSUME NEW u \in Uri, NEW text \in Anything, DiskChanges(u, text) PROVE Writes(u, text)
  <2>. DEFINE what == IF disk[u] = NoText THEN "created"
                      ELSE IF text = NoText THEN "deleted" ELSE "changed"
  <2>1. [what |-> what, uri |-> u] \in Notification
    BY DEF Notification
  <2>2. CASE watching
    <3>1. Srv!SendNote([what |-> what, uri |-> u])
      BY <1>6, <2>2 DEF DiskChanges
    <3>. HIDE DEF what
    <3>2. PICK m : Longer(Stream', Stream, m) /\ m.kind = "note"
                   /\ m.note = [what |-> what, uri |-> u]
      BY <1>1, <2>1, <3>1
    <3>3. Says(m, {what}, u)
      BY <3>2 DEF Says
    <3>. QED
      BY <1>6, <2>2, <3>2, <3>3 DEF DiskChanges, Writes, what
  <2>3. CASE ~watching
    <3>1. Stream' = Stream
      BY <1>6, <2>3 DEF DiskChanges, serveVars, Stream, Loop!Stream
    <3>. QED
      BY <1>6, <2>3, <3>1 DEF DiskChanges, Writes
  <2>. QED
    BY <2>2, <2>3
<1>7. ASSUME NEW types \in Settings, EditorConfigures(types) PROVE SaysElse
  <2>1. [what |-> "configure", settings |-> types] \in Notification
    BY DEF Notification
  <2>2. PICK m : Longer(Stream', Stream, m) /\ m.kind = "note"
                 /\ m.note = [what |-> "configure", settings |-> types]
    BY <1>1, <1>7, <2>1 DEF EditorConfigures
  <2>. QED
    BY <1>7, <2>2 DEF EditorConfigures, SaysElse
<1>8. ASSUME \/ \E kind \in Srv!Requests : Srv!SendRequest(kind)
             \/ \E r \in Srv!Request : Srv!SendCancel(r)
             \/ Srv!SendResponse \/ Srv!SendExit \/ Srv!Disconnect,
             UNCHANGED editorVars
      PROVE  SaysElse
  <2>1. \/ Stream' = Stream
        \/ \E m \in Loop!Message : Loop!Appended(m) /\ m.kind # "note"
    BY <1>8, OtherSent DEF Typed
  <2>2. \A m : Loop!Appended(m) => Longer(Stream', Stream, m)
    BY <1>0 DEF Loop!Appended, Longer, Stream
  <2>. QED
    BY <1>8, <2>1, <2>2 DEF SaysElse
<1>. QED
  BY <1>3, <1>4, <1>5, <1>6, <1>7, <1>8 DEF Editor

\* The first message is handled.
LEMMA TailShorter ==
    ASSUME Typed, Stream # <<>>, Stream' = Tail(Stream)
    PROVE  Shorter(Stream', Stream) /\ Stream[1] \in Loop!Message
<1>1. Stream \in Seq(Loop!Message) /\ Len(Stream) \in Nat /\ Len(Stream) # 0
  BY StreamIs, EmptySeq
<1>2. Len(Stream') = Len(Stream) - 1 /\ \A i \in 1 .. Len(Stream') : Stream'[i] = Stream[i + 1]
  BY <1>1
<1>3. 1 \in 1 .. Len(Stream)
  BY <1>1
<1>4. Stream[1] \in Loop!Message
  BY <1>1, <1>3
<1>. QED
  BY <1>1, <1>2, <1>4 DEF Shorter

\* A notification is handled by `sync` alone.
LEMMA ServerQuiet ==
    ASSUME Typed, Loop!NothingAhead, Server, ~Sync
    PROVE  \/ Stream' = Stream
           \/ Shorter(Stream', Stream) /\ Stream[1].kind # "note"
<1>. DEFINE Goal == \/ Stream' = Stream
                    \/ Shorter(Stream', Stream) /\ Stream[1].kind # "note"
<1>0. Loop!TypeOK
  BY DEF Typed
<1>1. ASSUME UNCHANGED <<queue, inbox>> PROVE Goal
  BY <1>1 DEF Stream, Loop!Stream
<1>2. ASSUME NEW kinds, "note" \notin kinds, Loop!Pop(kinds) PROVE Goal
  <2>1. Stream # <<>> /\ Stream' = Tail(Stream) /\ Stream[1] = Head(queue)
    BY <1>0, <1>2, LoopAssumption, Loop!PopStream DEF Stream
  <2>2. Head(queue).kind \in kinds
    BY <1>2 DEF Loop!Pop
  <2>. QED
    BY <1>2, <2>1, <2>2, TailShorter
<1>3. ASSUME NEW kinds, "note" \notin kinds, Loop!Overhear(kinds), UNCHANGED queue PROVE Goal
  <2>1. Stream # <<>> /\ Stream' = Tail(Stream) /\ Stream[1] = Head(inbox)
    BY <1>0, <1>3, LoopAssumption, Loop!OverhearStream DEF Stream
  <2>2. Head(inbox).kind \in kinds
    BY <1>3 DEF Loop!Overhear
  <2>. QED
    BY <1>3, <2>1, <2>2, TailShorter
<1>4. ASSUME inbox # <<>>, inbox' = Tail(inbox), queue' = Append(queue, Head(inbox)) PROVE Goal
  BY <1>0, <1>4, LoopAssumption, Loop!MoveStream DEF Stream
<1>5. CASE Aside(Srv!Receive)
  BY <1>4, <1>5 DEF Aside, Srv!Receive
<1>6. CASE ServeMessages
  <2>1. \/ Loop!RefuseCancelled \/ Loop!ServeRequest \/ Loop!ServeShutdown \/ Loop!Ignore
    BY <1>6, SameLoop DEF ServeMessages, Aside
  <2>2. \/ Loop!Pop(Loop!Requests) \/ Loop!Pop({"read", "format"}) \/ Loop!Pop({"shutdown"})
        \/ Loop!Pop({"cancel", "exit", "response"})
    BY <2>1 DEF Loop!RefuseCancelled, Loop!ServeRequest, Loop!ServeShutdown, Loop!Ignore
  <2>. QED
    BY <1>2, <2>2 DEF Loop!Requests
<1>7. CASE Overhear
  <2>1. Loop!AnswerInferring \/ Loop!IgnoreInferring \/ Srv!StopForMessage
    BY <1>7, SamePass DEF Overhear, Aside
  <2>2. \/ Loop!Overhear({"read", "format"}) /\ UNCHANGED queue
        \/ Loop!Overhear({"response", "cancel"}) /\ UNCHANGED queue
        \/ inbox # <<>> /\ inbox' = Tail(inbox) /\ queue' = Append(queue, Head(inbox))
    BY <2>1 DEF Loop!AnswerInferring, Loop!IgnoreInferring, Srv!StopForMessage, Srv!Overhear
  <2>. QED
    BY <1>3, <1>4, <2>2
<1>8. CASE \/ Aside(Srv!LeaveAfterShutdown) \/ Aside(Srv!ClientGone) \/ BeginPass
           \/ InferFiles \/ Aside(Srv!StopForCheck) \/ Aside(Srv!StopForNobody)
           \/ \E r \in Srv!Request : Aside(Srv!FormatDone(r))
  BY <1>1, <1>8 DEF Aside, Srv!LeaveAfterShutdown, Srv!ClientGone, BeginPass, Srv!BeginPass,
     InferFiles, Srv!PickFile, Srv!ReadFile, Srv!EndWalk, Srv!StopForCheck, Srv!StopForNobody,
     Srv!FormatDone, Srv!clientVars
<1>9. CASE Publish \/ PublishUninferred \/ EndPass
  BY <1>1, <1>9 DEF Publish, Srv!Publish, PublishUninferred, Srv!PublishUninferred, EndPass,
     Srv!EndPass, Srv!clientVars
<1>. QED
  BY <1>5, <1>6, <1>7, <1>8, <1>9 DEF Server

\* The server hears a notification; or all it goes by stays as it is.
Hears == Sync /\ Shorter(Stream', Stream) /\ Stream[1] = Head(queue)
         /\ UNCHANGED <<watching, disk, buffer>>
Elsewhere ==
    /\ ~Sync /\ UNCHANGED <<watching, open, indexed, index, disk, buffer>>
    /\ Stream' = Stream \/ (Shorter(Stream', Stream) /\ Stream[1].kind # "note")

LEMMA StreamMoves ==
    ASSUME Typed, Loop!NothingAhead, [Next]_vars
    PROVE  Editor \/ Hears \/ Elsewhere
<1>1. CASE Sync
  <2>1. Loop!Pop({"note"})
    BY <1>1, SameLoop DEF Sync, Loop!Notify
  <2>2. Stream # <<>> /\ Stream' = Tail(Stream) /\ Stream[1] = Head(queue)
    BY <2>1, LoopAssumption, Loop!PopStream DEF Typed, Stream
  <2>. QED
    BY <1>1, <2>2, TailShorter DEF Sync, editorVars, Hears
<1>2. CASE ~Sync /\ Server
  <2>1. UNCHANGED <<watching, open, indexed, index, disk, buffer>>
    BY <1>2, ServerSteps
       DEF Publish, PublishUninferred, EndPass, PublishFindings, stateVars, editorVars
  <2>. QED
    BY <1>2, <2>1, ServerQuiet DEF Elsewhere
<1>3. CASE ~Sync /\ CheckerThread
  BY <1>3, CheckerFrame DEF Elsewhere, stateVars, editorVars, Stream, Loop!Stream
<1>4. CASE ~Sync /\ UNCHANGED vars
  BY <1>4 DEF vars, serveVars, stateVars, editorVars, Elsewhere, Stream, Loop!Stream
<1>. QED
  BY <1>1, <1>2, <1>3, <1>4 DEF Next

-----------------------------------------------------------------------------
(* What a notification does to what is kept of the files.                   *)

\* Nothing to other files, except that without a watching client closing a buffer
\* scans the workspace.
LEMMA SyncElse ==
    ASSUME Typed, Sync, NEW v \in Uri,
           Head(queue).note.what = "configure" \/ v # Head(queue).note.uri
    PROVE  /\ open'[v] = open[v] /\ (v \in indexed' <=> v \in indexed)
           /\ watching \/ IsOpen(v) \/ Unscanned => index'[v] = index[v]
<1>. DEFINE n == Head(queue).note
<1>1. /\ SyncText(n) \/ SyncClose(n) \/ SyncDisk(n) \/ SyncSettings(n)
      /\ n.what \in {"open", "change", "close", "created", "changed", "deleted"} => n.uri \in Uri
  BY NoteType DEF Sync, Typed
<1>2. open \in [Uri -> Version \cup {0}] /\ index \in [Uri -> Anything]
  BY DEF Typed, TypedState
<1>3. n.what = "configure" \/ v # n.uri
  OBVIOUS
<1>. HIDE DEF n
<1>4. CASE SyncText(n)
  BY <1>1, <1>2, <1>3, <1>4 DEF SyncText
<1>5. CASE SyncClose(n)
  <2>. DEFINE restored == [index EXCEPT ![n.uri] = Restored(n.uri)]
  <2>1. /\ n.uri \in Uri /\ v # n.uri /\ open' = [open EXCEPT ![n.uri] = 0]
        /\ indexed' = indexed \ {n.uri}
        /\ index' = IF watching THEN restored ELSE Rescanned(restored, open')
    BY <1>1, <1>3, <1>5 DEF SyncClose
  <2>2. open'[v] = open[v] /\ (v \in indexed' <=> v \in indexed) /\ restored[v] = index[v]
    BY <1>2, <2>1
  <2>3. watching \/ IsOpen(v) => index'[v] = index[v]
    <3>. HIDE DEF restored
    <3>. QED
      BY <2>1, <2>2 DEF Rescanned, IsOpen
  <2>4. ~watching /\ Unscanned => index'[v] = index[v] \/ IsOpen(v)
    BY <2>2 DEF Unscanned, IsOpen
  <2>. QED
    BY <2>2, <2>3, <2>4
<1>6. CASE SyncDisk(n)
  <2>. DEFINE known == IF n.what = "created" THEN disk[n.uri] # NoText ELSE index[n.uri] # NoText
              read == IF n.what = "deleted" THEN NoText ELSE disk[n.uri]
  <2>1. /\ n.uri \in Uri /\ v # n.uri /\ open' = open
        /\ indexed' = IF ~known \/ ~IsOpen(n.uri) THEN indexed
                      ELSE IF n.what = "deleted" THEN indexed \ {n.uri} ELSE indexed \cup {n.uri}
        /\ index' = IF ~known \/ IsOpen(n.uri) THEN index ELSE [index EXCEPT ![n.uri] = read]
    BY <1>1, <1>3, <1>6 DEF SyncDisk
  <2>. HIDE DEF known, read
  <2>. QED
    BY <1>2, <2>1
<1>7. CASE SyncSettings(n)
  BY <1>7 DEF SyncSettings
<1>. QED
  BY <1>1, <1>4, <1>5, <1>6, <1>7

\* A buffer is opened or changed.
LEMMA SyncTextHere ==
    ASSUME Typed, Sync, NEW u \in Uri, Brings(Head(queue), u)
    PROVE  /\ SyncText(Head(queue).note) /\ Head(queue).note.uri = u
           /\ open'[u] = Head(queue).note.version /\ open'[u] # 0 /\ index'[u] \in Text
           /\ index'[u] = Head(queue).note.text
           /\ Kept(u)' # NoText <=> Kept(u) # NoText
<1>. DEFINE n == Head(queue).note
<1>1. /\ SyncText(n) \/ SyncClose(n) \/ SyncDisk(n) \/ SyncSettings(n)
      /\ n.what \in {"open", "change"} => n.uri \in Uri /\ n.version \in Version /\ n.text \in Text
      /\ n.what \in {"open", "change"} /\ n.uri = u
  BY NoteType DEF Sync, Typed, Brings
<1>2. open \in [Uri -> Version \cup {0}] /\ index \in [Uri -> Anything]
  BY DEF Typed, TypedState
<1>. HIDE DEF n
<1>3. SyncText(n)
  BY <1>1 DEF SyncClose, SyncDisk, SyncSettings
<1>4. /\ open'[u] = n.version /\ index'[u] = n.text /\ n.version # 0 /\ n.text \in Text
      /\ indexed' = IF IsOpen(u) THEN indexed
                    ELSE IF index[u] # NoText THEN indexed \cup {u} ELSE indexed \ {u}
  BY <1>1, <1>2, <1>3 DEF SyncText, Version
<1>5. n.text # NoText
  BY <1>4, LanguageServerAssumption DEF LanguageServerAssumption
<1>6. IsOpen(u) => index[u] # NoText
  BY LanguageServerAssumption DEF LanguageServerAssumption, Typed, OpenTexts
<1>7. Kept(u)' # NoText <=> Kept(u) # NoText
  BY <1>4, <1>5, <1>6 DEF Kept, IsOpen
<1>. QED
  BY <1>1, <1>3, <1>4, <1>7 DEF n

\* A buffer is closed.
LEMMA SyncCloseHere ==
    ASSUME Typed, Sync, NEW u \in Uri, Says(Head(queue), {"close"}, u)
    PROVE  /\ SyncClose(Head(queue).note) /\ Head(queue).note.uri = u
           /\ open'[u] = 0 /\ indexed' = indexed \ {u}
           /\ watching => index'[u] = Restored(u)
<1>. DEFINE n == Head(queue).note
<1>1. /\ SyncText(n) \/ SyncClose(n) \/ SyncDisk(n) \/ SyncSettings(n)
      /\ n.what = "close" /\ n.uri = u
  BY DEF Sync, Says
<1>2. open \in [Uri -> Version \cup {0}] /\ index \in [Uri -> Anything]
  BY DEF Typed, TypedState
<1>. HIDE DEF n
<1>3. SyncClose(n)
  BY <1>1 DEF SyncText, SyncDisk, SyncSettings
<1>. QED
  BY <1>1, <1>2, <1>3 DEF SyncClose, n

\* The disk is looked at.
Looked(what, u) == IF what = "created" THEN disk[u] # NoText ELSE index[u] # NoText

LEMMA SyncDiskHere ==
    ASSUME Typed, Sync, NEW u \in Uri, Says(Head(queue), OnDisk, u)
    PROVE  LET what == Head(queue).note.what
           IN /\ SyncDisk(Head(queue).note) /\ Head(queue).note.uri = u /\ what \in OnDisk
              /\ open' = open
              /\ indexed' = IF ~Looked(what, u) \/ ~IsOpen(u) THEN indexed
                            ELSE IF what = "deleted" THEN indexed \ {u} ELSE indexed \cup {u}
              /\ index'[u] = IF ~Looked(what, u) \/ IsOpen(u) THEN index[u]
                             ELSE IF what = "deleted" THEN NoText ELSE disk[u]
              /\ Check(IF Looked(what, u) THEN OpenImporters({u}) ELSE {})
<1>. DEFINE n == Head(queue).note
<1>1. /\ SyncText(n) \/ SyncClose(n) \/ SyncDisk(n) \/ SyncSettings(n)
      /\ n.what \in OnDisk /\ n.uri = u
  BY DEF Sync, Says
<1>2. index \in [Uri -> Anything]
  BY DEF Typed, TypedState
<1>. HIDE DEF n
<1>3. SyncDisk(n)
  BY <1>1 DEF SyncText, SyncClose, SyncSettings, OnDisk
<1>4. /\ open' = open
      /\ indexed' = IF ~Looked(n.what, u) \/ ~IsOpen(u) THEN indexed
                    ELSE IF n.what = "deleted" THEN indexed \ {u} ELSE indexed \cup {u}
      /\ index' = IF ~Looked(n.what, u) \/ IsOpen(u) THEN index
                  ELSE [index EXCEPT ![u] = IF n.what = "deleted" THEN NoText ELSE disk[u]]
      /\ Check(IF Looked(n.what, u) THEN OpenImporters({u}) ELSE {})
  BY <1>1, <1>3 DEF SyncDisk, Looked
<1>. QED
  BY <1>1, <1>2, <1>3, <1>4 DEF n

-----------------------------------------------------------------------------
(* Only what is open is closed.                                             *)

LEMMA ClosesOpenStep ==
    ASSUME Typed, ClosesOpen, Editor \/ Hears \/ Elsewhere
    PROVE  ClosesOpen'
<1>. SUFFICES ASSUME NEW v \in Uri
     PROVE  /\ buffer'[v].text # NoText => OpenBy(Stream', Len(Stream'), v, open'[v])
            /\ \A i \in 1 .. Len(Stream') :
                  Says(Stream'[i], {"close"}, v) => OpenBy(Stream', i - 1, v, open'[v])
  BY DEF ClosesOpen
<1>0. /\ buffer[v].text # NoText => OpenBy(Stream, Len(Stream), v, open[v])
      /\ \A i \in 1 .. Len(Stream) :
            Says(Stream[i], {"close"}, v) => OpenBy(Stream, i - 1, v, open[v])
  BY DEF ClosesOpen
<1>1. CASE Stream' = Stream /\ buffer'[v].text = buffer[v].text /\ open'[v] = open[v]
  BY <1>0, <1>1
<1>2. ASSUME Shorter(Stream', Stream), UNCHANGED buffer,
             Brings(Stream[1], v) => open'[v] # 0,
             open[v] # 0 /\ ~Says(Stream[1], {"close"}, v) => open'[v] # 0
      PROVE  /\ buffer'[v].text # NoText => OpenBy(Stream', Len(Stream'), v, open'[v])
             /\ \A i \in 1 .. Len(Stream') :
                   Says(Stream'[i], {"close"}, v) => OpenBy(Stream', i - 1, v, open'[v])
  <2>1. ASSUME NEW n \in 0 .. Len(Stream'), OpenBy(Stream, n + 1, v, open[v])
        PROVE  OpenBy(Stream', n, v, open'[v])
    BY <1>2, <2>1, OpenByTail
  <2>2. Len(Stream') + 1 = Len(Stream) /\ Len(Stream') \in 0 .. Len(Stream')
    BY <1>2 DEF Shorter
  <2>3. ASSUME NEW i \in 1 .. Len(Stream'), Says(Stream'[i], {"close"}, v)
        PROVE  OpenBy(Stream', i - 1, v, open'[v])
    <3>1. /\ i + 1 \in 1 .. Len(Stream) /\ Stream'[i] = Stream[i + 1]
          /\ (i + 1) - 1 = (i - 1) + 1 /\ i - 1 \in 0 .. Len(Stream')
      BY <1>2 DEF Shorter
    <3>2. OpenBy(Stream, (i - 1) + 1, v, open[v])
      BY <1>0, <2>3, <3>1
    <3>. QED
      BY <2>1, <3>1, <3>2
  <2>4. buffer'[v].text # NoText => OpenBy(Stream', Len(Stream'), v, open'[v])
    BY <1>0, <1>2, <2>1, <2>2
  <2>. QED
    BY <2>3, <2>4
<1>3. ASSUME NEW m, Longer(Stream', Stream, m), open'[v] = open[v],
             Says(m, {"close"}, v) => buffer[v].text # NoText /\ buffer'[v].text = NoText,
             Brings(m, v) \/ Says(m, {"close"}, v) \/ buffer'[v] = buffer[v]
      PROVE  /\ buffer'[v].text # NoText => OpenBy(Stream', Len(Stream'), v, open'[v])
             /\ \A i \in 1 .. Len(Stream') :
                   Says(Stream'[i], {"close"}, v) => OpenBy(Stream', i - 1, v, open'[v])
  <2>1. ASSUME NEW n \in 0 .. Len(Stream), OpenBy(Stream, n, v, open[v])
        PROVE  OpenBy(Stream', n, v, open'[v])
    BY <1>3, <2>1, OpenByLonger
  <2>2. ASSUME NEW i \in 1 .. Len(Stream'), Says(Stream'[i], {"close"}, v)
        PROVE  OpenBy(Stream', i - 1, v, open'[v])
    <3>1. CASE i \in 1 .. Len(Stream)
      <4>1. i - 1 \in 0 .. Len(Stream) /\ Stream'[i] = Stream[i]
        BY <1>3, <3>1 DEF Longer
      <4>. QED
        BY <1>0, <2>1, <2>2, <3>1, <4>1
    <3>2. CASE i = Len(Stream) + 1
      <4>1. i - 1 = Len(Stream) /\ Len(Stream) \in 0 .. Len(Stream) /\ Stream'[i] = m
        BY <1>3, <3>2 DEF Longer
      <4>. QED
        BY <1>0, <1>3, <2>1, <2>2, <4>1
    <3>. QED
      BY <1>3, <2>2, <3>1, <3>2 DEF Longer
  <2>3. buffer'[v].text # NoText => OpenBy(Stream', Len(Stream'), v, open'[v])
    <3>. SUFFICES ASSUME buffer'[v].text # NoText
                  PROVE  OpenBy(Stream', Len(Stream'), v, open'[v])
      OBVIOUS
    <3>1. ~Says(m, {"close"}, v)
      BY <1>3
    <3>2. Brings(m, v) \/ OpenBy(Stream, Len(Stream), v, open'[v])
      BY <1>0, <1>3, <3>1
    <3>. QED
      BY <1>3, <3>1, <3>2, OpenByEnd
  <2>. QED
    BY <2>2, <2>3
<1>4. CASE Editor
  <2>1. open'[v] = open[v]
    BY <1>4, EditorMoves DEF stateVars
  <2>2. ASSUME NEW u \in Uri, BringsText(u) \/ SaysClosed(u) \/ \E text : Writes(u, text)
        PROVE  \/ Stream' = Stream /\ buffer'[v].text = buffer[v].text
               \/ \E m : /\ Longer(Stream', Stream, m)
                         /\ Says(m, {"close"}, v) =>
                               buffer[v].text # NoText /\ buffer'[v].text = NoText
                         /\ Brings(m, v) \/ Says(m, {"close"}, v) \/ buffer'[v] = buffer[v]
    <3>1. CASE BringsText(u)
      BY <3>1 DEF BringsText, Brings, Says
    <3>2. CASE SaysClosed(u)
      BY <3>2 DEF SaysClosed, Says
    <3>3. CASE \E text : Writes(u, text)
      BY <3>3 DEF Writes, Says
    <3>. QED
      BY <2>2, <3>1, <3>2, <3>3
  <2>3. CASE SaysElse
    BY <1>1, <1>3, <2>1, <2>3 DEF SaysElse, Says, editorVars
  <2>. QED
    BY <1>1, <1>3, <1>4, <2>1, <2>2, <2>3, EditorMoves
<1>5. CASE Hears
  <2>. DEFINE n == Head(queue).note
  <2>1. /\ Shorter(Stream', Stream) /\ UNCHANGED buffer /\ Sync
        /\ Stream[1] = Head(queue) /\ Stream[1].kind = "note"
    BY <1>5 DEF Hears, Sync
  <2>2. Brings(Stream[1], v) => open'[v] # 0
    BY <2>1, SyncTextHere
  <2>3. ASSUME open[v] # 0, ~Says(Stream[1], {"close"}, v), ~Brings(Stream[1], v)
        PROVE  open'[v] # 0
    <3>1. CASE n.what = "configure" \/ v # n.uri
      BY <2>1, <2>3, <3>1, SyncElse
    <3>2. CASE n.what # "configure" /\ v = n.uri
      <4>1. n \in Notification
        BY <2>1, NoteType DEF Typed, Sync
      <4>2. n.what \in {"created", "changed", "deleted"}
        BY <2>1, <2>3, <3>2, <4>1 DEF Notification, Says, Brings
      <4>3. Says(Head(queue), OnDisk, v)
        BY <2>1, <3>2, <4>2 DEF Says, OnDisk
      <4>. QED
        BY <2>1, <2>3, <4>3, SyncDiskHere
    <3>. QED
      BY <3>1, <3>2
  <2>. QED
    BY <1>2, <2>1, <2>2, <2>3
<1>6. CASE Elsewhere
  <2>1. CASE Stream' = Stream
    BY <1>1, <1>6, <2>1 DEF Elsewhere
  <2>2. CASE Shorter(Stream', Stream) /\ Stream[1].kind # "note"
    BY <1>2, <1>6, <2>2 DEF Elsewhere, Brings, Says
  <2>. QED
    BY <1>6, <2>1, <2>2 DEF Elsewhere
<1>. QED
  BY <1>4, <1>5, <1>6

-----------------------------------------------------------------------------
(* The index is what the disk says, once all that was said is handled.      *)

LEMMA KeptOpen ==
    ASSUME Typed, NEW u \in Uri
    PROVE  /\ Kept(u) # NoText => index[u] # NoText
           /\ ~IsOpen(u) => Kept(u) = index[u]
           /\ IsOpen(u) => index[u] # NoText /\ (u \in indexed <=> Kept(u) # NoText)
           /\ u \in indexed => IsOpen(u)
<1>1. IsOpen(u) => index[u] # NoText
  BY LanguageServerAssumption DEF LanguageServerAssumption, Typed, OpenTexts
<1>2. u \in indexed => IsOpen(u)
  BY DEF Typed, TypedState, IsOpen
<1>. QED
  BY <1>1, <1>2 DEF Kept

\* When what was said of a file's disk is handled and nothing more is said of it.
LEMMA ToldLast ==
    ASSUME NEW s, NEW t, Shorter(t, s), NEW u, NEW kept, NEW there, Told(s, u, kept, there),
           Says(s[1], OnDisk, u), ~Tells(t, u)
    PROVE  /\ Says(s[1], {"deleted"}, u) <=> there = NoText
           /\ Says(s[1], {"changed"}, u) => kept # NoText
<1>0. 1 \in 1 .. Len(s) /\ \A j \in 1 .. Len(t) : j + 1 \in 1 .. Len(s) /\ t[j] = s[j + 1]
  BY DEF Shorter
<1>1. ASSUME NEW j \in 2 .. Len(s) PROVE ~Says(s[j], OnDisk, u)
  <2>1. j - 1 \in 1 .. Len(t) /\ (j - 1) + 1 = j
    BY DEF Shorter
  <2>. QED
    BY <1>0, <2>1 DEF Tells
<1>2. LastTold(s, 1, u)
  BY <1>1 DEF LastTold
<1>3. Says(s[1], {"deleted"}, u) <=> there = NoText
  BY <1>0, <1>2 DEF Told
<1>4. ASSUME Says(s[1], {"changed"}, u) PROVE kept # NoText
  <2>1. ASSUME NEW j \in 1 .. Len(s), Says(s[j], {"created"}, u) PROVE FALSE
    <3>1. j = 1
      BY <1>1, <2>1 DEF Says, OnDisk
    <3>. QED
      BY <1>4, <2>1, <3>1 DEF Says
  <2>. QED
    BY <1>0, <1>2, <1>4, <2>1 DEF Told
<1>. QED
  BY <1>3, <1>4

\* What a file comes to when a notification about it is handled.
LEMMA ToldHere ==
    ASSUME Typed, ClosesOpen, Hears, watching, NEW v \in Uri, NEW n, n = Head(queue).note,
           n.what # "configure", v = n.uri,
           Told(Stream, v, Kept(v), disk[v]),
           ~Tells(Stream, v) /\ ~IsOpen(v) => index[v] = disk[v]
    PROVE  /\ Told(Stream', v, Kept(v)', disk[v])
           /\ ~Tells(Stream', v) /\ open'[v] = 0 => index'[v] = disk[v]
<1>1. /\ Shorter(Stream', Stream) /\ Sync /\ Stream[1] = Head(queue) /\ Stream[1].kind = "note"
  BY DEF Hears, Sync
<1>2. n \in Notification
  BY <1>1, NoteType DEF Typed, Sync
<1>3. CASE n.what \in {"open", "change"}
  <2>1. Brings(Head(queue), v) /\ ~Says(Stream[1], OnDisk, v)
    BY <1>1, <1>3 DEF Brings, Says, OnDisk
  <2>2. open'[v] # 0 /\ (Kept(v)' # NoText <=> Kept(v) # NoText)
    BY <1>1, <2>1, SyncTextHere
  <2>. QED
    BY <1>1, <2>1, <2>2, ToldTail
<1>4. CASE n.what = "close"
  <2>1. Says(Stream[1], {"close"}, v) /\ ~Says(Stream[1], OnDisk, v)
    BY <1>1, <1>4 DEF Says, OnDisk
  <2>2. open'[v] = 0 /\ index'[v] = Restored(v)
    BY <1>1, <2>1, SyncCloseHere
  <2>3. IsOpen(v)
    <3>1. 1 \in 1 .. Len(Stream) /\ 1 - 1 = 0
      BY <1>1 DEF Shorter
    <3>2. OpenBy(Stream, 1 - 1, v, open[v])
      BY <2>1, <3>1 DEF ClosesOpen
    <3>3. \A z : z = 0 => 1 .. z = {}
      OBVIOUS
    <3>. QED
      BY <3>1, <3>2, <3>3 DEF OpenBy, IsOpen
  <2>4. Kept(v)' = Restored(v)
    BY <2>2 DEF Kept, IsOpen
  <2>5. /\ Kept(v) = NoText => Restored(v) = NoText
        /\ Kept(v) # NoText => Restored(v) = disk[v]
    BY <2>3, KeptOpen DEF Restored
  <2>6. Told(Stream', v, Kept(v)', disk[v])
    BY <1>1, <2>1, <2>4, <2>5, ToldTail
  <2>7. ~Tells(Stream', v) => index'[v] = disk[v]
    <3>1. ~Tells(Stream', v) => ~Tells(Stream, v)
      BY <1>1, <2>1, TellsTail
    <3>. QED
      BY <2>2, <2>5, <3>1 DEF Told
  <2>. QED
    BY <2>6, <2>7
<1>5. CASE n.what \in OnDisk
  <2>1. Says(Stream[1], OnDisk, v) /\ \A w \in OnDisk : Says(Stream[1], {w}, v) <=> n.what = w
    BY <1>1, <1>5 DEF Says
  <2>2. /\ open' = open
        /\ indexed' = IF ~Looked(n.what, v) \/ ~IsOpen(v) THEN indexed
                      ELSE IF n.what = "deleted" THEN indexed \ {v} ELSE indexed \cup {v}
        /\ index'[v] = IF ~Looked(n.what, v) \/ IsOpen(v) THEN index[v]
                       ELSE IF n.what = "deleted" THEN NoText ELSE disk[v]
    BY <1>1, <2>1, SyncDiskHere
  <2>3. /\ Kept(v)' = IF IsOpen(v) /\ v \notin indexed' THEN NoText ELSE index'[v]
        /\ IsOpen(v) => index[v] # NoText
    BY <2>2, KeptOpen DEF Kept, IsOpen
  <2>4. n.what = "created" /\ disk[v] # NoText => Kept(v)' # NoText
    BY <2>2, <2>3 DEF Looked
  <2>5. n.what = "changed" /\ Kept(v) # NoText /\ disk[v] # NoText => Kept(v)' # NoText
    BY <2>2, <2>3, KeptOpen DEF Looked
  <2>6. n.what = "deleted" => Kept(v)' = NoText
    BY <2>2, <2>3, KeptOpen DEF Looked
  <2>7. Told(Stream', v, Kept(v)', disk[v])
    BY <1>1, <2>1, <2>4, <2>5, <2>6, ToldRead DEF OnDisk
  <2>8. ASSUME ~Tells(Stream', v), open'[v] = 0 PROVE index'[v] = disk[v]
    <3>1. ~IsOpen(v)
      BY <2>2, <2>8 DEF IsOpen
    <3>2. /\ n.what = "deleted" <=> disk[v] = NoText
          /\ n.what = "changed" => index[v] # NoText
      BY <1>1, <2>1, <2>8, <3>1, ToldLast, KeptOpen DEF OnDisk
    <3>. QED
      BY <1>5, <2>2, <3>1, <3>2 DEF Looked, OnDisk
  <2>. QED
    BY <2>7, <2>8
<1>. QED
  BY <1>2, <1>3, <1>4, <1>5 DEF Notification, OnDisk

LEMMA DiskToldStep ==
    ASSUME Typed, ClosesOpen, DiskTold, Editor \/ Hears \/ Elsewhere
    PROVE  DiskTold'
<1>. SUFFICES ASSUME watching', NEW v \in Uri
     PROVE  /\ Told(Stream', v, Kept(v)', disk'[v])
            /\ ~Tells(Stream', v) /\ open'[v] = 0 => index'[v] = disk'[v]
  BY DEF DiskTold, IsOpen
<1>0. watching
  BY EditorMoves DEF Hears, Elsewhere, stateVars
<1>1. /\ Told(Stream, v, Kept(v), disk[v])
      /\ ~Tells(Stream, v) /\ open[v] = 0 => index[v] = disk[v]
  BY <1>0 DEF DiskTold, IsOpen
<1>2. ASSUME Kept(v)' = Kept(v), open'[v] = open[v], index'[v] = index[v], disk'[v] = disk[v],
             \/ Stream' = Stream
             \/ Shorter(Stream', Stream) /\ ~Says(Stream[1], OnDisk, v)
             \/ \E m : Longer(Stream', Stream, m) /\ ~Says(m, OnDisk, v)
      PROVE  /\ Told(Stream', v, Kept(v)', disk'[v])
             /\ ~Tells(Stream', v) /\ open'[v] = 0 => index'[v] = disk'[v]
  <2>1. CASE Stream' = Stream
    BY <1>1, <1>2, <2>1
  <2>2. CASE Shorter(Stream', Stream) /\ ~Says(Stream[1], OnDisk, v)
    BY <1>1, <1>2, <2>2, TellsTail, ToldTail
  <2>3. CASE \E m : Longer(Stream', Stream, m) /\ ~Says(m, OnDisk, v)
    BY <1>1, <1>2, <2>3, ToldLonger
  <2>. QED
    BY <1>2, <2>1, <2>2, <2>3
<1>3. CASE Editor
  <2>1. Kept(v)' = Kept(v) /\ open' = open /\ index' = index
    BY <1>3, EditorMoves DEF stateVars, Kept, IsOpen
  <2>2. ASSUME NEW u \in Uri, BringsText(u) \/ SaysClosed(u)
        PROVE  disk' = disk /\ \E m : Longer(Stream', Stream, m) /\ ~Says(m, OnDisk, v)
    BY <2>2 DEF BringsText, SaysClosed, Brings, Says, OnDisk
  <2>3. CASE SaysElse
    BY <1>2, <2>1, <2>3 DEF SaysElse, Says, OnDisk, editorVars
  <2>4. ASSUME NEW u \in Uri, NEW text \in Anything, Writes(u, text), u # v
        PROVE  disk'[v] = disk[v] /\ \E m : Longer(Stream', Stream, m) /\ ~Says(m, OnDisk, v)
    BY <1>0, <2>4 DEF Writes, Says, Typed, TypedEditor
  <2>5. ASSUME NEW text \in Anything, Writes(v, text)
        PROVE  Told(Stream', v, Kept(v)', disk'[v]) /\ Tells(Stream', v)
    <3>1. disk'[v] = text /\ text # disk[v]
      BY <2>5 DEF Writes, Typed, TypedEditor
    <3>2. PICK m : /\ Longer(Stream', Stream, m)
                   /\ Says(m, {IF disk[v] = NoText THEN "created"
                               ELSE IF text = NoText THEN "deleted" ELSE "changed"}, v)
      BY <1>0, <2>5 DEF Writes
    <3>. QED
      BY <1>1, <2>1, <3>1, <3>2, ToldWritten
  <2>. QED
    BY <1>2, <1>3, <2>1, <2>2, <2>3, <2>4, <2>5, EditorMoves
<1>4. CASE Hears
  <2>. DEFINE n == Head(queue).note
  <2>1. /\ Shorter(Stream', Stream) /\ Sync /\ Stream[1] = Head(queue) /\ disk' = disk
    BY <1>4 DEF Hears
  <2>2. CASE n.what = "configure" \/ v # n.uri
    <3>1. open'[v] = open[v] /\ (v \in indexed' <=> v \in indexed) /\ index'[v] = index[v]
      BY <1>0, <2>1, <2>2, SyncElse
    <3>2. Kept(v)' = Kept(v)
      BY <3>1 DEF Kept, IsOpen
    <3>3. ~Says(Stream[1], OnDisk, v)
      BY <2>1, <2>2 DEF Says, OnDisk
    <3>. QED
      BY <1>2, <2>1, <3>1, <3>2, <3>3
  <2>3. CASE n.what # "configure" /\ v = n.uri
    BY <1>0, <1>1, <1>4, <2>1, <2>3, ToldHere DEF IsOpen
  <2>. QED
    BY <2>2, <2>3
<1>5. CASE Elsewhere
  <2>1. Kept(v)' = Kept(v)
    BY <1>5 DEF Elsewhere, Kept, IsOpen
  <2>2. Shorter(Stream', Stream) /\ Stream[1].kind # "note" => ~Says(Stream[1], OnDisk, v)
    BY DEF Says
  <2>. QED
    BY <1>2, <1>5, <2>1, <2>2 DEF Elsewhere
<1>. QED
  BY <1>3, <1>4, <1>5

\* Nothing is said of the files at first, and the index is the disk.
LEMMA InitTold == Init => ClosesOpen /\ DiskTold
<1>. SUFFICES ASSUME Init PROVE ClosesOpen /\ DiskTold
  OBVIOUS
<1>1. Len(Stream) = 0
  BY DEF Init, Srv!Init, Stream, Loop!Stream
<1>2. \A i \in 1 .. Len(Stream) : FALSE
  BY <1>1
<1>3. ClosesOpen
  BY <1>2 DEF Init, ClosesOpen
<1>4. \A u \in Uri : Kept(u) = disk[u] /\ index[u] = disk[u]
  BY DEF Init, Kept, IsOpen
<1>5. DiskTold
  BY <1>2, <1>4 DEF DiskTold, Told, Tells
<1>. QED
  BY <1>3, <1>5

LEMMA ToldAlways == Spec => [](ClosesOpen /\ DiskTold)
<1>1. Typed /\ Loop!ServeInv /\ ClosesOpen /\ DiskTold /\ [Next]_vars => (ClosesOpen /\ DiskTold)'
  <2>. SUFFICES ASSUME Typed, Loop!ServeInv, ClosesOpen, DiskTold, [Next]_vars
                PROVE  ClosesOpen' /\ DiskTold'
    OBVIOUS
  <2>1. Editor \/ Hears \/ Elsewhere
    BY StreamMoves DEF Loop!ServeInv
  <2>. QED
    BY <2>1, ClosesOpenStep, DiskToldStep
<1>. QED
  BY <1>1, InitTold, TypedAlways, StreamAlways, PTL DEF Spec

\* With a client that reports what happens on disk, once all is settled the server has
\* for every file that is not open exactly what the disk has, in whatever order files
\* were created, changed, deleted, opened and closed, and although it reads a file when
\* it hears of it, which may be after the next change.
THEOREM IndexSettles == Spec => []SettledIndex
<1>1. Typed /\ DiskTold => SettledIndex
  <2>. SUFFICES ASSUME Typed, DiskTold, Settled, watching, NEW u \in Uri, ~IsOpen(u)
                PROVE  index[u] = disk[u]
    BY DEF SettledIndex
  <2>1. Len(Stream) = 0
    BY DEF Settled, Stream, Loop!Stream
  <2>2. ~Tells(Stream, u)
    BY <2>1 DEF Tells
  <2>. QED
    BY <2>2 DEF DiskTold
<1>. QED
  BY <1>1, TypedAlways, ToldAlways, PTL

-----------------------------------------------------------------------------
(* The line of checks: jobs queued, jobs gathered, results.                 *)

About(s, u) == \E i \in 1 .. Len(s) : s[i].uri = u
IsLast(s, i) == \A j \in i + 1 .. Len(s) : s[j].uri # s[i].uri

\* The last word about the buffer `u` in the line is about its `version`: a job with its
\* `text`, or what may be found in it now, `good`.
InLine(queued, batch, done, u, version, text, good) ==
    /\ \A i \in 1 .. Len(queued) : queued[i].uri = u /\ IsLast(queued, i) =>
          queued[i].version = version /\ queued[i].text = text
    /\ ~About(queued, u) => \A i \in 1 .. Len(batch) : batch[i].uri = u =>
          batch[i].version = version /\ batch[i].text = text
    /\ ~About(queued, u) /\ ~About(batch, u) =>
          \A i \in 1 .. Len(done) : done[i].uri = u /\ IsLast(done, i) =>
             done[i].version = version /\ done[i].report.problems \in good

\* No check of `u` is on its way.
Rests(queued, batch, done, u) == ~About(queued, u) /\ ~About(batch, u) /\ ~About(done, u)

\* A batch has one job of a buffer.
OneEach(batch) == \A i, j \in 1 .. Len(batch) : batch[i].uri = batch[j].uri => i = j

\* Where something is said of a buffer, something is said last.
LEMMA LastThere ==
    ASSUME NEW s, Len(s) \in Nat, NEW u, About(s, u)
    PROVE  \E i \in 1 .. Len(s) : s[i].uri = u /\ IsLast(s, i)
<1>. DEFINE I == {i \in 1 .. Len(s) : s[i].uri = u}
<1>1. \E i \in I : \A j \in I : j <= i
  <2>1. I \subseteq 0 .. Len(s) /\ I # {}
    BY DEF About
  <2>. HIDE DEF I
  <2>. QED
    BY <2>1, Greatest
<1>2. PICK i \in I : \A j \in I : j <= i
  BY <1>1
<1>3. \A j \in i + 1 .. Len(s) : j \in 1 .. Len(s) /\ ~(j <= i)
  OBVIOUS
<1>. QED
  BY <1>2, <1>3 DEF IsLast

\* Jobs are queued.
LEMMA LineQueues ==
    ASSUME NEW S, NEW queued \in Seq(S), NEW batch, NEW done, NEW added \in Seq(S), NEW u,
           NEW version, NEW text, NEW good, NEW version2, NEW text2, NEW good2,
           InLine(queued, batch, done, u, version, text, good),
           \A i \in 1 .. Len(added) : added[i].uri = u =>
              added[i].version = version2 /\ added[i].text = text2,
           ~About(added, u) => version2 = version /\ text2 = text,
           ~About(queued, u) /\ ~About(added, u) => good \subseteq good2
    PROVE  /\ InLine(queued \o added, batch, done, u, version2, text2, good2)
           /\ About(queued \o added, u) <=> About(queued, u) \/ About(added, u)
<1>. DEFINE both == queued \o added
<1>1. /\ Len(both) = Len(queued) + Len(added) /\ Len(queued) \in Nat /\ Len(added) \in Nat
      /\ \A i \in 1 .. Len(queued) : both[i] = queued[i] /\ i \in 1 .. Len(both)
      /\ \A i \in 1 .. Len(added) : /\ both[Len(queued) + i] = added[i]
                                    /\ Len(queued) + i \in 1 .. Len(both)
      /\ \A i \in 1 .. Len(both) : i \in 1 .. Len(queued) \/
             (i - Len(queued) \in 1 .. Len(added) /\ both[i] = added[i - Len(queued)])
  OBVIOUS
<1>. HIDE DEF both
<1>2. About(both, u) <=> About(queued, u) \/ About(added, u)
  <2>1. About(queued, u) => About(both, u)
    BY <1>1 DEF About
  <2>2. About(added, u) => About(both, u)
    <3>. SUFFICES ASSUME NEW i \in 1 .. Len(added), added[i].uri = u PROVE About(both, u)
      BY DEF About
    <3>1. both[Len(queued) + i].uri = u /\ Len(queued) + i \in 1 .. Len(both)
      BY <1>1
    <3>. QED
      BY <3>1 DEF About
  <2>3. ASSUME NEW i \in 1 .. Len(both), both[i].uri = u PROVE About(queued, u) \/ About(added, u)
    BY <1>1, <2>3 DEF About
  <2>. QED
    BY <2>1, <2>2, <2>3 DEF About
<1>3. ASSUME NEW i \in 1 .. Len(both), both[i].uri = u, IsLast(both, i)
      PROVE  both[i].version = version2 /\ both[i].text = text2
  <2>1. CASE i \in 1 .. Len(queued)
    <3>1. IsLast(queued, i)
      <4>. SUFFICES ASSUME NEW j \in i + 1 .. Len(queued) PROVE queued[j].uri # queued[i].uri
        BY DEF IsLast
      <4>1. j \in 1 .. Len(queued) /\ j \in i + 1 .. Len(both)
        BY <1>1
      <4>. QED
        BY <1>1, <1>3, <2>1, <4>1 DEF IsLast
    <3>2. ~About(added, u)
      <4>. SUFFICES ASSUME NEW j \in 1 .. Len(added), added[j].uri = u PROVE FALSE
        BY DEF About
      <4>1. Len(queued) + j \in i + 1 .. Len(both)
        BY <1>1, <2>1
      <4>. QED
        BY <1>1, <1>3, <4>1 DEF IsLast
    <3>. QED
      BY <1>1, <1>3, <2>1, <3>1, <3>2 DEF InLine
  <2>. QED
    BY <1>1, <1>3, <2>1
<1>4. ~About(both, u) => \A i \in 1 .. Len(batch) : batch[i].uri = u =>
          batch[i].version = version2 /\ batch[i].text = text2
  BY <1>2 DEF InLine
<1>5. ~About(both, u) /\ ~About(batch, u) =>
          \A i \in 1 .. Len(done) : done[i].uri = u /\ IsLast(done, i) =>
             done[i].version = version2 /\ done[i].report.problems \in good2
  BY <1>2 DEF InLine
<1>. QED
  BY <1>2, <1>3, <1>4, <1>5 DEF InLine, both

\* The first job is taken off the queue.
LEMMA LineTakes ==
    ASSUME NEW S, NEW queued \in Seq(S), queued # <<>>, NEW batch, NEW done, NEW u,
           NEW version, NEW text, NEW good,
           InLine(queued, batch, done, u, version, text, good)
    PROVE  /\ \A i \in 1 .. Len(Tail(queued)) : Tail(queued)[i].uri = u /\ IsLast(Tail(queued), i) =>
                 Tail(queued)[i].version = version /\ Tail(queued)[i].text = text
           /\ About(queued, u) <=> Head(queued).uri = u \/ About(Tail(queued), u)
           /\ ~About(Tail(queued), u) /\ Head(queued).uri = u =>
                 Head(queued).version = version /\ Head(queued).text = text
<1>. DEFINE rest == Tail(queued)
<1>1. /\ Len(queued) \in Nat \ {0} /\ Len(rest) = Len(queued) - 1 /\ Head(queued) = queued[1]
      /\ \A i \in 1 .. Len(rest) : rest[i] = queued[i + 1] /\ i + 1 \in 2 .. Len(queued)
      /\ \A i \in 2 .. Len(queued) : i - 1 \in 1 .. Len(rest) /\ rest[i - 1] = queued[i]
  <2>1. Len(queued) \in Nat \ {0} /\ Len(rest) = Len(queued) - 1 /\ Head(queued) = queued[1]
        /\ \A i \in 1 .. Len(rest) : rest[i] = queued[i + 1] /\ i + 1 \in 2 .. Len(queued)
    OBVIOUS
  <2>2. \A i \in 2 .. Len(queued) : i - 1 \in 1 .. Len(rest) /\ (i - 1) + 1 = i
    BY <2>1
  <2>. HIDE DEF rest
  <2>. QED
    BY <2>1, <2>2
<1>. HIDE DEF rest
<1>2. ASSUME NEW i \in 1 .. Len(rest), rest[i].uri = u, IsLast(rest, i)
      PROVE  rest[i].version = version /\ rest[i].text = text
  <2>1. IsLast(queued, i + 1)
    <3>. SUFFICES ASSUME NEW j \in (i + 1) + 1 .. Len(queued) PROVE queued[j].uri # queued[i + 1].uri
      BY DEF IsLast
    <3>1. j - 1 \in i + 1 .. Len(rest) /\ j \in 2 .. Len(queued)
      BY <1>1
    <3>. QED
      BY <1>1, <1>2, <3>1 DEF IsLast
  <2>2. i + 1 \in 1 .. Len(queued)
    BY <1>1
  <2>. QED
    BY <1>1, <1>2, <2>1, <2>2 DEF InLine
<1>3. About(queued, u) <=> Head(queued).uri = u \/ About(rest, u)
  <2>1. 1 \in 1 .. Len(queued) /\ 2 .. Len(queued) \subseteq 1 .. Len(queued)
        /\ \A i \in 1 .. Len(queued) : i = 1 \/ i \in 2 .. Len(queued)
    BY <1>1
  <2>. QED
    BY <1>1, <2>1 DEF About
<1>4. ASSUME ~About(rest, u), Head(queued).uri = u
      PROVE  Head(queued).version = version /\ Head(queued).text = text
  <2>1. IsLast(queued, 1)
    <3>. SUFFICES ASSUME NEW j \in 1 + 1 .. Len(queued) PROVE queued[j].uri # queued[1].uri
      BY DEF IsLast
    <3>1. j \in 2 .. Len(queued)
      OBVIOUS
    <3>. QED
      BY <1>1, <1>4, <3>1 DEF About
  <2>2. 1 \in 1 .. Len(queued)
    BY <1>1
  <2>. QED
    BY <1>1, <1>4, <2>1, <2>2 DEF InLine
<1>. QED
  BY <1>2, <1>3, <1>4 DEF rest

\* What is left of a batch without the job of one buffer: each of the others, once.
Others(s, name) ==
    LET Same(queued) == queued.uri = name
    IN Chk!RemoveFirstMatch(s, Same)

LEMMA WithoutLeaves ==
    ASSUME NEW S, NEW s \in Seq(S), OneEach(s), NEW name
    PROVE  LET r == Others(s, name)
           IN /\ r \in Seq(S) /\ OneEach(r)
              /\ \A i \in 1 .. Len(r) :
                    r[i].uri # name /\ \E j \in 1 .. Len(s) : r[i] = s[j]
              /\ \A j \in 1 .. Len(s) :
                    s[j].uri # name => \E i \in 1 .. Len(r) : r[i] = s[j]
<1>. DEFINE Same(queued) == queued.uri = name
            I == {i \in 1 .. Len(s) : s[i].uri = name}
            k == Chk!SelectInSeq(s, Same)
            r == Others(s, name)
<1>1. CASE I = {}
  <2>1. r = s
    BY <1>1 DEF Others, Chk!RemoveFirstMatch
  <2>2. \A i \in 1 .. Len(s) : s[i].uri # name
    BY <1>1
  <2>. HIDE DEF r
  <2>. QED
    BY <2>1, <2>2 DEF r
<1>2. CASE I # {}
  <2>1. PICK i \in 1 .. Len(s) : s[i].uri = name
    BY <1>2
  <2>2. I = {i}
    BY <2>1 DEF OneEach
  <2>3. k = i
    <3>1. k = Chk!Min(I)
      BY <1>2 DEF Chk!SelectInSeq
    <3>2. i <= i
      OBVIOUS
    <3>. HIDE DEF I, k
    <3>. QED
      BY <2>2, <3>1, <3>2 DEF Chk!Min
  <2>4. r = SubSeq(s, 1, i - 1) \o SubSeq(s, i + 1, Len(s))
    <3>1. r = Chk!RemoveAt(s, k)
      BY <1>2 DEF Others, Chk!RemoveFirstMatch
    <3>. HIDE DEF k, r
    <3>. QED
      BY <2>3, <3>1 DEF Chk!RemoveAt
  <2>. HIDE DEF r, I, k
  <2>5. /\ r \in Seq(S) /\ Len(r) = Len(s) - 1 /\ Len(s) \in Nat
        /\ \A j \in 1 .. Len(r) : r[j] = s[IF j < i THEN j ELSE j + 1]
    <3>. DEFINE a == SubSeq(s, 1, i - 1)
                b == SubSeq(s, i + 1, Len(s))
    <3>1. a \in Seq(S) /\ Len(a) = i - 1 /\ \A j \in 1 .. i - 1 : a[j] = s[j]
      OBVIOUS
    <3>2. b \in Seq(S) /\ Len(b) = Len(s) - i /\ \A j \in 1 .. Len(s) - i : b[j] = s[j + i]
      OBVIOUS
    <3>. HIDE DEF a, b
    <3>3. r \in Seq(S) /\ Len(r) = Len(a) + Len(b)
          /\ \A j \in 1 .. Len(a) + Len(b) : r[j] = IF j <= Len(a) THEN a[j] ELSE b[j - Len(a)]
      BY <2>4, <3>1, <3>2, ConcatProperties DEF a, b
    <3>4. ASSUME NEW j \in 1 .. Len(r) PROVE r[j] = s[IF j < i THEN j ELSE j + 1]
      <4>1. CASE j < i
        BY <3>1, <3>2, <3>3, <4>1
      <4>2. CASE ~(j < i)
        <5>1. /\ j - Len(a) \in 1 .. Len(s) - i /\ (j - Len(a)) + i = j + 1
              /\ ~(j <= Len(a)) /\ j \in 1 .. Len(a) + Len(b)
          BY <3>1, <3>2, <3>3, <4>2
        <5>2. b[j - Len(a)] = s[(j - Len(a)) + i]
          BY <3>2, <5>1
        <5>. QED
          BY <3>3, <4>2, <5>1, <5>2
      <4>. QED
        BY <4>1, <4>2
    <3>. QED
      BY <3>1, <3>2, <3>3, <3>4
  <2>6. ASSUME NEW j \in 1 .. Len(r)
        PROVE  /\ r[j].uri # name
               /\ \E l \in 1 .. Len(s) : r[j] = s[l] /\ l = IF j < i THEN j ELSE j + 1
    <3>1. (IF j < i THEN j ELSE j + 1) \in 1 .. Len(s) /\ (IF j < i THEN j ELSE j + 1) # i
      BY <2>5
    <3>. QED
      BY <2>1, <2>5, <3>1 DEF OneEach
  <2>7. OneEach(r)
    <3>. SUFFICES ASSUME NEW j \in 1 .. Len(r), NEW m \in 1 .. Len(r), r[j].uri = r[m].uri PROVE j = m
      BY DEF OneEach
    <3>1. (IF j < i THEN j ELSE j + 1) = (IF m < i THEN m ELSE m + 1)
      BY <2>6 DEF OneEach
    <3>. QED
      BY <2>5, <3>1
  <2>8. ASSUME NEW j \in 1 .. Len(s), s[j].uri # name PROVE \E m \in 1 .. Len(r) : r[m] = s[j]
    <3>1. j # i
      BY <2>1, <2>8
    <3>2. CASE j < i
      <4>1. j \in 1 .. Len(r)
        BY <2>5, <3>2
      <4>. QED
        BY <2>5, <3>2, <4>1
    <3>3. CASE j > i
      <4>1. j - 1 \in 1 .. Len(r) /\ ~(j - 1 < i) /\ (j - 1) + 1 = j
        BY <2>5, <3>3
      <4>. QED
        BY <2>5, <4>1
    <3>. QED
      BY <3>1, <3>2, <3>3
  <2>. QED
    BY <2>5, <2>6, <2>7, <2>8 DEF r
<1>. QED
  BY <1>1, <1>2

\* A job goes from the queue to the batch, for any other of its buffer there.
LEMMA LineGathers ==
    ASSUME NEW S, NEW queued \in Seq(S), queued # <<>>, NEW batch, NEW done, NEW u,
           NEW version, NEW text, NEW good, NEW batch2,
           InLine(queued, batch, done, u, version, text, good),
           \A i \in 1 .. Len(batch2) : batch2[i].uri = u =>
              \/ batch2[i] = Head(queued)
              \/ Head(queued).uri # u /\ \E j \in 1 .. Len(batch) : batch2[i] = batch[j],
           About(batch2, u) <=> Head(queued).uri = u \/ About(batch, u)
    PROVE  /\ InLine(Tail(queued), batch2, done, u, version, text, good)
           /\ Rests(Tail(queued), batch2, done, u) <=> Rests(queued, batch, done, u)
<1>1. /\ \A i \in 1 .. Len(Tail(queued)) : Tail(queued)[i].uri = u /\ IsLast(Tail(queued), i) =>
            Tail(queued)[i].version = version /\ Tail(queued)[i].text = text
      /\ About(queued, u) <=> Head(queued).uri = u \/ About(Tail(queued), u)
      /\ ~About(Tail(queued), u) /\ Head(queued).uri = u =>
            Head(queued).version = version /\ Head(queued).text = text
  BY LineTakes
<1>2. ASSUME ~About(Tail(queued), u), NEW i \in 1 .. Len(batch2), batch2[i].uri = u
      PROVE  batch2[i].version = version /\ batch2[i].text = text
  <2>1. CASE batch2[i] = Head(queued)
    BY <1>1, <1>2, <2>1
  <2>2. CASE Head(queued).uri # u /\ \E j \in 1 .. Len(batch) : batch2[i] = batch[j]
    BY <1>1, <1>2, <2>2 DEF InLine
  <2>. QED
    BY <1>2, <2>1, <2>2
<1>3. ASSUME ~About(Tail(queued), u), ~About(batch2, u)
      PROVE  ~About(queued, u) /\ ~About(batch, u)
  BY <1>1, <1>3
<1>4. ASSUME ~About(Tail(queued), u), ~About(batch2, u),
             NEW i \in 1 .. Len(done), done[i].uri = u, IsLast(done, i)
      PROVE  done[i].version = version /\ done[i].report.problems \in good
  BY <1>3, <1>4 DEF InLine
<1>5. InLine(Tail(queued), batch2, done, u, version, text, good)
  BY <1>1, <1>2, <1>4 DEF InLine
<1>6. Rests(Tail(queued), batch2, done, u) <=> Rests(queued, batch, done, u)
  BY <1>1 DEF Rests
<1>. QED
  BY <1>5, <1>6

\* The batch is reordered.
LEMMA LineSettles ==
    ASSUME NEW queued, NEW batch, NEW done, NEW u, NEW version, NEW text, NEW good, NEW batch2,
           InLine(queued, batch, done, u, version, text, good),
           \A i \in 1 .. Len(batch2) : \E j \in 1 .. Len(batch) : batch2[i] = batch[j],
           \A i \in 1 .. Len(batch) : \E j \in 1 .. Len(batch2) : batch[i] = batch2[j]
    PROVE  /\ InLine(queued, batch2, done, u, version, text, good)
           /\ Rests(queued, batch2, done, u) <=> Rests(queued, batch, done, u)
<1>1. About(batch2, u) <=> About(batch, u)
  BY DEF About
<1>2. ASSUME ~About(queued, u), NEW i \in 1 .. Len(batch2), batch2[i].uri = u
      PROVE  batch2[i].version = version /\ batch2[i].text = text
  <2>1. PICK j \in 1 .. Len(batch) : batch2[i] = batch[j]
    OBVIOUS
  <2>. QED
    BY <1>2, <2>1 DEF InLine
<1>. QED
  BY <1>1, <1>2 DEF InLine, Rests

\* The first buffer of the batch is checked.
LEMMA LineChecks ==
    ASSUME NEW S, NEW T, NEW queued, NEW batch \in Seq(S), batch # <<>>, OneEach(batch),
           NEW done \in Seq(T), NEW found \in T,
           NEW u, NEW version, NEW text, NEW good,
           InLine(queued, batch, done, u, version, text, good),
           found.uri = Head(batch).uri, found.version = Head(batch).version,
           Head(batch).uri = u /\ Head(batch).text = text => found.report.problems \in good
    PROVE  /\ InLine(queued, Tail(batch), Append(done, found), u, version, text, good)
           /\ Rests(queued, Tail(batch), Append(done, found), u) => Rests(queued, batch, done, u)
<1>. DEFINE rest == Tail(batch)
            done2 == Append(done, found)
<1>1. /\ Len(batch) \in Nat \ {0} /\ Len(rest) = Len(batch) - 1 /\ Head(batch) = batch[1]
      /\ \A i \in 1 .. Len(rest) : rest[i] = batch[i + 1] /\ i + 1 \in 2 .. Len(batch)
  OBVIOUS
<1>2. /\ Len(done2) = Len(done) + 1 /\ Len(done) \in Nat /\ done2[Len(done) + 1] = found
      /\ \A i \in 1 .. Len(done) : done2[i] = done[i]
  OBVIOUS
<1>. HIDE DEF rest, done2
<1>3. \A i \in 2 .. Len(batch) : i - 1 \in 1 .. Len(rest) /\ rest[i - 1] = batch[i]
  <2>1. \A i \in 2 .. Len(batch) : i - 1 \in 1 .. Len(rest) /\ (i - 1) + 1 = i
    BY <1>1
  <2>. QED
    BY <1>1, <2>1
<1>4. About(batch, u) <=> Head(batch).uri = u \/ About(rest, u)
  <2>1. 1 \in 1 .. Len(batch) /\ 2 .. Len(batch) \subseteq 1 .. Len(batch)
        /\ \A i \in 1 .. Len(batch) : i = 1 \/ i \in 2 .. Len(batch)
    BY <1>1
  <2>. QED
    BY <1>1, <1>3, <2>1 DEF About
<1>5. About(done2, u) <=> found.uri = u \/ About(done, u)
  <2>1. /\ Len(done) + 1 \in 1 .. Len(done2)
        /\ \A i \in 1 .. Len(done) : i \in 1 .. Len(done2)
        /\ \A i \in 1 .. Len(done2) : i \in 1 .. Len(done) \/ i = Len(done) + 1
    BY <1>2
  <2>. QED
    BY <1>2, <2>1 DEF About
<1>6. ASSUME ~About(queued, u), NEW i \in 1 .. Len(rest), rest[i].uri = u
      PROVE  rest[i].version = version /\ rest[i].text = text
  <2>1. i + 1 \in 1 .. Len(batch) /\ rest[i] = batch[i + 1]
    BY <1>1
  <2>. QED
    BY <1>6, <2>1 DEF InLine
<1>7. ASSUME ~About(queued, u), ~About(rest, u),
             NEW i \in 1 .. Len(done2), done2[i].uri = u, IsLast(done2, i)
      PROVE  done2[i].version = version /\ done2[i].report.problems \in good
  <2>1. CASE i = Len(done) + 1
    <3>1. found.uri = u
      BY <1>2, <1>7, <2>1
    <3>2. 1 \in 1 .. Len(batch)
      BY <1>1
    <3>3. Head(batch).version = version /\ Head(batch).text = text
      BY <1>1, <1>7, <3>1, <3>2 DEF InLine
    <3>. QED
      BY <1>2, <2>1, <3>1, <3>3
  <2>2. CASE i \in 1 .. Len(done)
    <3>1. found.uri # u
      <4>1. Len(done) + 1 \in i + 1 .. Len(done2)
        BY <1>2, <2>2
      <4>. QED
        BY <1>2, <1>7, <4>1 DEF IsLast
    <3>2. ~About(batch, u)
      BY <1>4, <1>7, <3>1
    <3>3. IsLast(done, i)
      <4>. SUFFICES ASSUME NEW j \in i + 1 .. Len(done) PROVE done[j].uri # done[i].uri
        BY DEF IsLast
      <4>1. j \in 1 .. Len(done) /\ j \in i + 1 .. Len(done2)
        BY <1>2, <2>2
      <4>. QED
        BY <1>2, <1>7, <2>2, <4>1 DEF IsLast
    <3>. QED
      BY <1>2, <1>7, <2>2, <3>2, <3>3 DEF InLine
  <2>. QED
    BY <1>2, <1>7, <2>1, <2>2
<1>8. InLine(queued, rest, done2, u, version, text, good)
  BY <1>6, <1>7 DEF InLine
<1>9. Rests(queued, rest, done2, u) => Rests(queued, batch, done, u)
  BY <1>4, <1>5 DEF Rests
<1>. QED
  BY <1>8, <1>9 DEF rest, done2

\* A result is taken: of the buffer's line it was the last word, or it is the one after.
LEMMA LinePublishes ==
    ASSUME NEW T, NEW queued, NEW batch, NEW done \in Seq(T), done # <<>>,
           NEW u, NEW version, NEW text, NEW good,
           InLine(queued, batch, done, u, version, text, good)
    PROVE  /\ InLine(queued, batch, Tail(done), u, version, text, good)
           /\ Rests(queued, batch, Tail(done), u) =>
                 \/ Rests(queued, batch, done, u)
                 \/ /\ Head(done).uri = u /\ Head(done).version = version
                    /\ Head(done).report.problems \in good
           /\ Head(done).uri # u => (Rests(queued, batch, Tail(done), u) <=> Rests(queued, batch, done, u))
<1>. DEFINE rest == Tail(done)
<1>1. /\ Len(done) \in Nat \ {0} /\ Len(rest) = Len(done) - 1 /\ Head(done) = done[1]
      /\ \A i \in 1 .. Len(rest) : rest[i] = done[i + 1] /\ i + 1 \in 2 .. Len(done)
  OBVIOUS
<1>. HIDE DEF rest
<1>2. \A i \in 2 .. Len(done) : i - 1 \in 1 .. Len(rest) /\ rest[i - 1] = done[i]
  <2>1. \A i \in 2 .. Len(done) : i - 1 \in 1 .. Len(rest) /\ (i - 1) + 1 = i
    BY <1>1
  <2>. QED
    BY <1>1, <2>1
<1>3. About(done, u) <=> Head(done).uri = u \/ About(rest, u)
  <2>1. 1 \in 1 .. Len(done) /\ 2 .. Len(done) \subseteq 1 .. Len(done)
        /\ \A i \in 1 .. Len(done) : i = 1 \/ i \in 2 .. Len(done)
    BY <1>1
  <2>. QED
    BY <1>1, <1>2, <2>1 DEF About
<1>4. ASSUME ~About(queued, u), ~About(batch, u),
             NEW i \in 1 .. Len(rest), rest[i].uri = u, IsLast(rest, i)
      PROVE  rest[i].version = version /\ rest[i].report.problems \in good
  <2>1. IsLast(done, i + 1)
    <3>. SUFFICES ASSUME NEW j \in (i + 1) + 1 .. Len(done) PROVE done[j].uri # done[i + 1].uri
      BY DEF IsLast
    <3>1. j - 1 \in i + 1 .. Len(rest) /\ j \in 2 .. Len(done)
      BY <1>1
    <3>. QED
      BY <1>1, <1>2, <1>4, <3>1 DEF IsLast
  <2>2. i + 1 \in 1 .. Len(done)
    BY <1>1
  <2>. QED
    BY <1>1, <1>4, <2>1, <2>2 DEF InLine
<1>5. ASSUME ~About(queued, u), ~About(batch, u), ~About(rest, u), Head(done).uri = u
      PROVE  Head(done).version = version /\ Head(done).report.problems \in good
  <2>1. IsLast(done, 1)
    <3>. SUFFICES ASSUME NEW j \in 1 + 1 .. Len(done) PROVE done[j].uri # done[1].uri
      BY DEF IsLast
    <3>1. j \in 2 .. Len(done)
      OBVIOUS
    <3>. QED
      BY <1>1, <1>2, <1>5, <3>1 DEF About
  <2>2. 1 \in 1 .. Len(done)
    BY <1>1
  <2>. QED
    BY <1>1, <1>5, <2>1, <2>2 DEF InLine
<1>6. InLine(queued, batch, rest, u, version, text, good)
  BY <1>4 DEF InLine
<1>. QED
  BY <1>3, <1>5, <1>6 DEF Rests, rest

-----------------------------------------------------------------------------
(* What is found in a buffer stays right, or its check is due again.        *)

\* What is still to be handled of the disk of the import `f`, known with the text `known`
\* and on disk with `text`, has the buffers that import it checked again.
Due(s, f, known, text) ==
    /\ Tells(s, f)
    /\ \/ text # NoText
       \/ /\ known # NoText
          /\ \E i \in 1 .. Len(s) :
                /\ Says(s[i], {"changed", "deleted"}, f)
                /\ \A j \in 1 .. i - 1 : ~Says(s[j], {"close"}, f)

\* What a check of the buffer `u` may find now, or have found: nothing as it failed, or
\* the problems of its text; and, if what is deleted was heard of first, `careful`,
\* against imports as they are on disk, but for those that it is still to be checked
\* again for.
Good(u, careful) ==
    {p \in Problems :
        \/ p = Failed
        \/ /\ p.text = index[u] /\ DOMAIN p.against = Reads[u]
           /\ careful /\ watching => \A f \in Reads[u] :
                 p.against[f] = disk[f] \/ Due(Stream, f, index[f], disk[f])}

LEMMA DueTail ==
    ASSUME NEW s, NEW t, Shorter(t, s), NEW f, NEW known, NEW text, NEW after,
           Due(s, f, known, text), ~Says(s[1], {"close"}, f), known # NoText => after # NoText,
           \/ ~Says(s[1], OnDisk, f)
           \/ text # NoText /\ Tells(t, f)
           \/ text = NoText /\ ~Says(s[1], {"changed", "deleted"}, f)
    PROVE  Due(t, f, after, text)
<1>1. \A i \in 1 .. Len(t) : i + 1 \in 1 .. Len(s) /\ t[i] = s[i + 1]
  BY DEF Shorter
<1>2. CASE text # NoText
  BY <1>2, TellsTail DEF Due
<1>3. CASE text = NoText
  <2>1. PICK i \in 1 .. Len(s) : /\ Says(s[i], {"changed", "deleted"}, f)
                                 /\ \A j \in 1 .. i - 1 : ~Says(s[j], {"close"}, f)
    BY <1>3 DEF Due
  <2>2. i # 1
    BY <1>3, <2>1 DEF Says, OnDisk
  <2>3. i - 1 \in 1 .. Len(t) /\ (i - 1) + 1 = i
    BY <2>2 DEF Shorter
  <2>4. t[i - 1] = s[i]
    BY <1>1, <2>3
  <2>5. ASSUME NEW j \in 1 .. (i - 1) - 1 PROVE ~Says(t[j], {"close"}, f)
    <3>1. j \in 1 .. Len(t) /\ j + 1 \in 1 .. i - 1
      BY <2>3
    <3>. QED
      BY <1>1, <2>1, <3>1
  <2>6. Tells(t, f)
    BY <2>1, <2>3, <2>4 DEF Tells, Says, OnDisk
  <2>. QED
    BY <1>3, <2>1, <2>3, <2>4, <2>5, <2>6 DEF Due
<1>. QED
  BY <1>2, <1>3

LEMMA DueLonger ==
    ASSUME NEW s, NEW t, NEW m, Longer(t, s, m), NEW f, NEW known, NEW text,
           Due(s, f, known, text)
    PROVE  Due(t, f, known, text)
<1>1. \A i \in 1 .. Len(s) : i \in 1 .. Len(t) /\ t[i] = s[i] /\ 1 .. i - 1 \subseteq 1 .. Len(s)
  BY DEF Longer
<1>2. Tells(t, f)
  BY <1>1 DEF Due, Tells
<1>3. ASSUME NEW i \in 1 .. Len(s), Says(s[i], {"changed", "deleted"}, f),
             \A j \in 1 .. i - 1 : ~Says(s[j], {"close"}, f)
      PROVE  /\ i \in 1 .. Len(t) /\ Says(t[i], {"changed", "deleted"}, f)
             /\ \A j \in 1 .. i - 1 : ~Says(t[j], {"close"}, f)
  BY <1>1, <1>3
<1>. QED
  BY <1>2, <1>3 DEF Due

\* Where the disk is spoken of, it is spoken of last.
LEMMA ToldSomewhere ==
    ASSUME NEW s, Len(s) \in Nat, NEW u, Tells(s, u)
    PROVE  \E i \in 1 .. Len(s) : LastTold(s, i, u)
<1>. DEFINE I == {i \in 1 .. Len(s) : Says(s[i], OnDisk, u)}
<1>1. \E i \in I : \A j \in I : j <= i
  <2>1. I \subseteq 0 .. Len(s) /\ I # {}
    BY DEF Tells
  <2>. HIDE DEF I
  <2>. QED
    BY <2>1, Greatest
<1>2. PICK i \in I : \A j \in I : j <= i
  BY <1>1
<1>3. \A j \in i + 1 .. Len(s) : j \in 1 .. Len(s) /\ ~(j <= i)
  OBVIOUS
<1>. QED
  BY <1>2, <1>3 DEF LastTold

\* A file that is there, and of whose creation nothing is left to be handled, is known.
LEMMA KnownThere ==
    ASSUME NEW s, Len(s) \in Nat, NEW u, NEW kept, NEW there, Told(s, u, kept, there),
           there # NoText, \A i \in 1 .. Len(s) : ~Says(s[i], {"created"}, u)
    PROVE  kept # NoText
<1>1. CASE ~Tells(s, u)
  BY <1>1 DEF Told
<1>2. CASE Tells(s, u)
  <2>1. PICK i \in 1 .. Len(s) : LastTold(s, i, u)
    BY <1>2, ToldSomewhere
  <2>2. ~Says(s[i], {"deleted"}, u)
    BY <2>1 DEF Told
  <2>3. Says(s[i], {"changed"}, u)
    BY <2>1, <2>2 DEF LastTold, Says, OnDisk
  <2>. QED
    BY <2>1, <2>3 DEF Told
<1>. QED
  BY <1>1, <1>2

\* A file that is written has its importers checked again.
LEMMA DueWritten ==
    ASSUME Typed, DiskTold, HeardFirst, watching, NEW f \in Uri, NEW text \in Anything,
           Writes(f, text)
    PROVE  Due(Stream', f, index[f], text)
<1>1. disk'[f] = text /\ text # disk[f]
  BY DEF Writes, Typed, TypedEditor
<1>2. PICK m : /\ Longer(Stream', Stream, m)
               /\ Says(m, {IF disk[f] = NoText THEN "created"
                           ELSE IF text = NoText THEN "deleted" ELSE "changed"}, f)
  BY DEF Writes
<1>3. /\ Len(Stream) \in Nat /\ Len(Stream') = Len(Stream) + 1 /\ Stream'[Len(Stream')] = m
      /\ Len(Stream') \in 1 .. Len(Stream')
      /\ \A i \in 1 .. Len(Stream) : Stream'[i] = Stream[i]
  BY <1>2 DEF Longer
<1>4. Tells(Stream', f)
  BY <1>2, <1>3 DEF Tells, Says, OnDisk
<1>5. CASE text # NoText
  BY <1>4, <1>5 DEF Due
<1>6. CASE text = NoText
  <2>1. \A i \in 1 .. Len(Stream) : ~Says(Stream[i], {"created", "close"}, f)
    <3>1. Stream = queue \o inbox
      BY DEF Stream, Loop!Stream
    <3>2. DOMAIN (queue \o inbox) = 1 .. Len(Stream)
      BY <3>1, StreamIs
    <3>. QED
      BY <1>1, <1>6, <3>1, <3>2 DEF HeardFirst, Says
  <2>2. Kept(f) # NoText
    <3>1. \A i \in 1 .. Len(Stream) : ~Says(Stream[i], {"created"}, f)
      BY <2>1 DEF Says
    <3>2. Told(Stream, f, Kept(f), disk[f]) /\ disk[f] # NoText
      BY <1>1, <1>6 DEF DiskTold
    <3>. QED
      BY <1>3, <3>1, <3>2, KnownThere
  <2>3. index[f] # NoText
    BY <2>2 DEF Kept
  <2>4. Says(m, {"changed", "deleted"}, f)
    BY <1>1, <1>2, <1>6 DEF Says
  <2>5. \A j \in 1 .. Len(Stream') - 1 : ~Says(Stream'[j], {"close"}, f)
    BY <1>3, <2>1 DEF Says
  <2>. QED
    BY <1>3, <1>4, <2>3, <2>4, <2>5 DEF Due
<1>. QED
  BY <1>5, <1>6

\* Every buffer that is to be checked has a job: its version and text after the step.
LEMMA CheckEach ==
    ASSUME jobs \in Seq(Job), NEW uris \in SUBSET Uri, Check(uris),
           open' \in [Uri -> Version \cup {0}], index' \in [Uri -> Anything],
           \A u \in uris : open'[u] # 0 /\ index'[u] \in Text
    PROVE  \E batch \in Seq(Job) :
              /\ jobs' = jobs \o batch
              /\ \A i \in 1 .. Len(batch) : /\ batch[i].uri \in uris
                                            /\ batch[i].version = open'[batch[i].uri]
                                            /\ batch[i].text = index'[batch[i].uri]
              /\ \A u \in uris \ CoreSource : About(batch, u)
<1>1. PICK order \in SetToSeqs(uris \ CoreSource) :
          Chk!Submit([i \in DOMAIN order |->
              [uri |-> order[i], version |-> open'[order[i]], text |-> index'[order[i]]]])
  BY DEF Check
<1>. DEFINE batch == [i \in DOMAIN order |->
              [uri |-> order[i], version |-> open'[order[i]], text |-> index'[order[i]]]]
<1>2. batch \in Seq(Job) /\ \A i \in DOMAIN order : order[i] \in uris
  BY BatchType
<1>3. jobs' = jobs \o batch
  BY <1>1 DEF Chk!Submit
<1>. DEFINE named == uris \ CoreSource
            n == Cardinality(named)
<1>4. IsFiniteSet(named) /\ n \in Nat
  BY LanguageServerAssumption, FS_Subset, FS_CardinalityType DEF LanguageServerAssumption
<1>5. /\ order \in [1 .. n -> named]
      /\ \A i, j \in 1 .. n : i # j => order[i] # order[j]
  BY DEF SetToSeqs
<1>6. Len(batch) = n /\ DOMAIN order = 1 .. n
  BY <1>2, <1>4, <1>5
<1>7. ASSUME NEW u \in named PROVE About(batch, u)
  <2>1. order \in Injection(1 .. n, named)
    BY <1>5 DEF Injection, IsInjective
  <2>2. Cardinality(1 .. n) = n
    BY <1>4, FS_Interval
  <2>3. order \in Surjection(1 .. n, named)
    <3>. HIDE DEF named
    <3>. QED
      BY <1>4, <2>1, <2>2, FS_Injection
  <2>4. PICK k \in 1 .. n : order[k] = u
    BY <2>3 DEF Surjection
  <2>5. k \in 1 .. Len(batch) /\ batch[k].uri = u
    BY <1>6, <2>4
  <2>. HIDE DEF batch
  <2>. QED
    BY <2>5 DEF About
<1>8. \A i \in 1 .. Len(batch) : /\ batch[i].uri \in uris
                                 /\ batch[i].version = open'[batch[i].uri]
                                 /\ batch[i].text = index'[batch[i].uri]
  BY <1>2, <1>6
<1>. HIDE DEF batch
<1>. QED
  BY <1>2, <1>3, <1>7, <1>8

\* So its check is on its way.
LEMMA CheckAll ==
    ASSUME jobs \in Seq(Job), NEW uris \in SUBSET Uri, Check(uris),
           open' \in [Uri -> Version \cup {0}], index' \in [Uri -> Anything],
           \A u \in uris : open'[u] # 0 /\ index'[u] \in Text,
           NEW u \in uris \ CoreSource
    PROVE  About(jobs', u)
<1>1. PICK batch \in Seq(Job) : jobs' = jobs \o batch /\ About(batch, u)
  BY CheckEach
<1>2. PICK i \in 1 .. Len(batch) : batch[i].uri = u
  BY <1>1 DEF About
<1>3. Len(jobs) + i \in 1 .. Len(jobs \o batch) /\ (jobs \o batch)[Len(jobs) + i] = batch[i]
  OBVIOUS
<1>. QED
  BY <1>1, <1>2, <1>3 DEF About

\* What a check found against an import stays right, or is due again, while nothing else
\* has the buffer checked.
LEMMA DueStays ==
    ASSUME Typed, Typed', ClosesOpen, DiskTold, HeardFirst, watching,
           Editor \/ Hears \/ Elsewhere,
           NEW u \in Uri \ CoreSource, IsOpen(u), open'[u] # 0, ~About(jobs', u),
           NEW f \in Reads[u],
           NEW x, x = disk[f] \/ Due(Stream, f, index[f], disk[f])
    PROVE  x = disk'[f] \/ Due(Stream', f, index'[f], disk'[f])
<1>0. f \in Uri /\ f # u
  BY LanguageServerAssumption DEF LanguageServerAssumption
<1>1. ASSUME disk'[f] = disk[f], index[f] # NoText => index'[f] # NoText,
             \/ Stream' = Stream /\ index'[f] = index[f]
             \/ /\ Shorter(Stream', Stream)
                /\ ~Says(Stream[1], {"close"}, f) /\ ~Says(Stream[1], OnDisk, f)
             \/ (\E m : Longer(Stream', Stream, m)) /\ index'[f] = index[f]
      PROVE  x = disk'[f] \/ Due(Stream', f, index'[f], disk'[f])
  BY <1>1, DueTail, DueLonger
<1>2. CASE Editor
  <2>1. index' = index
    BY <1>2, EditorMoves DEF stateVars
  <2>2. ASSUME NEW v \in Uri, NEW text \in Anything, Writes(v, text)
        PROVE  x = disk'[f] \/ Due(Stream', f, index'[f], disk'[f])
    <3>1. CASE v = f
      <4>1. disk'[f] = text
        BY <1>0, <2>2, <3>1 DEF Writes, Typed, TypedEditor
      <4>. QED
        BY <1>0, <2>1, <2>2, <3>1, <4>1, DueWritten
    <3>2. CASE v # f
      <4>1. disk'[f] = disk[f] /\ \E m : Longer(Stream', Stream, m)
        BY <1>0, <2>2, <3>2 DEF Writes, Typed, TypedEditor
      <4>. QED
        BY <1>1, <2>1, <4>1
    <3>. QED
      BY <3>1, <3>2
  <2>3. CASE (\E v \in Uri : BringsText(v) \/ SaysClosed(v)) \/ SaysElse
    <3>1. disk' = disk /\ (Stream' = Stream \/ \E m : Longer(Stream', Stream, m))
      BY <2>3 DEF BringsText, SaysClosed, SaysElse, editorVars
    <3>. QED
      BY <1>1, <2>1, <3>1
  <2>. QED
    BY <1>2, <2>2, <2>3, EditorMoves
<1>3. CASE Hears
  <2>. DEFINE n == Head(queue).note
  <2>1. /\ Shorter(Stream', Stream) /\ Sync /\ Stream[1] = Head(queue) /\ disk' = disk
        /\ Stream[1].kind = "note" /\ Len(Stream) \in Nat
    BY <1>3 DEF Hears, Sync, Shorter
  <2>2. CASE n.what = "configure" \/ f # n.uri
    <3>1. index'[f] = index[f]
      BY <1>0, <2>1, <2>2, SyncElse
    <3>2. ~Says(Stream[1], OnDisk, f) /\ ~Says(Stream[1], {"close"}, f)
      BY <2>1, <2>2 DEF Says, OnDisk
    <3>. QED
      BY <1>1, <2>1, <3>1, <3>2
  <2>3. CASE n.what \in {"open", "change"} /\ f = n.uri
    <3>1. Brings(Head(queue), f)
      BY <2>1, <2>3 DEF Brings
    <3>2. index'[f] # NoText
      BY <1>0, <2>1, <3>1, SyncTextHere, LanguageServerAssumption DEF LanguageServerAssumption
    <3>3. ~Says(Stream[1], OnDisk, f) /\ ~Says(Stream[1], {"close"}, f)
      BY <2>1, <2>3 DEF Says, OnDisk
    <3>. QED
      BY <1>1, <2>1, <3>2, <3>3
  <2>4. CASE n.what = "close" /\ f = n.uri
    <3>1. ~Says(Stream[1], OnDisk, f) /\ Says(Stream[1], {"close"}, f)
      BY <2>1, <2>4 DEF Says, OnDisk
    <3>2. Tells(Stream, f) => Tells(Stream', f)
      BY <2>1, <3>1, TellsTail
    <3>3. Due(Stream, f, index[f], disk[f]) => disk[f] # NoText
      <4>. SUFFICES ASSUME NEW i \in 1 .. Len(Stream),
                           Says(Stream[i], {"changed", "deleted"}, f),
                           \A j \in 1 .. i - 1 : ~Says(Stream[j], {"close"}, f)
                    PROVE  FALSE
        BY DEF Due
      <4>1. i # 1
        BY <3>1 DEF Says, OnDisk
      <4>2. 1 \in 1 .. i - 1
        BY <2>1, <4>1
      <4>. QED
        BY <3>1, <4>2
    <3>. QED
      BY <2>1, <3>2, <3>3 DEF Due
  <2>5. CASE n.what \in OnDisk /\ f = n.uri
    <3>1. Says(Stream[1], OnDisk, f) /\ Says(Head(queue), OnDisk, f)
          /\ \A w \in OnDisk : Says(Stream[1], {w}, f) <=> n.what = w
      BY <2>1, <2>5 DEF Says
    <3>2. /\ open' = open
          /\ index'[f] = IF ~Looked(n.what, f) \/ IsOpen(f) THEN index[f]
                         ELSE IF n.what = "deleted" THEN NoText ELSE disk[f]
          /\ Check(IF Looked(n.what, f) THEN OpenImporters({f}) ELSE {})
      BY <1>0, <2>1, <3>1, SyncDiskHere
    <3>3. ~Looked(n.what, f)
      <4>. SUFFICES ASSUME Looked(n.what, f) PROVE FALSE
        OBVIOUS
      <4>1. Check(OpenImporters({f})) /\ OpenImporters({f}) \in SUBSET Uri
            /\ \A v \in OpenImporters({f}) : open'[v] # 0 /\ index'[v] \in Text
        BY <3>2 DEF OpenImporters, IsOpen, Typed, OpenTexts
      <4>2. u \in OpenImporters({f}) \ CoreSource
        BY <1>0 DEF OpenImporters
      <4>. QED
        BY <4>1, <4>2, CheckAll DEF Typed, TypedChecker, TypedState
    <3>4. index'[f] = index[f] /\ disk'[f] = disk[f]
      BY <2>1, <3>2, <3>3
    <3>5. ~Says(Stream[1], {"close"}, f)
      BY <3>1 DEF Says, OnDisk
    <3>6. ASSUME Due(Stream, f, index[f], disk[f]) PROVE Due(Stream', f, index'[f], disk'[f])
      <4>1. CASE n.what = "created"
        <5>1. disk[f] = NoText /\ ~Says(Stream[1], {"changed", "deleted"}, f)
          BY <2>1, <3>3, <4>1 DEF Looked, Says
        <5>. QED
          BY <2>1, <3>4, <3>5, <3>6, <5>1, DueTail
      <4>2. CASE n.what # "created"
        <5>1. index[f] = NoText /\ disk[f] # NoText
          BY <3>3, <3>6, <4>2 DEF Looked, Due
        <5>2. Tells(Stream', f)
          <6>. SUFFICES ASSUME ~Tells(Stream', f) PROVE FALSE
            OBVIOUS
          <6>1. Told(Stream, f, Kept(f), disk[f])
            BY <1>0 DEF DiskTold
          <6>2. /\ Says(Stream[1], {"deleted"}, f) <=> disk[f] = NoText
                /\ Says(Stream[1], {"changed"}, f) => Kept(f) # NoText
            BY <2>1, <3>1, <6>1, ToldLast
          <6>3. Kept(f) = NoText
            BY <5>1 DEF Kept
          <6>. QED
            BY <2>5, <3>1, <4>2, <5>1, <6>2, <6>3 DEF OnDisk
        <5>. QED
          BY <3>4, <5>1, <5>2 DEF Due
      <4>. QED
        BY <4>1, <4>2
    <3>. QED
      BY <3>4, <3>6
  <2>6. n \in Notification
    BY <2>1, NoteType DEF Typed, Sync
  <2>7. n.what = "configure" \/ n.what \in {"open", "change"} \/ n.what = "close" \/ n.what \in OnDisk
    BY <2>6 DEF Notification, OnDisk
  <2>. HIDE DEF n
  <2>. QED
    BY <2>2, <2>3, <2>4, <2>5, <2>7
<1>4. CASE Elsewhere
  <2>1. Shorter(Stream', Stream) /\ Stream[1].kind # "note" =>
            ~Says(Stream[1], {"close"}, f) /\ ~Says(Stream[1], OnDisk, f)
    BY DEF Says
  <2>. QED
    BY <1>1, <1>4, <2>1 DEF Elsewhere
<1>. QED
  BY <1>2, <1>3, <1>4

LEMMA GoodStays ==
    ASSUME NEW careful \in BOOLEAN, careful => HeardFirst, watching' = watching,
           Typed, Typed', ClosesOpen, DiskTold,
           Editor \/ Hears \/ Elsewhere,
           NEW u \in Uri \ CoreSource, IsOpen(u), open'[u] # 0, ~About(jobs', u),
           index'[u] = index[u]
    PROVE  Good(u, careful) \subseteq Good(u, careful)'
<1>. SUFFICES ASSUME NEW p \in Good(u, careful) PROVE p \in Good(u, careful)'
  OBVIOUS
<1>1. CASE p = Failed
  BY <1>1 DEF Good
<1>2. CASE p # Failed
  <2>1. /\ p \in Problems /\ p.text = index[u] /\ DOMAIN p.against = Reads[u]
        /\ careful /\ watching => \A f \in Reads[u] :
              p.against[f] = disk[f] \/ Due(Stream, f, index[f], disk[f])
    BY <1>2 DEF Good
  <2>2. ASSUME careful, watching, NEW f \in Reads[u]
        PROVE  p.against[f] = disk'[f] \/ Due(Stream', f, index'[f], disk'[f])
    BY <2>1, <2>2, DueStays
  <2>. QED
    BY <2>1, <2>2 DEF Good
<1>. QED
  BY <1>1, <1>2

-----------------------------------------------------------------------------
(* What is shown of a buffer is the last word about it, or one is on its way. *)

Checkable(u) == IsOpen(u) /\ u \notin CoreSource
Line(u, careful)      == InLine(jobs, pending, results, u, open[u], index[u], Good(u, careful))
Resting(u)   == Rests(jobs, pending, results, u)

\* What Janet found in the open version of `u` is kept, and shown.
ShowsLatest(u, careful) ==
    /\ shown[u].by = "buffer" /\ shown[u].version = open[u]
    /\ compiled[u] = [version |-> open[u], problems |-> shown[u].problems]
    /\ shown[u].problems \in Good(u, careful)

LineInv(careful) ==
    /\ phase = "idle" => pending = <<>>
    /\ OneEach(pending)
    /\ \A u \in Uri : Checkable(u) => Line(u, careful) /\ (Resting(u) => ShowsLatest(u, careful))

\* While no check of it is queued more may be good.
LEMMA LineStays ==
    ASSUME NEW queued, NEW batch, NEW done, NEW u, NEW version, NEW text, NEW good, NEW good2,
           InLine(queued, batch, done, u, version, text, good),
           ~About(queued, u) => good \subseteq good2
    PROVE  InLine(queued, batch, done, u, version, text, good2)
BY DEF InLine

\* Nothing happens to the line.
LEMMA LineKept ==
    ASSUME NEW careful \in BOOLEAN, LineInv(careful), UNCHANGED <<jobs, pending, phase, results>>,
           NEW u \in Uri, Checkable(u), open'[u] = open[u], index'[u] = index[u],
           ~About(jobs, u) => Good(u, careful) \subseteq Good(u, careful)',
           \/ shown'[u] = shown[u] /\ compiled'[u] = compiled[u]
           \/ /\ compiled'[u] = compiled[u] /\ shown'[u].by = "buffer"
              /\ shown'[u].version = compiled[u].version
              /\ shown'[u].problems = compiled[u].problems /\ compiled[u].version = open[u]
    PROVE  Line(u, careful)' /\ (Resting(u) => ShowsLatest(u, careful))'
<1>1. Line(u, careful) /\ (Resting(u) => ShowsLatest(u, careful))
  BY DEF LineInv
<1>2. Line(u, careful)'
  <2>1. InLine(jobs, pending, results, u, open[u], index[u], Good(u, careful)')
    BY <1>1, LineStays DEF Line
  <2>. QED
    BY <2>1 DEF Line
<1>3. Resting(u)' => Resting(u) /\ ~About(jobs, u)
  BY DEF Resting, Rests
<1>4. ASSUME ShowsLatest(u, careful), ~About(jobs, u) PROVE ShowsLatest(u, careful)'
  <2>1. shown'[u].by = "buffer" /\ shown'[u].version = open[u] /\ compiled'[u] = compiled[u]
        /\ shown'[u].problems = shown[u].problems
    BY <1>4 DEF ShowsLatest
  <2>. QED
    BY <1>4, <2>1 DEF ShowsLatest
<1>. QED
  BY <1>1, <1>2, <1>3, <1>4

\* The checking thread moves what is in the line on, and finds what is good.
LEMMA CheckerLine ==
    ASSUME NEW careful \in BOOLEAN, Typed, Typed', LineInv(careful), CheckerThread
    PROVE  /\ LineInv(careful)'
           /\ \A u \in Uri : Checkable(u) /\ Resting(u)' => Resting(u)
<1>1. /\ UNCHANGED <<watching, open, index, disk, shown, compiled, Stream>>
      /\ jobs \in Seq(Job) /\ pending \in Seq(Job) /\ results \in Seq(Checked)
  BY CheckerFrame DEF stateVars, editorVars, Stream, Loop!Stream, Typed, TypedChecker,
     Loop!TypeOK, Loop!LoopTypeOK
<1>2. \A u \in Uri : Good(u, careful)' = Good(u, careful)
  BY <1>1 DEF Good
<1>3. SUFFICES /\ phase' = "idle" => pending' = <<>>
               /\ OneEach(pending')
               /\ \A u \in Uri : Line(u, careful) =>
                     /\ InLine(jobs', pending', results', u, open[u], index[u],
                               Good(u, careful))
                     /\ Rests(jobs', pending', results', u) => Resting(u)
  <2>0. ASSUME NEW u \in Uri, Checkable(u), Resting(u)',
               Line(u, careful) => (Rests(jobs', pending', results', u) => Resting(u))
        PROVE  Resting(u)
    BY <2>0 DEF LineInv, Resting
  <2>. SUFFICES ASSUME NEW u \in Uri, Checkable(u)',
                       Line(u, careful) =>
                          /\ InLine(jobs', pending', results', u, open[u], index[u],
                                    Good(u, careful))
                          /\ Rests(jobs', pending', results', u) => Resting(u)
                PROVE  Line(u, careful)' /\ (Resting(u) => ShowsLatest(u, careful))'
    BY <2>0 DEF LineInv, OneEach
  <2>1. Line(u, careful) /\ (Resting(u) => ShowsLatest(u, careful))
    BY <1>1 DEF LineInv, Checkable, IsOpen
  <2>2. /\ InLine(jobs', pending', results', u, open[u], index[u], Good(u, careful))
        /\ Rests(jobs', pending', results', u) => Resting(u)
    BY <2>1
  <2>3. Line(u, careful)' /\ (Resting(u)' => Resting(u))
    BY <1>1, <1>2, <2>2 DEF Line, Resting
  <2>4. ShowsLatest(u, careful) => ShowsLatest(u, careful)'
    BY <1>1, <1>2 DEF ShowsLatest
  <2>. QED
    BY <2>1, <2>3, <2>4
<1>4. ASSUME jobs # <<>>, jobs' = Tail(jobs), results' = results, phase' = "gathering",
             OneEach(pending'),
             \A u \in Uri : \A i \in 1 .. Len(pending') : pending'[i].uri = u =>
                \/ pending'[i] = Head(jobs)
                \/ Head(jobs).uri # u /\ \E j \in 1 .. Len(pending) : pending'[i] = pending[j],
             \A u \in Uri : About(pending', u) <=> Head(jobs).uri = u \/ About(pending, u)
      PROVE  /\ phase' = "idle" => pending' = <<>>
             /\ OneEach(pending')
             /\ \A u \in Uri : Line(u, careful) =>
                   /\ InLine(jobs', pending', results', u, open[u], index[u],
                             Good(u, careful))
                   /\ Rests(jobs', pending', results', u) => Resting(u)
  <2>1. ASSUME NEW u \in Uri, Line(u, careful)
        PROVE  /\ InLine(Tail(jobs), pending', results, u, open[u], index[u], Good(u, careful))
               /\ Rests(Tail(jobs), pending', results, u) <=> Rests(jobs, pending, results, u)
    <3>1. InLine(jobs, pending, results, u, open[u], index[u], Good(u, careful))
      BY <2>1 DEF Line
    <3>. QED
      BY <1>1, <1>4, <3>1, LineGathers
  <2>. QED
    BY <1>4, <2>1 DEF Resting
<1>5. CASE Chk!TakeFirst /\ UNCHANGED loaded
  <2>1. /\ pending = <<>> /\ pending' = <<Head(jobs)>> /\ jobs # <<>> /\ jobs' = Tail(jobs)
        /\ results' = results /\ phase' = "gathering"
    BY <1>5 DEF Chk!TakeFirst, LineInv
  <2>2. /\ Len(pending') = 1 /\ pending'[1] = Head(jobs) /\ Len(pending) = 0
        /\ \A z : z = 0 => 1 .. z = {}
        /\ \A z : z = 1 => 1 .. z = {1}
    BY <2>1
  <2>3. 1 .. Len(pending') = {1} /\ 1 .. Len(pending) = {}
    BY <2>2
  <2>4. OneEach(pending')
    BY <2>3 DEF OneEach
  <2>5. \A u \in Uri : About(pending', u) <=> Head(jobs).uri = u \/ About(pending, u)
    BY <2>2, <2>3 DEF About
  <2>. QED
    BY <1>4, <2>1, <2>2, <2>3, <2>4, <2>5
<1>6. CASE Chk!Gather /\ UNCHANGED loaded
  <2>. DEFINE others == Others(pending, Head(jobs).uri)
  <2>1. /\ jobs # <<>> /\ jobs' = Tail(jobs) /\ results' = results /\ phase' = "gathering"
        /\ pending' = Append(others, Head(jobs))
    BY <1>6 DEF Chk!Gather, Others
  <2>2. /\ others \in Seq(Job) /\ OneEach(others)
        /\ \A i \in 1 .. Len(others) :
              others[i].uri # Head(jobs).uri /\ \E j \in 1 .. Len(pending) : others[i] = pending[j]
        /\ \A j \in 1 .. Len(pending) :
              pending[j].uri # Head(jobs).uri => \E i \in 1 .. Len(others) : others[i] = pending[j]
    <3>1. OneEach(pending)
      BY DEF LineInv
    <3>. QED
      BY <1>1, <3>1, WithoutLeaves
  <2>. HIDE DEF others
  <2>3. /\ Len(pending') = Len(others) + 1 /\ Len(others) \in Nat
        /\ pending'[Len(others) + 1] = Head(jobs)
        /\ \A i \in 1 .. Len(others) : pending'[i] = others[i] /\ i \in 1 .. Len(pending')
        /\ Len(others) + 1 \in 1 .. Len(pending')
        /\ \A i \in 1 .. Len(pending') : i \in 1 .. Len(others) \/ i = Len(others) + 1
    <3>1. Head(jobs) \in Job
      BY <1>1, <2>1
    <3>. QED
      BY <2>1, <2>2, <3>1
  <2>4. OneEach(pending')
    BY <2>2, <2>3 DEF OneEach
  <2>5. ASSUME NEW u \in Uri PROVE About(pending', u) <=> Head(jobs).uri = u \/ About(pending, u)
    <3>1. ASSUME NEW j \in 1 .. Len(pending), pending[j].uri = u, Head(jobs).uri # u
          PROVE  About(pending', u)
      <4>1. PICK i \in 1 .. Len(others) : others[i] = pending[j]
        BY <2>2, <3>1
      <4>. QED
        BY <2>3, <3>1, <4>1 DEF About
    <3>2. Head(jobs).uri = u => About(pending', u)
      BY <2>3 DEF About
    <3>3. ASSUME NEW i \in 1 .. Len(pending'), pending'[i].uri = u
          PROVE  Head(jobs).uri = u \/ About(pending, u)
      <4>1. CASE i = Len(others) + 1
        BY <2>3, <3>3, <4>1
      <4>2. CASE i \in 1 .. Len(others)
        <5>1. PICK j \in 1 .. Len(pending) : others[i] = pending[j]
          BY <2>2, <4>2
        <5>. QED
          BY <2>3, <3>3, <4>2, <5>1 DEF About
      <4>. QED
        BY <2>3, <4>1, <4>2
    <3>. QED
      BY <3>1, <3>2, <3>3 DEF About
  <2>6. ASSUME NEW u \in Uri, NEW i \in 1 .. Len(pending'), pending'[i].uri = u
        PROVE  \/ pending'[i] = Head(jobs)
               \/ Head(jobs).uri # u /\ \E j \in 1 .. Len(pending) : pending'[i] = pending[j]
    BY <2>2, <2>3, <2>6
  <2>. QED
    BY <1>4, <2>1, <2>4, <2>5, <2>6
<1>7. CASE Chk!Settle /\ UNCHANGED loaded
  <2>1. /\ pending' = Chk!Reverse(pending) /\ jobs' = jobs /\ results' = results
        /\ phase' = "checking"
    BY <1>7 DEF Chk!Settle
  <2>2. /\ Len(pending') = Len(pending) /\ Len(pending) \in Nat
        /\ \A i \in 1 .. Len(pending) : pending'[i] = pending[Len(pending) - i + 1]
    BY <1>1, <2>1 DEF Chk!Reverse
  <2>3. \A i \in 1 .. Len(pending) : /\ Len(pending) - i + 1 \in 1 .. Len(pending)
                                     /\ Len(pending) - (Len(pending) - i + 1) + 1 = i
    BY <2>2
  <2>4. /\ \A i \in 1 .. Len(pending') : \E j \in 1 .. Len(pending) : pending'[i] = pending[j]
        /\ \A i \in 1 .. Len(pending) : \E j \in 1 .. Len(pending') : pending[i] = pending'[j]
    BY <2>2, <2>3
  <2>5. OneEach(pending')
    <3>. SUFFICES ASSUME NEW i \in 1 .. Len(pending), NEW j \in 1 .. Len(pending),
                         pending'[i].uri = pending'[j].uri
                  PROVE  i = j
      BY <2>2 DEF OneEach
    <3>. DEFINE k == Len(pending) - i + 1
                l == Len(pending) - j + 1
    <3>1. k \in 1 .. Len(pending) /\ l \in 1 .. Len(pending) /\ pending[k].uri = pending[l].uri
      BY <2>2, <2>3
    <3>2. k = l
      <4>. HIDE DEF k, l
      <4>. QED
        BY <3>1 DEF LineInv, OneEach
    <3>. QED
      BY <2>2, <3>2
  <2>6. ASSUME NEW u \in Uri, Line(u, careful)
        PROVE  /\ InLine(jobs, pending', results, u, open[u], index[u], Good(u, careful))
               /\ Rests(jobs, pending', results, u) <=> Rests(jobs, pending, results, u)
    <3>1. InLine(jobs, pending, results, u, open[u], index[u], Good(u, careful))
      BY <2>6 DEF Line
    <3>. QED
      BY <2>4, <3>1, LineSettles
  <2>. QED
    BY <2>1, <2>5, <2>6 DEF Resting
<1>8. ASSUME pending # <<>>, NEW report \in Report, Chk!CheckOne(report),
             \A u \in Uri : Head(pending).uri = u /\ Head(pending).text = index[u] =>
                report.problems \in Good(u, careful)
      PROVE  /\ phase' = "idle" => pending' = <<>>
             /\ OneEach(pending')
             /\ \A u \in Uri : Line(u, careful) =>
                   /\ InLine(jobs', pending', results', u, open[u], index[u],
                             Good(u, careful))
                   /\ Rests(jobs', pending', results', u) => Resting(u)
  <2>. DEFINE found == [uri |-> Head(pending).uri, version |-> Head(pending).version,
                        report |-> report]
  <2>1. /\ pending' = Tail(pending) /\ jobs' = jobs /\ results' = Append(results, found)
        /\ phase' = IF Len(pending) = 1 THEN "idle" ELSE "checking"
    BY <1>8 DEF Chk!CheckOne
  <2>2. found \in Checked
    <3>1. Head(pending) \in Job
      BY <1>1, <1>8
    <3>. QED
      BY <3>1 DEF Checked, Job
  <2>3. phase' = "idle" => pending' = <<>>
    <3>1. Len(pending) = 1 => Tail(pending) = <<>>
      <4>1. Len(pending) = 1 => Tail(pending) \in Seq(Job) /\ Len(Tail(pending)) = 0
        BY <1>1, <1>8
      <4>. QED
        BY <4>1, EmptySeq
    <3>. QED
      BY <2>1, <3>1
  <2>4. OneEach(pending')
    <3>1. Len(pending') = Len(pending) - 1 /\ Len(pending) \in Nat
          /\ \A i \in 1 .. Len(pending') : pending'[i] = pending[i + 1] /\ i + 1 \in 1 .. Len(pending)
      BY <1>1, <1>8, <2>1
    <3>2. \A i, j \in 1 .. Len(pending') : i + 1 = j + 1 => i = j
      BY <3>1
    <3>. QED
      BY <3>1, <3>2 DEF LineInv, OneEach
  <2>5. /\ found.uri = Head(pending).uri /\ found.version = Head(pending).version
        /\ found.report = report
    OBVIOUS
  <2>. HIDE DEF found
  <2>6. ASSUME NEW u \in Uri, Line(u, careful)
        PROVE  /\ InLine(jobs, Tail(pending), Append(results, found), u, open[u], index[u],
                         Good(u, careful))
               /\ Rests(jobs, Tail(pending), Append(results, found), u)
                     => Rests(jobs, pending, results, u)
    <3>1. /\ InLine(jobs, pending, results, u, open[u], index[u], Good(u, careful))
          /\ OneEach(pending)
      BY <2>6 DEF Line, LineInv
    <3>2. Head(pending).uri = u /\ Head(pending).text = index[u] =>
             found.report.problems \in Good(u, careful)
      BY <1>8, <2>5
    <3>. QED
      BY <1>1, <1>8, <2>2, <2>5, <3>1, <3>2, LineChecks
  <2>. QED
    BY <2>1, <2>3, <2>4, <2>6 DEF Resting
<1>9. CASE pending # <<>> /\ Checks(Head(pending))
  <2>. DEFINE job == Head(pending)
              report == [problems |-> [text |-> job.text,
                                       against |-> [f \in Reads[job.uri] |-> disk[f]]],
                         bindings |-> [f \in Loads(job.uri) \cup {job.uri} |->
                                          IF f = job.uri THEN job.text ELSE disk[f]]]
  <2>1. job \in Job
    BY <1>1, <1>9
  <2>2. report \in Report
    BY <2>1, ReportType DEF Report, Typed
  <2>3. Chk!CheckOne(report)
    BY <1>9 DEF Checks
  <2>4. /\ report.problems.text = job.text
        /\ report.problems.against = [f \in Reads[job.uri] |-> disk[f]]
    OBVIOUS
  <2>. HIDE DEF report
  <2>5. ASSUME NEW u \in Uri, job.uri = u, job.text = index[u]
        PROVE  report.problems \in Good(u, careful)
    <3>1. report.problems \in Problems
      BY <2>2 DEF Report
    <3>. QED
      BY <2>4, <2>5, <3>1 DEF Good
  <2>. QED
    BY <1>8, <1>9, <2>2, <2>3, <2>5
<1>10. CASE CheckFails
  <2>. DEFINE report == [problems |-> Failed, bindings |-> <<>>]
  <2>1. report \in Report
    <3>1. <<>> \in [{} -> Text] /\ {} \in SUBSET Uri
      OBVIOUS
    <3>. QED
      BY <3>1, NothingFound DEF Report
  <2>2. Chk!CheckOne(report) /\ pending # <<>>
    BY <1>10 DEF CheckFails, Chk!CheckOne
  <2>3. \A u \in Uri : report.problems \in Good(u, careful)
    BY NothingFound DEF Good
  <2>. HIDE DEF report
  <2>. QED
    BY <1>8, <2>1, <2>2, <2>3
<1>. QED
  BY <1>5, <1>6, <1>7, <1>9, <1>10 DEF CheckerThread

\* Jobs of a buffer are queued, whatever was said of it before.
LEMMA LineJoins ==
    ASSUME NEW S, NEW queued \in Seq(S), NEW added \in Seq(S), NEW batch, NEW done, NEW u,
           NEW version, NEW text, NEW good, About(added, u),
           \A i \in 1 .. Len(added) : added[i].uri = u =>
              added[i].version = version /\ added[i].text = text
    PROVE  /\ InLine(queued \o added, batch, done, u, version, text, good)
           /\ About(queued \o added, u)
<1>. DEFINE both == queued \o added
<1>1. /\ Len(both) = Len(queued) + Len(added) /\ Len(queued) \in Nat /\ Len(added) \in Nat
      /\ \A i \in 1 .. Len(added) : /\ both[Len(queued) + i] = added[i]
                                    /\ Len(queued) + i \in 1 .. Len(both)
      /\ \A i \in 1 .. Len(both) : i \in 1 .. Len(queued) \/
             (i - Len(queued) \in 1 .. Len(added) /\ both[i] = added[i - Len(queued)])
  OBVIOUS
<1>. HIDE DEF both
<1>2. PICK k \in 1 .. Len(added) : added[k].uri = u
  BY DEF About
<1>3. About(both, u)
  BY <1>1, <1>2 DEF About
<1>4. ASSUME NEW i \in 1 .. Len(both), both[i].uri = u, IsLast(both, i)
      PROVE  both[i].version = version /\ both[i].text = text
  <2>1. ~(i \in 1 .. Len(queued))
    <3>. SUFFICES ASSUME i \in 1 .. Len(queued) PROVE FALSE
      OBVIOUS
    <3>1. Len(queued) + k \in i + 1 .. Len(both)
      BY <1>1
    <3>. QED
      BY <1>1, <1>2, <1>4, <3>1 DEF IsLast
  <2>. QED
    BY <1>1, <1>4, <2>1
<1>. QED
  BY <1>3, <1>4 DEF InLine, both

\* A notification about a buffer's text puts it in the line; any other leaves it there,
\* or puts it there again.
LEMMA SyncLine ==
    ASSUME NEW careful \in BOOLEAN, careful => HeardFirst, LineInv(careful),
           Typed, Typed', ClosesOpen, DiskTold, Hears, NEW u \in Uri, Checkable(u)'
    PROVE  Line(u, careful)' /\ (Resting(u) => ShowsLatest(u, careful))'
<1>. DEFINE n == Head(queue).note
<1>0. results' = results
  BY DEF Hears, Sync, Srv!Notify, Srv!Pop
<1>1. /\ Sync /\ UNCHANGED <<watching, pending, phase>> /\ results' = results
      /\ SyncText(n) \/ SyncClose(n) \/ SyncDisk(n) \/ SyncSettings(n)
      /\ jobs \in Seq(Job) /\ u \notin CoreSource /\ open'[u] # 0
      /\ Head(queue).kind = "note"
  BY <1>0 DEF Hears, Sync, Typed, TypedChecker, Checkable, IsOpen
<1>2. /\ open' \in [Uri -> Version \cup {0}] /\ index' \in [Uri -> Anything]
      /\ \A v \in Uri : open'[v] # 0 => index'[v] \in Text
  BY DEF Typed, TypedState, OpenTexts, IsOpen
<1>3. n \in Notification
  BY <1>1, NoteType DEF Typed, Sync
<1>. HIDE DEF n
\* What is queued is up to date.
<1>4. PICK uris \in SUBSET Uri, batch \in Seq(Job) :
          /\ \A v \in uris : open'[v] # 0
          /\ (uris = {} /\ jobs' = jobs) \/ Check(uris)
          /\ SyncText(n) => uris = {n.uri}
          /\ jobs' = jobs \o batch
          /\ \A i \in 1 .. Len(batch) : /\ batch[i].version = open'[batch[i].uri]
                                        /\ batch[i].text = index'[batch[i].uri]
          /\ \A v \in uris \ CoreSource : About(batch, v)
  <2>1. PICK uris \in SUBSET Uri : /\ \A v \in uris : open'[v] # 0
                                   /\ (uris = {} /\ jobs' = jobs) \/ Check(uris)
                                   /\ SyncText(n) => uris = {n.uri}
    <3>1. CASE SyncText(n)
      <4>1. /\ n.uri \in Uri /\ n.version # 0 /\ Check({n.uri})
            /\ open' = [open EXCEPT ![n.uri] = n.version]
        BY <1>3, <3>1 DEF SyncText, Notification, Version
      <4>. QED
        BY <4>1 DEF Typed, TypedState
    <3>2. CASE SyncClose(n)
      <4>1. jobs' = jobs /\ ~SyncText(n)
        BY <3>2 DEF SyncClose, SyncText
      <4>. WITNESS {} \in SUBSET Uri
      <4>. QED
        BY <4>1
    <3>3. CASE SyncDisk(n)
      <4>1. PICK uris \in SUBSET Uri : Check(uris) /\ \A v \in uris : open'[v] # 0
        BY <3>3 DEF SyncDisk, OpenImporters, IsOpen
      <4>2. ~SyncText(n)
        BY <3>3 DEF SyncDisk, SyncText
      <4>. QED
        BY <4>1, <4>2
    <3>4. CASE SyncSettings(n)
      <4>1. PICK uris \in SUBSET Uri : Check(uris) /\ \A v \in uris : open'[v] # 0
        BY <3>4 DEF SyncSettings, IsOpen
      <4>2. ~SyncText(n)
        BY <3>4 DEF SyncSettings, SyncText
      <4>. QED
        BY <4>1, <4>2
    <3>. QED
      BY <1>1, <3>1, <3>2, <3>3, <3>4
  <2>2. CASE uris = {} /\ jobs' = jobs
    <3>1. jobs' = jobs \o <<>> /\ <<>> \in Seq(Job) /\ Len(<<>>) = 0
      BY <1>1, <2>2, ConcatEmptySeq, EmptySeq
    <3>2. \A i \in 1 .. Len(<<>>) : FALSE
      BY <3>1
    <3>. WITNESS uris \in SUBSET Uri, <<>> \in Seq(Job)
    <3>. QED
      BY <2>1, <2>2, <3>1, <3>2
  <2>3. CASE Check(uris)
    <3>1. PICK batch \in Seq(Job) :
              /\ jobs' = jobs \o batch
              /\ \A i \in 1 .. Len(batch) : /\ batch[i].uri \in uris
                                            /\ batch[i].version = open'[batch[i].uri]
                                            /\ batch[i].text = index'[batch[i].uri]
              /\ \A v \in uris \ CoreSource : About(batch, v)
      BY <1>1, <1>2, <2>1, <2>3, CheckEach
    <3>. QED
      BY <2>1, <3>1
  <2>. QED
    BY <2>1, <2>2, <2>3
<1>5. \A i \in 1 .. Len(batch) : batch[i].uri = u =>
          batch[i].version = open'[u] /\ batch[i].text = index'[u]
  BY <1>4
<1>6. ASSUME IsOpen(u), open'[u] = open[u], index'[u] = index[u],
             shown'[u] = shown[u], compiled'[u] = compiled[u]
      PROVE  Line(u, careful)' /\ (Resting(u) => ShowsLatest(u, careful))'
  <2>1. Line(u, careful) /\ (Resting(u) => ShowsLatest(u, careful))
    BY <1>1, <1>6 DEF LineInv, Checkable
  <2>2. ~About(jobs', u) => Good(u, careful) \subseteq Good(u, careful)'
    BY <1>1, <1>6, GoodStays
  <2>3. /\ InLine(jobs \o batch, pending, results, u, open'[u], index'[u], Good(u, careful)')
        /\ About(jobs \o batch, u) <=> About(jobs, u) \/ About(batch, u)
    <3>1. InLine(jobs, pending, results, u, open[u], index[u], Good(u, careful))
      BY <2>1 DEF Line
    <3>2. jobs \in Seq(Job) /\ batch \in Seq(Job)
      BY <1>1, <1>4
    <3>3. ASSUME NEW good2, ~About(jobs, u) /\ ~About(batch, u) => Good(u, careful) \subseteq good2
          PROVE  /\ InLine(jobs \o batch, pending, results, u, open'[u], index'[u], good2)
                 /\ About(jobs \o batch, u) <=> About(jobs, u) \/ About(batch, u)
      BY <1>5, <1>6, <3>1, <3>2, <3>3, LineQueues
    <3>4. About(jobs \o batch, u) <=> About(jobs, u) \/ About(batch, u)
      BY <3>3
    <3>5. ~About(jobs, u) /\ ~About(batch, u) => Good(u, careful) \subseteq Good(u, careful)'
      BY <1>4, <2>2, <3>4
    <3>. QED
      BY <3>3, <3>5
  <2>4. Line(u, careful)'
    BY <1>1, <1>4, <2>3 DEF Line
  <2>5. Resting(u)' => Resting(u) /\ ~About(jobs', u)
    BY <1>1, <1>4, <2>3 DEF Resting, Rests
  <2>6. ShowsLatest(u, careful) /\ Good(u, careful) \subseteq Good(u, careful)'
           => ShowsLatest(u, careful)'
    BY <1>6 DEF ShowsLatest
  <2>. QED
    BY <2>1, <2>2, <2>4, <2>5, <2>6
<1>7. CASE SyncText(n) /\ n.uri = u
  <2>1. About(batch, u)
    BY <1>1, <1>4, <1>7
  <2>2. /\ InLine(jobs \o batch, pending, results, u, open'[u], index'[u], Good(u, careful)')
        /\ About(jobs \o batch, u)
    <3>1. jobs \in Seq(Job) /\ batch \in Seq(Job)
      BY <1>1, <1>4
    <3>. QED
      BY <1>5, <2>1, <3>1, LineJoins
  <2>3. Line(u, careful)' /\ ~Resting(u)'
    BY <1>1, <1>4, <2>2 DEF Line, Resting, Rests
  <2>. QED
    BY <2>3
<1>8. CASE ~(SyncText(n) /\ n.uri = u)
  <2>1. IsOpen(u) /\ open'[u] = open[u] /\ index'[u] = index[u]
    <3>1. CASE n.what = "configure" \/ u # n.uri
      <4>1. open'[u] = open[u]
        BY <1>1, <3>1, SyncElse DEF n
      <4>. QED
        BY <1>1, <3>1, <4>1, SyncElse DEF IsOpen, n
    <3>2. CASE n.what = "close" /\ u = n.uri
      BY <1>1, <3>2, SyncCloseHere DEF Says, n
    <3>3. CASE n.what \in OnDisk /\ u = n.uri
      BY <1>1, <3>3, SyncDiskHere DEF Says, n, IsOpen
    <3>4. CASE n.what \in {"open", "change"} /\ u = n.uri
      BY <1>1, <1>8, <3>4, SyncTextHere DEF Brings, n
    <3>. QED
      BY <1>3, <3>1, <3>2, <3>3, <3>4 DEF Notification, OnDisk
  <2>2. shown'[u] = shown[u] /\ compiled'[u] = compiled[u]
    <3>1. CASE SyncClose(n)
      <4>1. n.uri # u
        BY <1>1, <1>3, <3>1 DEF SyncClose, Typed, TypedState
      <4>. QED
        BY <3>1, <4>1 DEF SyncClose, Typed, TypedMarks
    <3>2. CASE SyncText(n) \/ SyncDisk(n) \/ SyncSettings(n)
      BY <3>2 DEF SyncText, SyncDisk, SyncSettings
    <3>. QED
      BY <1>1, <3>1, <3>2
  <2>. QED
    BY <1>6, <2>1, <2>2
<1>. QED
  BY <1>7, <1>8

\* The steps of the server that neither change its state nor publish.
LEMMA OtherSteps ==
    ASSUME Server, ~Sync, ~Publish, ~PublishUninferred, ~EndPass
    PROVE  /\ UNCHANGED <<results, projectStale, checkerVars, editorVars, shown, stateVars>>
           /\ pc' = "infer" => pc = "infer" \/ BeginPass
<1>1. UNCHANGED <<checkerVars, editorVars, shown, stateVars>>
  BY ServerSteps
<1>2. SUFFICES /\ UNCHANGED <<results, projectStale>>
               /\ pc' = "infer" => pc = "infer" \/ BeginPass
  BY <1>1
<1>3. CASE \/ Aside(Srv!Receive) \/ Aside(Srv!LeaveAfterShutdown) \/ Aside(Srv!ClientGone)
           \/ BeginPass \/ Aside(Srv!StopForCheck) \/ Aside(Srv!StopForNobody)
           \/ \E r \in Srv!Request : Aside(Srv!FormatDone(r))
  BY <1>3 DEF Aside, Srv!Receive, Srv!LeaveAfterShutdown, Srv!ClientGone, BeginPass,
     Srv!BeginPass, Srv!StopForCheck, Srv!StopForNobody, Srv!FormatDone
<1>4. CASE ServeMessages
  BY <1>4 DEF ServeMessages, Aside, Srv!RefuseCancelled, Srv!ServeRequest, Srv!ServeShutdown,
     Srv!Ignore, Srv!Pop
<1>5. CASE Overhear
  BY <1>5 DEF Overhear, Aside, Srv!AnswerInferring, Srv!IgnoreInferring, Srv!StopForMessage,
     Srv!Overhear
<1>6. CASE InferFiles
  BY <1>6 DEF InferFiles, Aside, Srv!PickFile, Srv!ReadFile, Srv!EndWalk
<1>. QED
  BY <1>3, <1>4, <1>5, <1>6 DEF Server

\* A check comes back, and is published unless the buffer is another by now.
LEMMA PublishLine ==
    ASSUME NEW careful \in BOOLEAN, Typed, LineInv(careful), Publish,
           NEW u \in Uri, Checkable(u),
           ~About(jobs, u) => Good(u, careful) \subseteq Good(u, careful)'
    PROVE  Line(u, careful)' /\ (Resting(u) => ShowsLatest(u, careful))'
<1>. DEFINE checked == Head(results)
            found == [compiled EXCEPT ![checked.uri] = [version |-> checked.version,
                                                        problems |-> checked.report.problems]]
            marks == BufferMarks(checked.uri, found, bound')
<1>1. /\ results # <<>> /\ results' = Tail(results) /\ results \in Seq(Checked)
      /\ UNCHANGED <<jobs, pending, open, index>>
  BY DEF Publish, Srv!Publish, checkerVars, Typed, Loop!TypeOK, Loop!LoopTypeOK
<1>2. checked.uri \in Uri
  BY CheckedType DEF Typed, Publish
<1>3. /\ Line(u, careful) /\ (Resting(u) => ShowsLatest(u, careful))
      /\ InLine(jobs, pending, results, u, open[u], index[u], Good(u, careful))
  BY DEF LineInv, Line
<1>4. /\ InLine(jobs, pending, Tail(results), u, open[u], index[u], Good(u, careful))
      /\ Rests(jobs, pending, Tail(results), u) =>
            \/ Rests(jobs, pending, results, u)
            \/ /\ checked.uri = u /\ checked.version = open[u]
               /\ checked.report.problems \in Good(u, careful)
      /\ checked.uri # u =>
            (Rests(jobs, pending, Tail(results), u) <=> Rests(jobs, pending, results, u))
  BY <1>1, <1>3, LinePublishes
<1>5. Line(u, careful)'
  <2>1. InLine(jobs, pending, Tail(results), u, open[u], index[u], Good(u, careful)')
    BY <1>4, LineStays
  <2>. QED
    BY <1>1, <2>1 DEF Line
<1>6. /\ Current(checked) => compiled' = found /\ shown' = [shown EXCEPT ![checked.uri] = marks]
      /\ ~Current(checked) => UNCHANGED <<compiled, shown>>
  BY DEF Publish
<1>7. /\ found[checked.uri] = [version |-> checked.version, problems |-> checked.report.problems]
      /\ \A v \in Uri : v # checked.uri => found[v] = compiled[v]
  BY <1>2 DEF Typed, TypedMarks
<1>8. marks.by = "buffer" /\ marks.version = checked.version
      /\ marks.problems = checked.report.problems
  BY <1>7 DEF BufferMarks
<1>9. ASSUME Resting(u)' PROVE ShowsLatest(u, careful)'
  <2>1. Rests(jobs, pending, Tail(results), u) /\ ~About(jobs, u)
    BY <1>1, <1>9 DEF Resting, Rests
  <2>2. CASE checked.uri = u
    <3>1. ~Rests(jobs, pending, results, u)
      <4>1. 1 \in 1 .. Len(results) /\ results[1] = Head(results)
        BY <1>1
      <4>. QED
        BY <2>2, <4>1 DEF Rests, About
    <3>2. checked.version = open[u] /\ checked.report.problems \in Good(u, careful)
      BY <1>4, <2>1, <3>1
    <3>3. Current(checked)
      BY <2>2, <3>2 DEF Current, Checkable
    <3>4. /\ compiled'[u] = [version |-> open[u], problems |-> checked.report.problems]
          /\ shown'[u] = marks
      <4>. HIDE DEF found, marks
      <4>. QED
        BY <1>2, <1>6, <1>7, <2>2, <3>2, <3>3 DEF Typed, TypedMarks
    <3>5. shown'[u].by = "buffer" /\ shown'[u].version = open[u]
          /\ shown'[u].problems = checked.report.problems
      BY <1>8, <3>2, <3>4
    <3>6. checked.report.problems \in Good(u, careful)'
      BY <2>1, <3>2
    <3>. QED
      BY <1>1, <3>4, <3>5, <3>6 DEF ShowsLatest
  <2>3. CASE checked.uri # u
    <3>1. ShowsLatest(u, careful)
      BY <1>3, <1>4, <2>1, <2>3 DEF Resting
    <3>2. shown'[u] = shown[u] /\ compiled'[u] = compiled[u]
      <4>. HIDE DEF found, marks, checked
      <4>. QED
        BY <1>2, <1>6, <1>7, <2>3 DEF Typed, TypedMarks
    <3>. QED
      BY <1>1, <2>1, <3>1, <3>2 DEF ShowsLatest
  <2>. QED
    BY <2>2, <2>3
<1>. QED
  BY <1>5, <1>9

\* The end of a pass shows of an open buffer what it shows already, or what is kept.
LEMMA FindingsHere ==
    ASSUME Typed, PublishUninferred \/ EndPass, NEW u \in Uri, IsOpen(u)
    PROVE  /\ UNCHANGED <<jobs, pending, phase, results, open, index, bound, settings, compiled>>
           /\ shown'[u] = IF EndPass /\ walk = "finished" /\ u \in retype /\ Publishable(u, compiled)
                          THEN BufferMarks(u, compiled, bound) ELSE shown[u]
<1>1. CASE PublishUninferred
  BY <1>1 DEF PublishUninferred, Srv!PublishUninferred, PublishFindings, checkerVars, Gone,
     EndPass, Srv!EndPass
<1>2. CASE EndPass
  <2>1. UNCHANGED <<jobs, pending, phase, results, open, index, bound, settings, compiled>>
    BY <1>2 DEF EndPass, Srv!EndPass, PublishFindings, checkerVars, stateVars
  <2>2. CASE walk # "finished"
    BY <1>2, <2>1, <2>2 DEF EndPass
  <2>3. CASE walk = "finished"
    <3>1. PublishFindings(Found, {v \in retype : Publishable(v, compiled)})
      BY <1>2, <2>3 DEF EndPass
    <3>2. u \notin Found /\ u \notin Gone
      BY DEF Found, Gone
    <3>. QED
      BY <1>2, <2>1, <2>3, <3>1, <3>2 DEF PublishFindings
  <2>. QED
    BY <2>2, <2>3
<1>. QED
  BY <1>1, <1>2

\* A notification that is handled is the first message of the stream.
LEMMA SyncHears ==
    ASSUME Typed, Loop!NothingAhead, Sync
    PROVE  Hears
<1>1. Loop!Pop({"note"})
  BY SameLoop DEF Sync, Loop!Notify
<1>2. Stream # <<>> /\ Stream' = Tail(Stream) /\ Stream[1] = Head(queue)
  BY <1>1, LoopAssumption, Loop!PopStream DEF Typed, Stream
<1>. QED
  BY <1>2, TailShorter DEF Sync, editorVars, Hears

\* The user leaves what the server does alone.
LEMMA EditorQuiet ==
    ASSUME Editor
    PROVE  UNCHANGED <<results, pc, projectStale>>
<1>. USE DEF Srv!serverVars, Srv!loopVars, Srv!passVars
<1>1. \A note : Srv!SendNote(note) => UNCHANGED <<results, pc, projectStale>>
  BY DEF Srv!SendNote
<1>2. (\E u \in Uri, text \in Text : EditorOpens(u, text) \/ EditorEdits(u, text))
         => UNCHANGED <<results, pc, projectStale>>
  BY <1>1 DEF EditorOpens, EditorEdits
<1>3. (\E u \in Uri : EditorCloses(u)) => UNCHANGED <<results, pc, projectStale>>
  BY <1>1 DEF EditorCloses
<1>4. (\E u \in Uri, text \in Anything : DiskChanges(u, text))
         => UNCHANGED <<results, pc, projectStale>>
  BY <1>1 DEF DiskChanges, serveVars
<1>5. (\E types \in Settings : EditorConfigures(types)) => UNCHANGED <<results, pc, projectStale>>
  BY <1>1 DEF EditorConfigures
<1>6. /\ \A kind : Srv!SendRequest(kind) => UNCHANGED <<results, pc, projectStale>>
      /\ \A r : Srv!SendCancel(r) => UNCHANGED <<results, pc, projectStale>>
      /\ Srv!SendResponse \/ Srv!SendExit \/ Srv!Disconnect => UNCHANGED <<results, pc, projectStale>>
  BY DEF Srv!SendRequest, Srv!SendCancel, Srv!SendResponse, Srv!SendExit, Srv!Disconnect
<1>. QED
  BY <1>2, <1>3, <1>4, <1>5, <1>6 DEF Editor

\* No step breaks the line.
LEMMA StepLine ==
    ASSUME NEW careful \in BOOLEAN, careful => HeardFirst, LineInv(careful),
           Typed, Typed', Loop!NothingAhead, ClosesOpen, DiskTold, [Next]_vars
    PROVE  LineInv(careful)'
<1>0. Editor \/ Hears \/ Elsewhere
  BY StreamMoves
<1>1. watching' = watching
  BY <1>0, EditorMoves DEF Hears, Elsewhere, stateVars
<1>2. ASSUME ~Sync, jobs' = jobs, NEW u \in Uri, Checkable(u)
      PROVE  /\ open'[u] = open[u] /\ index'[u] = index[u]
             /\ ~About(jobs, u) => Good(u, careful) \subseteq Good(u, careful)'
  <2>1. open'[u] = open[u] /\ index'[u] = index[u]
    BY <1>0, <1>2, EditorMoves DEF Hears, Elsewhere, stateVars
  <2>. QED
    BY <1>0, <1>1, <1>2, <2>1, GoodStays DEF Checkable, IsOpen
<1>3. ASSUME ~Sync, UNCHANGED <<jobs, pending, phase>>,
             \A u \in Uri : Checkable(u) =>
                Line(u, careful)' /\ (Resting(u) => ShowsLatest(u, careful))'
      PROVE  LineInv(careful)'
  <2>1. \A u \in Uri : Checkable(u)' => Checkable(u)
    BY <1>0, <1>3, EditorMoves DEF Hears, Elsewhere, stateVars, Checkable, IsOpen
  <2>. QED
    BY <1>3, <2>1 DEF LineInv, OneEach
<1>4. ASSUME ~Sync, UNCHANGED <<jobs, pending, phase, results, shown, compiled>>
      PROVE  LineInv(careful)'
  BY <1>2, <1>3, <1>4, LineKept
<1>5. CASE CheckerThread
  BY <1>5, CheckerLine
<1>6. CASE Sync
  <2>1. Hears
    BY <1>6, SyncHears
  <2>2. UNCHANGED <<pending, phase>>
    BY <1>6 DEF Sync
  <2>3. \A u \in Uri : Checkable(u)' =>
           Line(u, careful)' /\ (Resting(u) => ShowsLatest(u, careful))'
    BY <2>1, SyncLine
  <2>. QED
    BY <2>2, <2>3 DEF LineInv, OneEach
<1>7. CASE Editor /\ ~Sync
  <2>1. UNCHANGED <<jobs, pending, phase, shown, compiled>>
    BY <1>7, EditorMoves DEF checkerVars, stateVars
  <2>2. results' = results
    BY <1>7, EditorQuiet
  <2>. QED
    BY <1>4, <1>7, <2>1, <2>2
<1>8. CASE Publish /\ ~Sync
  <2>1. UNCHANGED <<jobs, pending, phase>>
    BY <1>8 DEF Publish, checkerVars
  <2>. QED
    BY <1>2, <1>3, <1>8, <2>1, PublishLine
<1>9. CASE (PublishUninferred \/ EndPass) /\ ~Sync
  <2>1. UNCHANGED <<jobs, pending, phase, results, compiled>>
    BY <1>9 DEF PublishUninferred, Srv!PublishUninferred, EndPass, Srv!EndPass, PublishFindings,
       checkerVars, stateVars
  <2>2. ASSUME NEW u \in Uri, Checkable(u)
        PROVE  Line(u, careful)' /\ (Resting(u) => ShowsLatest(u, careful))'
    <3>1. \/ shown'[u] = shown[u]
          \/ /\ shown'[u].by = "buffer" /\ shown'[u].version = compiled[u].version
             /\ shown'[u].problems = compiled[u].problems /\ compiled[u].version = open[u]
      <4>. DEFINE again == EndPass /\ walk = "finished" /\ u \in retype /\ Publishable(u, compiled)
      <4>1. /\ again => shown'[u] = BufferMarks(u, compiled, bound)
            /\ ~again => shown'[u] = shown[u]
        BY <1>9, <2>2, FindingsHere DEF Checkable
      <4>2. CASE again
        BY <4>1, <4>2 DEF BufferMarks, Publishable
      <4>. QED
        BY <4>1, <4>2
    <3>. QED
      BY <1>2, <1>9, <2>1, <2>2, <3>1, LineKept
  <2>. QED
    BY <1>3, <1>9, <2>1, <2>2
<1>10. CASE Server /\ ~Sync /\ ~Publish /\ ~PublishUninferred /\ ~EndPass
  <2>1. UNCHANGED <<jobs, pending, phase, results, shown, compiled>>
    BY <1>10, OtherSteps DEF checkerVars, stateVars
  <2>. QED
    BY <1>4, <1>10, <2>1
<1>11. CASE UNCHANGED vars /\ ~Sync
  BY <1>4, <1>11 DEF vars, serveVars, checkerVars, stateVars
<1>. QED
  BY <1>5, <1>6, <1>7, <1>8, <1>9, <1>10, <1>11 DEF Next

LEMMA InitLine == ASSUME NEW careful \in BOOLEAN, Init PROVE LineInv(careful)
<1>1. pending = <<>> /\ \A u \in Uri : ~IsOpen(u)
  BY DEF Init, Chk!CheckerInit, IsOpen
<1>2. Len(pending) = 0 /\ 1 .. 0 = {}
  BY <1>1
<1>3. OneEach(pending)
  <2>1. \A z : z = 0 => 1 .. z = {}
    OBVIOUS
  <2>. QED
    BY <1>2, <2>1 DEF OneEach
<1>. QED
  BY <1>1, <1>3 DEF LineInv, Checkable

LEMMA LineAlways == Spec => []LineInv(FALSE)
<1>1. Init => LineInv(FALSE)
  BY InitLine
<1>2. Typed /\ Typed' /\ Loop!ServeInv /\ ClosesOpen /\ DiskTold /\ LineInv(FALSE) /\ [Next]_vars
         => LineInv(FALSE)'
  <2>1. Loop!ServeInv => Loop!NothingAhead
    BY DEF Loop!ServeInv
  <2>. QED
    BY <2>1, StepLine
<1>. QED
  BY <1>1, <1>2, TypedAlways, StreamAlways, ToldAlways, PTL DEF Spec

LEMMA CarefulIs == CarefulSpec => Spec
<1>1. [Next /\ HeardFirst /\ Unscanned]_vars => [Next]_vars
  OBVIOUS
<1>. QED
  BY <1>1, PTL DEF CarefulSpec, Spec

LEMMA CarefulLineAlways == CarefulSpec => []LineInv(TRUE)
<1>1. Init => LineInv(TRUE)
  BY InitLine
<1>2. Typed /\ Typed' /\ Loop!ServeInv /\ ClosesOpen /\ DiskTold /\ LineInv(TRUE)
      /\ [Next /\ HeardFirst /\ Unscanned]_vars => LineInv(TRUE)'
  <2>1. Loop!ServeInv => Loop!NothingAhead
    BY DEF Loop!ServeInv
  <2>2. UNCHANGED vars => HeardFirst
    BY DEF vars, editorVars, HeardFirst
  <2>. QED
    BY <2>1, <2>2, StepLine
<1>. QED
  BY <1>1, <1>2, CarefulIs, TypedAlways, StreamAlways, ToldAlways, PTL DEF CarefulSpec

\* Once all is settled every buffer rests, and nothing is due.
LEMMA SettledRests ==
    ASSUME Typed, Settled, NEW u \in Uri
    PROVE  Resting(u) /\ \A f, known, text : ~Due(Stream, f, known, text)
<1>1. Len(jobs) = 0 /\ Len(pending) = 0 /\ Len(results) = 0
  BY DEF Settled
<1>2. Len(Stream) = 0
  <2>1. Stream = <<>> \o <<>>
    BY DEF Settled, Stream, Loop!Stream
  <2>. QED
    BY <2>1
<1>3. \A z : z = 0 => 1 .. z = {}
  OBVIOUS
<1>4. Resting(u)
  BY <1>1, <1>3 DEF Resting, Rests, About
<1>5. \A f : ~Tells(Stream, f)
  BY <1>2, <1>3 DEF Tells
<1>. QED
  BY <1>4, <1>5 DEF Due

LEMMA LineSettled ==
    ASSUME Typed, LineInv(TRUE)
    PROVE  SettledChecks
<1>. SUFFICES ASSUME Settled, NEW u \in Uri \ CoreSource, IsOpen(u)
              PROVE  /\ shown[u].by = "buffer" /\ shown[u].version = open[u]
                     /\ \/ shown[u].problems = Failed
                        \/ /\ shown[u].problems.text = index[u]
                           /\ watching => shown[u].problems.against = [f \in Reads[u] |-> disk[f]]
  BY DEF SettledChecks
<1>1. ShowsLatest(u, TRUE)
  BY SettledRests DEF LineInv, Checkable
<1>. DEFINE against == shown[u].problems.against
<1>2. CASE shown[u].problems # Failed
  <2>1. /\ shown[u].problems \in Problems /\ shown[u].problems.text = index[u]
        /\ DOMAIN against = Reads[u]
        /\ watching => \A f \in Reads[u] : against[f] = disk[f]
    BY <1>1, <1>2, SettledRests DEF ShowsLatest, Good
  <2>2. PICK S \in SUBSET Uri : against \in [S -> Anything]
    BY <2>1 DEF Problems
  <2>3. against \in [Reads[u] -> Anything]
    BY <2>1, <2>2
  <2>4. watching => against = [f \in Reads[u] |-> disk[f]]
    <3>. HIDE DEF against
    <3>. QED
      BY <2>1, <2>3
  <2>. QED
    BY <1>1, <2>1, <2>4 DEF ShowsLatest
<1>. QED
  BY <1>1, <1>2 DEF ShowsLatest

-----------------------------------------------------------------------------
(* Type findings are read from the texts of now, or found again.            *)

FreshFacts(u, marks) ==
    marks.facts # NoFacts =>
        /\ marks.facts.mode = settings
        /\ TypedTexts(marks) = [f \in {u} \cup Reads[u] |-> index[f]]

\* What an open buffer shows that rests: findings of now, or it is to be published again.
TypesFresh(u) ==
    /\ IF settings = "off" THEN shown[u].facts = NoFacts ELSE shown[u].facts.mode = settings
    /\ FreshFacts(u, shown[u]) \/ (u \in retype /\ projectStale)

TypesInv == \A u \in Uri : Checkable(u) /\ Resting(u) => TypesFresh(u)

LEMMA FactsRead ==
    ASSUME NEW u, NEW names, NEW marks, marks.facts = Facts(index, names, settings, u)
    PROVE  marks.facts.mode = settings /\ FreshFacts(u, marks)
<1>. DEFINE reads == [f \in {u} \cup Reads[u] |-> [text |-> index[f], names |-> names[f]]]
<1>1. marks.facts.mode = settings /\ marks.facts.reads = reads
  BY DEF Facts
<1>2. DOMAIN reads = {u} \cup Reads[u] /\ \A f \in {u} \cup Reads[u] : reads[f].text = index[f]
  OBVIOUS
<1>. HIDE DEF reads
<1>3. TypedTexts(marks) = [f \in {u} \cup Reads[u] |-> index[f]]
  BY <1>1, <1>2 DEF TypedTexts
<1>. QED
  BY <1>1, <1>3 DEF FreshFacts

LEMMA FreshKept ==
    ASSUME NEW u, shown'[u] = shown[u], settings' = settings, FreshFacts(u, shown[u]),
           \A f \in {u} \cup Reads[u] : index'[f] = index[f]
    PROVE  FreshFacts(u, shown[u])'
<1>1. [f \in {u} \cup Reads[u] |-> index'[f]] = [f \in {u} \cup Reads[u] |-> index[f]]
  OBVIOUS
<1>. QED
  BY <1>1 DEF FreshFacts, TypedTexts

\* Nothing that its findings were read from changes.
LEMMA TypesKept ==
    ASSUME TypesInv, NEW u \in Uri, Checkable(u), Resting(u),
           shown'[u] = shown[u], settings' = settings,
           u \in retype => u \in retype', projectStale => projectStale',
           \/ \A f \in {u} \cup Reads[u] : index'[f] = index[f]
           \/ u \in retype' /\ projectStale'
    PROVE  TypesFresh(u)'
<1>1. TypesFresh(u)
  BY DEF TypesInv
<1>2. (IF settings = "off" THEN shown[u].facts = NoFacts ELSE shown[u].facts.mode = settings)'
  BY <1>1 DEF TypesFresh
<1>3. (FreshFacts(u, shown[u]) \/ (u \in retype /\ projectStale))'
  BY <1>1, FreshKept DEF TypesFresh
<1>. QED
  BY <1>2, <1>3 DEF TypesFresh

\* It is published.
LEMMA TypesRead ==
    ASSUME NEW u, NEW found, NEW names, shown'[u] = BufferMarks(u, found, names),
           settings' = settings, index' = index
    PROVE  TypesFresh(u)'
<1>1. CASE settings = "off"
  BY <1>1 DEF BufferMarks, TypesFresh, FreshFacts
<1>2. CASE settings # "off"
  <2>1. shown'[u].facts = Facts(index, names, settings, u)
    BY <1>2 DEF BufferMarks
  <2>2. \A marks : marks.facts = Facts(index, names, settings, u) =>
           marks.facts.mode = settings /\ FreshFacts(u, marks)
    BY FactsRead
  <2>3. shown'[u].facts.mode = settings /\ FreshFacts(u, shown'[u])
    BY <2>1, <2>2
  <2>4. FreshFacts(u, shown[u])'
    BY <2>3 DEF FreshFacts, TypedTexts
  <2>. QED
    BY <1>2, <2>3, <2>4 DEF TypesFresh
<1>. QED
  BY <1>1, <1>2

\* What is checked does not rest, and nothing else that did not comes to rest.
LEMMA ChecksMore ==
    ASSUME Typed, Typed', NEW uris \in SUBSET Uri, Check(uris), \A v \in uris : open'[v] # 0,
           NEW u \in Uri, ~About(jobs', u)
    PROVE  ~About(jobs, u) /\ u \notin uris \ CoreSource
<1>1. /\ open' \in [Uri -> Version \cup {0}] /\ index' \in [Uri -> Anything]
      /\ \A v \in uris : open'[v] # 0 /\ index'[v] \in Text
      /\ jobs \in Seq(Job)
  BY DEF Typed, TypedState, TypedChecker, OpenTexts, IsOpen
<1>2. u \notin uris \ CoreSource
  BY <1>1, CheckAll
<1>3. PICK batch \in Seq(Job) : jobs' = jobs \o batch
  BY <1>1, CheckEach
<1>4. ASSUME NEW i \in 1 .. Len(jobs), jobs[i].uri = u PROVE FALSE
  <2>1. i \in 1 .. Len(jobs \o batch) /\ (jobs \o batch)[i] = jobs[i]
    BY <1>1
  <2>. QED
    BY <1>3, <1>4, <2>1 DEF About
<1>. QED
  BY <1>2, <1>4 DEF About

LEMMA SyncRests ==
    ASSUME Typed, Typed', Sync, NEW u \in Uri, Resting(u)'
    PROVE  LET n == Head(queue).note
           IN /\ Resting(u)
              /\ SyncText(n) => u # n.uri \/ u \in CoreSource
              /\ SyncDisk(n) /\ index' # index => u \notin OpenImporters({n.uri}) \ CoreSource
              /\ SyncSettings(n) /\ settings' # settings => ~Checkable(u)
<1>. DEFINE n == Head(queue).note
<1>1. /\ UNCHANGED pending /\ results' = results
      /\ SyncText(n) \/ SyncClose(n) \/ SyncDisk(n) \/ SyncSettings(n)
  BY DEF Sync, Srv!Notify, Srv!Pop
<1>2. ~About(jobs', u) /\ (~About(jobs, u) => Resting(u))
  BY <1>1 DEF Resting, Rests
<1>3. n \in Notification /\ n.what = "configure" => n.settings \in Settings
  BY NoteType DEF Typed, Sync
<1>. HIDE DEF n
<1>. SUFFICES /\ ~About(jobs, u)
              /\ SyncText(n) => u # n.uri \/ u \in CoreSource
              /\ SyncDisk(n) /\ index' # index => u \notin OpenImporters({n.uri}) \ CoreSource
              /\ SyncSettings(n) /\ settings' # settings => ~Checkable(u)
  BY <1>2 DEF n
<1>4. CASE SyncText(n)
  <2>1. n.uri \in Uri /\ n.version # 0 /\ Check({n.uri}) /\ open' = [open EXCEPT ![n.uri] = n.version]
    BY <1>3, <1>4, NoteType DEF SyncText, Typed, Sync, Version, n
  <2>2. open'[n.uri] # 0
    BY <2>1 DEF Typed, TypedState
  <2>3. ~About(jobs, u) /\ u \notin {n.uri} \ CoreSource
    BY <1>2, <2>1, <2>2, ChecksMore
  <2>. QED
    BY <1>4, <2>3 DEF SyncText, SyncDisk, SyncSettings
<1>5. CASE SyncClose(n)
  BY <1>2, <1>5 DEF SyncClose, SyncText, SyncDisk, SyncSettings
<1>6. CASE SyncDisk(n)
  <2>. DEFINE known == IF n.what = "created" THEN disk[n.uri] # NoText ELSE index[n.uri] # NoText
              uris == IF known THEN OpenImporters({n.uri}) ELSE {}
  <2>1. /\ uris \in SUBSET Uri /\ Check(uris) /\ \A v \in uris : open'[v] # 0
        /\ index' # index => uris = OpenImporters({n.uri})
    BY <1>6 DEF SyncDisk, OpenImporters, IsOpen
  <2>. HIDE DEF uris
  <2>2. ~About(jobs, u) /\ u \notin uris \ CoreSource
    BY <1>2, <2>1, ChecksMore
  <2>. QED
    BY <1>6, <2>1, <2>2 DEF SyncText, SyncDisk, SyncSettings
<1>7. CASE SyncSettings(n)
  <2>. DEFINE uris == IF n.settings # settings THEN {v \in Uri : IsOpen(v)} ELSE {}
  <2>1. /\ uris \in SUBSET Uri /\ Check(uris) /\ \A v \in uris : open'[v] # 0
        /\ settings' # settings => uris = {v \in Uri : IsOpen(v)}
    BY <1>7 DEF SyncSettings, IsOpen
  <2>. HIDE DEF uris
  <2>2. ~About(jobs, u) /\ u \notin uris \ CoreSource
    BY <1>2, <2>1, ChecksMore
  <2>. QED
    BY <1>7, <2>1, <2>2 DEF SyncText, SyncDisk, SyncSettings, Checkable
<1>. QED
  BY <1>1, <1>4, <1>5, <1>6, <1>7

\* A notification about what findings were read from has them read again.
LEMMA SyncTypes ==
    ASSUME Typed, Typed', ClosesOpen, Hears, Unscanned, TypesInv,
           NEW u \in Uri, Checkable(u)', Resting(u)'
    PROVE  TypesFresh(u)'
<1>. DEFINE n == Head(queue).note
<1>1. /\ Sync /\ u \notin CoreSource /\ open'[u] # 0 /\ UNCHANGED watching
      /\ SyncText(n) \/ SyncClose(n) \/ SyncDisk(n) \/ SyncSettings(n)
      /\ Head(queue).kind = "note"
  BY DEF Hears, Sync, Checkable, IsOpen
<1>2. /\ Resting(u)
      /\ SyncText(n) => u # n.uri
      /\ SyncDisk(n) /\ index' # index => u \notin OpenImporters({n.uri})
      /\ SyncSettings(n) /\ settings' # settings => ~Checkable(u)
  BY <1>1, SyncRests
<1>3. n \in Notification
  BY <1>1, NoteType DEF Typed, Sync
<1>4. SyncClose(n) => u # n.uri
  BY <1>1, <1>3 DEF SyncClose, Typed, TypedState
<1>5. Checkable(u)
  <2>1. CASE u # n.uri
    BY <1>1, <2>1, SyncElse DEF Checkable, IsOpen
  <2>2. CASE u = n.uri
    BY <1>1, <1>2, <1>4, <2>2 DEF SyncDisk, SyncSettings, Checkable, IsOpen
  <2>. QED
    BY <2>1, <2>2
<1>6. u \in Uri \ {n.uri} /\ Reads[u] \cap {n.uri} # {} => u \in OpenImporters({n.uri})
  BY <1>5 DEF OpenImporters, Checkable
<1>7. Reads[u] \subseteq Uri /\ u \notin Reads[u]
  BY LanguageServerAssumption DEF LanguageServerAssumption
<1>8. SUFFICES /\ shown'[u] = shown[u] /\ settings' = settings
               /\ u \in retype => u \in retype'
               /\ projectStale => projectStale'
               /\ \/ \A f \in {u} \cup Reads[u] : index'[f] = index[f]
                  \/ u \in retype' /\ projectStale'
  BY <1>2, <1>5, TypesKept
<1>9. CASE SyncText(n)
  <2>1. /\ UNCHANGED <<settings, shown>> /\ index' = [index EXCEPT ![n.uri] = n.text]
        /\ retype' = retype \cup OpenImporters({n.uri})
        /\ projectStale' = (projectStale \/ OpenImporters({n.uri}) # {})
    BY <1>9 DEF SyncText
  <2>2. CASE n.uri \in Reads[u]
    BY <1>2, <1>6, <1>9, <2>1, <2>2
  <2>3. CASE n.uri \notin Reads[u]
    <3>1. \A f \in {u} \cup Reads[u] : f # n.uri /\ f \in Uri
      BY <1>2, <1>7, <1>9, <2>3
    <3>2. \A f \in {u} \cup Reads[u] : index'[f] = index[f]
      BY <2>1, <3>1 DEF Typed, TypedState
    <3>. QED
      BY <2>1, <3>2
  <2>. QED
    BY <2>2, <2>3
<1>10. CASE SyncClose(n)
  <2>1. /\ UNCHANGED settings /\ shown' = [shown EXCEPT ![n.uri] = Clear]
        /\ retype' = (retype \ {n.uri}) \cup OpenImporters({n.uri}) /\ projectStale' = TRUE
    BY <1>10 DEF SyncClose
  <2>2. shown'[u] = shown[u]
    BY <1>4, <1>10, <2>1 DEF Typed, TypedMarks
  <2>3. CASE n.uri \in Reads[u]
    BY <1>4, <1>6, <1>10, <2>1, <2>2, <2>3
  <2>4. CASE n.uri \notin Reads[u]
    <3>1. \A f \in {u} \cup Reads[u] : f # n.uri /\ f \in Uri
      BY <1>4, <1>7, <1>10, <2>4
    <3>2. \A f \in {u} \cup Reads[u] : index'[f] = index[f]
      BY <1>1, <3>1, SyncElse
    <3>. QED
      BY <1>4, <1>10, <2>1, <2>2, <3>2
  <2>. QED
    BY <2>3, <2>4
<1>11. CASE SyncDisk(n)
  <2>1. /\ UNCHANGED <<settings, shown, retype>> /\ projectStale' = TRUE
        /\ index' = index \/ (~IsOpen(n.uri) /\ index' # index
              /\ \A f \in Uri \ {n.uri} : index'[f] = index[f])
    <3>1. /\ UNCHANGED <<settings, shown, retype>> /\ projectStale' = TRUE
          /\ \/ index' = index
             \/ /\ ~IsOpen(n.uri)
                /\ \E read : index' = [index EXCEPT ![n.uri] = read]
      BY <1>11 DEF SyncDisk
    <3>. QED
      BY <3>1 DEF Typed, TypedState
  <2>2. CASE index' # index
    <3>1. u # n.uri /\ n.uri \notin Reads[u]
      BY <1>2, <1>5, <1>6, <1>11, <2>1, <2>2 DEF Checkable
    <3>2. \A f \in {u} \cup Reads[u] : index'[f] = index[f]
      BY <1>7, <2>1, <2>2, <3>1
    <3>. QED
      BY <2>1, <3>2
  <2>. QED
    BY <2>1, <2>2
<1>12. CASE SyncSettings(n)
  BY <1>2, <1>5, <1>12 DEF SyncSettings
<1>. QED
  BY <1>1, <1>9, <1>10, <1>11, <1>12

\* What publishing the result of a check does to a buffer that rests then.
LEMMA PublishHere ==
    ASSUME NEW careful \in BOOLEAN, Typed, LineInv(careful), Publish,
           NEW u \in Uri, Checkable(u), Resting(u)'
    PROVE  /\ UNCHANGED <<index, settings, open>> /\ (projectStale => projectStale')
           /\ \/ Resting(u) /\ shown'[u] = shown[u] /\ (u \in retype => u \in retype')
              \/ /\ projectStale'
                 /\ \E found, names : shown'[u] = BufferMarks(u, found, names)
<1>. DEFINE checked == Head(results)
            found == [compiled EXCEPT ![checked.uri] = [version |-> checked.version,
                                                        problems |-> checked.report.problems]]
<1>1. /\ results # <<>> /\ results' = Tail(results) /\ results \in Seq(Checked)
      /\ UNCHANGED <<jobs, pending, open, index, settings>>
  BY DEF Publish, Srv!Publish, checkerVars, Typed, Loop!TypeOK, Loop!LoopTypeOK
<1>2. checked.uri \in Uri
  BY CheckedType DEF Typed, Publish
<1>3. InLine(jobs, pending, results, u, open[u], index[u], Good(u, careful))
  BY DEF LineInv, Line
<1>4. /\ Rests(jobs, pending, Tail(results), u) =>
            \/ Rests(jobs, pending, results, u)
            \/ /\ checked.uri = u /\ checked.version = open[u]
               /\ checked.report.problems \in Good(u, careful)
      /\ checked.uri # u =>
            (Rests(jobs, pending, Tail(results), u) <=> Rests(jobs, pending, results, u))
  BY <1>1, <1>3, LinePublishes
<1>5. Rests(jobs, pending, Tail(results), u)
  BY <1>1 DEF Resting
<1>6. /\ Current(checked) =>
            /\ shown' = [shown EXCEPT ![checked.uri] = BufferMarks(checked.uri, found, bound')]
            /\ projectStale' = TRUE /\ retype' = retype \ {checked.uri}
      /\ ~Current(checked) => UNCHANGED <<shown, retype, projectStale>>
  BY DEF Publish
<1>. HIDE DEF found, checked
<1>7. CASE checked.uri = u /\ Current(checked)
  <2>1. shown'[u] = BufferMarks(u, found, bound')
    BY <1>2, <1>6, <1>7 DEF Typed, TypedMarks
  <2>. QED
    BY <1>1, <1>6, <1>7, <2>1
<1>8. CASE checked.uri # u
  <2>1. shown'[u] = shown[u]
    BY <1>2, <1>6, <1>8 DEF Typed, TypedMarks
  <2>2. u \in retype => u \in retype'
    BY <1>6, <1>8
  <2>3. Resting(u)
    BY <1>4, <1>5, <1>8 DEF Resting
  <2>. QED
    BY <1>1, <1>6, <2>1, <2>2, <2>3
<1>9. CASE checked.uri = u /\ ~Current(checked)
  <2>1. Resting(u)
    BY <1>4, <1>5, <1>9 DEF Resting, Current, Checkable
  <2>. QED
    BY <1>1, <1>6, <1>9, <2>1
<1>. QED
  BY <1>7, <1>8, <1>9

\* No step leaves an open buffer with old findings.
LEMMA StepTypes ==
    ASSUME Typed, Typed', Loop!NothingAhead, ClosesOpen, LineInv(FALSE), TypesInv,
           [Next]_vars, Unscanned
    PROVE  TypesInv'
<1>. SUFFICES ASSUME NEW u \in Uri, Checkable(u)', Resting(u)' PROVE TypesFresh(u)'
  BY DEF TypesInv
<1>1. ASSUME UNCHANGED <<results, projectStale, checkerVars, shown, stateVars>>
      PROVE  TypesFresh(u)'
  <2>1. Checkable(u) /\ Resting(u)
    BY <1>1 DEF Checkable, IsOpen, Resting, stateVars, checkerVars
  <2>. QED
    BY <1>1, <2>1, TypesKept DEF stateVars
<1>2. CASE Editor
  BY <1>1, <1>2, EditorMoves, EditorQuiet
<1>3. CASE CheckerThread
  <2>1. UNCHANGED <<projectStale, shown, stateVars>>
    BY <1>3, CheckerFrame
  <2>2. Checkable(u) /\ Resting(u)
    BY <1>3, <2>1, CheckerLine DEF Checkable, IsOpen, stateVars
  <2>. QED
    BY <2>1, <2>2, TypesKept DEF stateVars
<1>4. CASE Sync
  BY <1>4, SyncHears, SyncTypes
<1>5. CASE Publish
  <2>1. UNCHANGED <<index, settings, open>> /\ Checkable(u)
    BY <1>5 DEF Publish, Checkable, IsOpen
  <2>2. CASE Resting(u) /\ shown'[u] = shown[u] /\ (u \in retype => u \in retype')
    <3>1. projectStale => projectStale'
      BY <1>5, <2>1, PublishHere
    <3>. QED
      BY <2>1, <2>2, <3>1, TypesKept
  <2>3. CASE \E found, names : shown'[u] = BufferMarks(u, found, names)
    BY <2>1, <2>3, TypesRead
  <2>. QED
    BY <1>5, <2>1, <2>2, <2>3, PublishHere
<1>6. CASE PublishUninferred \/ EndPass
  <2>1. UNCHANGED <<jobs, pending, results, open, index, settings>>
    BY <1>6 DEF PublishUninferred, Srv!PublishUninferred, EndPass, Srv!EndPass, PublishFindings,
       checkerVars, stateVars
  <2>2. Checkable(u) /\ Resting(u)
    BY <2>1 DEF Checkable, IsOpen, Resting
  <2>3. TypesFresh(u) /\ ShowsLatest(u, FALSE)
    BY <2>2 DEF TypesInv, LineInv
  <2>. DEFINE again == EndPass /\ walk = "finished" /\ u \in retype /\ Publishable(u, compiled)
  <2>4. /\ again => shown'[u] = BufferMarks(u, compiled, bound)
        /\ ~again => shown'[u] = shown[u]
    BY <1>6, <2>2, FindingsHere DEF Checkable
  <2>5. CASE again
    BY <2>1, <2>4, <2>5, TypesRead
  <2>6. CASE ~again /\ EndPass /\ walk = "finished"
    <3>1. u \notin retype
      BY <2>2, <2>3, <2>6 DEF ShowsLatest, Publishable, Checkable
    <3>2. FreshFacts(u, shown[u])
      BY <2>3, <3>1 DEF TypesFresh
    <3>3. FreshFacts(u, shown[u])'
      BY <2>1, <2>4, <2>6, <3>2, FreshKept
    <3>. QED
      BY <2>1, <2>3, <2>4, <2>6, <3>3 DEF TypesFresh
  <2>7. CASE EndPass /\ walk # "finished"
    <3>1. retype' = retype /\ projectStale'
      BY <2>7 DEF EndPass, Srv!EndPass, stateVars
    <3>. QED
      BY <2>1, <2>2, <2>4, <2>7, <3>1, TypesKept
  <2>8. CASE PublishUninferred /\ ~again
    <3>1. settings = "off"
      BY <2>8 DEF PublishUninferred
    <3>2. shown'[u].facts = NoFacts
      BY <2>3, <2>4, <2>8, <3>1 DEF TypesFresh
    <3>. QED
      BY <2>1, <3>1, <3>2 DEF TypesFresh, FreshFacts
  <2>. QED
    BY <1>6, <2>5, <2>6, <2>7, <2>8
<1>7. CASE Server /\ ~Sync /\ ~Publish /\ ~PublishUninferred /\ ~EndPass
  BY <1>1, <1>7, OtherSteps
<1>8. CASE UNCHANGED vars
  BY <1>1, <1>8 DEF vars, serveVars
<1>. QED
  BY <1>2, <1>3, <1>4, <1>5, <1>6, <1>7, <1>8 DEF Next

-----------------------------------------------------------------------------
(* What is shown of closed files is the findings of now, or they are owed.  *)

\* The project's findings are owed, or will be once a check is published.
Underway == projectStale \/ \E u \in Uri : Checkable(u) /\ ~Resting(u)

ClosedFresh(u) ==
    /\ shown[u].by = "project" <=> settings # "off" /\ u \in Found
    /\ FreshFacts(u, shown[u])

\* A closed file with marks is known to have them, and no other has findings.
Marked(u) == IF shown[u].by = "project" THEN u \in published ELSE shown[u].facts = NoFacts

ClosedInv ==
    /\ pc = "infer" => projectStale /\ settings # "off"
    /\ \A u \in Uri : ~IsOpen(u) => Marked(u) /\ (Underway \/ ClosedFresh(u))

\* Nothing that concerns a closed file changes.
LEMMA ClosedKept ==
    ASSUME ClosedInv, NEW u \in Uri, ~IsOpen(u), open'[u] = 0,
           UNCHANGED <<settings, published>>, shown'[u] = shown[u], ~Underway,
           \A f \in {u} \cup Reads[u] : index'[f] = index[f]
    PROVE  ClosedFresh(u)'
<1>1. ClosedFresh(u)
  BY DEF ClosedInv
<1>2. FreshFacts(u, shown[u])'
  BY <1>1, FreshKept DEF ClosedFresh
<1>3. u \in Found' <=> u \in Found
  BY DEF Found, IsOpen
<1>. QED
  BY <1>1, <1>2, <1>3 DEF ClosedFresh

LEMMA MarkedKept ==
    ASSUME ClosedInv, NEW u \in Uri, ~IsOpen(u), UNCHANGED published, shown'[u] = shown[u]
    PROVE  Marked(u)'
BY DEF ClosedInv, Marked

\* What is owed stays owed until it is published.
LEMMA UnderwayStays ==
    ASSUME Typed, Typed', LineInv(FALSE), [Next]_vars, Underway,
           PublishUninferred \/ EndPass => FALSE
    PROVE  Underway'
<1>1. ASSUME UNCHANGED <<results, projectStale, checkerVars, stateVars>> PROVE Underway'
  BY <1>1 DEF Underway, Checkable, IsOpen, Resting, stateVars, checkerVars
<1>2. CASE Editor
  BY <1>1, <1>2, EditorMoves, EditorQuiet
<1>3. CASE CheckerThread
  <2>1. UNCHANGED <<projectStale, stateVars>>
    BY <1>3, CheckerFrame
  <2>2. \A u \in Uri : Checkable(u)' <=> Checkable(u)
    BY <2>1 DEF Checkable, IsOpen, stateVars
  <2>3. \A u \in Uri : Checkable(u) /\ Resting(u)' => Resting(u)
    BY <1>3, CheckerLine
  <2>. QED
    BY <2>1, <2>2, <2>3 DEF Underway
<1>4. CASE Sync
  <2>. DEFINE n == Head(queue).note
  <2>1. SyncText(n) \/ SyncClose(n) \/ SyncDisk(n) \/ SyncSettings(n)
    BY <1>4 DEF Sync
  <2>2. projectStale => projectStale'
    BY <2>1 DEF SyncText, SyncClose, SyncDisk, SyncSettings
  <2>3. SyncClose(n) => projectStale'
    BY DEF SyncClose
  <2>4. n \in Notification
    BY <1>4, NoteType DEF Typed, Sync
  <2>5. ASSUME NEW u \in Uri, Checkable(u), ~SyncClose(n) PROVE Checkable(u)'
    <3>1. CASE SyncText(n)
      <4>1. n.uri \in Uri /\ n.version # 0 /\ open' = [open EXCEPT ![n.uri] = n.version]
        BY <1>4, <2>4, <3>1, NoteType DEF SyncText, Typed, Sync, Version
      <4>. QED
        BY <2>5, <4>1 DEF Checkable, IsOpen, Typed, TypedState
    <3>2. CASE SyncDisk(n) \/ SyncSettings(n)
      BY <2>5, <3>2 DEF SyncDisk, SyncSettings, Checkable, IsOpen
    <3>. QED
      BY <2>1, <2>5, <3>1, <3>2
  <2>6. \A u \in Uri : Resting(u)' => Resting(u)
    BY <1>4, SyncRests
  <2>. QED
    BY <2>2, <2>3, <2>5, <2>6 DEF Underway
<1>5. CASE Publish
  <2>1. \A u \in Uri : Checkable(u)' <=> Checkable(u)
    BY <1>5 DEF Publish, Checkable, IsOpen
  <2>2. projectStale => projectStale'
    BY <1>5 DEF Publish
  <2>3. \A u \in Uri : Checkable(u) /\ Resting(u)' => Resting(u) \/ projectStale'
    BY <1>5, PublishHere
  <2>. QED
    BY <2>1, <2>2, <2>3 DEF Underway
<1>6. CASE Server /\ ~Sync /\ ~Publish /\ ~PublishUninferred /\ ~EndPass
  BY <1>1, <1>6, OtherSteps
<1>7. CASE UNCHANGED vars
  BY <1>1, <1>7 DEF vars, serveVars
<1>. QED
  BY <1>2, <1>3, <1>4, <1>5, <1>6, <1>7 DEF Next

\* A notification.
LEMMA SyncClosed ==
    ASSUME Typed, Typed', LineInv(FALSE), CoreApart, ClosedInv, Hears, [Next]_vars,
           ~PublishUninferred, ~EndPass, NEW u \in Uri, open'[u] = 0
    PROVE  Marked(u)' /\ (Underway \/ ClosedFresh(u))'
<1>. DEFINE n == Head(queue).note
<1>1. /\ Sync
      /\ SyncText(n) \/ SyncClose(n) \/ SyncDisk(n) \/ SyncSettings(n)
  BY DEF Hears, Sync
<1>2. n \in Notification /\ (n.what \in {"open", "change"} => n.uri \in Uri /\ n.version # 0)
      /\ (n.what = "close" => n.uri \in Uri)
  BY <1>1, NoteType DEF Typed, Sync, Version
<1>. HIDE DEF n
<1>3. CASE SyncClose(n)
  <2>1. /\ open' = [open EXCEPT ![n.uri] = 0] /\ shown' = [shown EXCEPT ![n.uri] = Clear]
        /\ published' = published /\ projectStale' = TRUE /\ n.uri \in Uri
    BY <1>2, <1>3 DEF SyncClose
  <2>2. CASE u = n.uri
    <3>1. shown'[u] = Clear
      BY <2>1, <2>2 DEF Typed, TypedMarks
    <3>. QED
      BY <2>1, <3>1 DEF Marked, Clear, Underway
  <2>3. CASE u # n.uri
    <3>1. shown'[u] = shown[u] /\ open'[u] = open[u]
      BY <2>1, <2>3 DEF Typed, TypedMarks, TypedState
    <3>. QED
      BY <2>1, <3>1, MarkedKept DEF Underway, IsOpen
  <2>. QED
    BY <2>2, <2>3
<1>4. CASE SyncDisk(n)
  BY <1>4, MarkedKept DEF SyncDisk, Underway, IsOpen
<1>5. CASE SyncSettings(n)
  <2>1. UNCHANGED <<open, index, shown, published>> /\ (settings' # settings => projectStale')
    BY <1>5 DEF SyncSettings
  <2>2. Marked(u)'
    BY <2>1, MarkedKept DEF IsOpen
  <2>3. CASE settings' = settings /\ ~Underway
    BY <2>1, <2>2, <2>3, ClosedKept DEF IsOpen
  <2>. QED
    BY <2>1, <2>2, <2>3, UnderwayStays DEF Underway
<1>6. CASE SyncText(n)
  <2>1. /\ open' = [open EXCEPT ![n.uri] = n.version] /\ n.uri \in Uri /\ n.version # 0
        /\ UNCHANGED <<settings, shown, published>>
        /\ index' = [index EXCEPT ![n.uri] = n.text]
    BY <1>2, <1>6 DEF SyncText
  <2>2. u # n.uri /\ ~IsOpen(u) /\ open'[n.uri] # 0
    BY <2>1 DEF Typed, TypedState, IsOpen
  <2>3. Marked(u)'
    BY <2>1, <2>2, MarkedKept
  <2>4. CASE Underway
    BY <2>3, <2>4, UnderwayStays
  <2>5. CASE ~Underway /\ n.uri \in CoreSource
    <3>1. Reads[u] \subseteq Uri /\ n.uri \notin Reads[u]
      BY <2>5, LanguageServerAssumption DEF LanguageServerAssumption, CoreApart
    <3>2. \A f \in {u} \cup Reads[u] : index'[f] = index[f]
      BY <2>1, <2>2, <3>1 DEF Typed, TypedState
    <3>. QED
      BY <2>1, <2>2, <2>3, <2>5, <3>2, ClosedKept
  <2>6. CASE n.uri \notin CoreSource
    <3>. PICK v \in Uri : v = n.uri
      BY <2>1
    <3>1. Checkable(v)'
      BY <2>2, <2>6 DEF Checkable, IsOpen
    <3>2. ~Resting(v)'
      BY <1>1, <1>6, <2>6, SyncRests DEF n
    <3>. QED
      BY <2>3, <3>1, <3>2 DEF Underway
  <2>. QED
    BY <2>4, <2>5, <2>6
<1>. QED
  BY <1>1, <1>3, <1>4, <1>5, <1>6

\* A pass comes to its end.
LEMMA FindingsClosed ==
    ASSUME Typed, Typed', ClosedInv, PublishUninferred \/ EndPass,
           NEW u \in Uri, open'[u] = 0
    PROVE  Marked(u)' /\ (Underway \/ ClosedFresh(u))'
<1>1. UNCHANGED <<open, index, settings, bound>> /\ ~IsOpen(u)
  BY DEF PublishUninferred, Srv!PublishUninferred, EndPass, Srv!EndPass, PublishFindings,
     stateVars, IsOpen
<1>2. CASE EndPass /\ walk # "finished"
  <2>1. UNCHANGED <<shown, published>> /\ projectStale'
    BY <1>2 DEF EndPass, Srv!EndPass, stateVars
  <2>. QED
    BY <1>1, <2>1, MarkedKept DEF Underway
<1>3. ASSUME NEW fresh \in SUBSET Uri, published' = fresh,
             u \in fresh <=> settings # "off" /\ u \in Found,
             shown'[u] = IF u \in fresh THEN ProjectMarks(u)
                         ELSE IF u \in Gone THEN Clear ELSE shown[u]
      PROVE  Marked(u)' /\ ClosedFresh(u)'
  <2>1. u \in Found' <=> u \in Found
    BY <1>1 DEF Found, IsOpen
  <2>2. CASE u \in fresh
    <3>1. /\ shown'[u].by = "project" /\ shown'[u].facts = Facts(index, bound, settings, u)
      BY <1>3, <2>2 DEF ProjectMarks
    <3>2. \A marks : marks.facts = Facts(index, bound, settings, u) => FreshFacts(u, marks)
      BY FactsRead
    <3>3. FreshFacts(u, shown'[u])
      BY <3>1, <3>2
    <3>4. FreshFacts(u, shown[u])'
      BY <1>1, <3>3 DEF FreshFacts, TypedTexts
    <3>. QED
      BY <1>1, <1>3, <2>1, <2>2, <3>1, <3>4 DEF Marked, ClosedFresh
  <2>3. CASE u \notin fresh
    <3>1. shown'[u].by # "project" /\ shown'[u].facts = NoFacts
      <4>1. CASE u \in Gone
        BY <1>3, <2>3, <4>1 DEF Clear
      <4>2. CASE u \notin Gone
        <5>1. u \notin published /\ Marked(u)
          BY <1>1, <4>2 DEF Gone, ClosedInv
        <5>. QED
          BY <1>3, <2>3, <4>2, <5>1 DEF Marked
      <4>. QED
        BY <4>1, <4>2
    <3>. QED
      BY <1>1, <1>3, <2>1, <2>3, <3>1 DEF Marked, ClosedFresh, FreshFacts
  <2>. QED
    BY <2>2, <2>3
<1>4. CASE EndPass /\ walk = "finished"
  <2>1. PublishFindings(Found, {v \in retype : Publishable(v, compiled)})
    BY <1>4 DEF EndPass
  <2>2. settings # "off"
    BY <1>4 DEF EndPass, Srv!EndPass, ClosedInv
  <2>3. Found \in SUBSET Uri /\ u \notin {v \in retype : Publishable(v, compiled)}
    BY <1>1 DEF Found, Publishable
  <2>4. /\ published' = Found
        /\ shown'[u] = IF u \in Found THEN ProjectMarks(u)
                       ELSE IF u \in Gone THEN Clear ELSE shown[u]
    BY <2>1, <2>3 DEF PublishFindings
  <2>. QED
    BY <1>3, <2>2, <2>3, <2>4
<1>5. CASE PublishUninferred
  <2>1. PublishFindings({}, {}) /\ settings = "off"
    BY <1>5 DEF PublishUninferred
  <2>2. /\ published' = {}
        /\ shown'[u] = IF u \in {} THEN ProjectMarks(u)
                       ELSE IF u \in Gone THEN Clear ELSE shown[u]
    BY <2>1 DEF PublishFindings
  <2>3. {} \in SUBSET Uri
    OBVIOUS
  <2>. QED
    BY <1>3, <2>1, <2>2, <2>3
<1>. QED
  BY <1>2, <1>4, <1>5

\* No step leaves a closed file with old findings that nobody owes.
LEMMA StepClosed ==
    ASSUME Typed, Typed', Loop!NothingAhead, LineInv(FALSE), CoreApart, ClosedInv, [Next]_vars
    PROVE  ClosedInv'
<1>. DEFINE owed == pc = "infer" => projectStale /\ settings # "off"
<1>1. ASSUME ~PublishUninferred, ~EndPass, UNCHANGED <<open, settings, index, published>>,
             NEW u \in Uri, open'[u] = 0, shown'[u] = shown[u]
      PROVE  Marked(u)' /\ (Underway \/ ClosedFresh(u))'
  <2>1. Marked(u)'
    BY <1>1, MarkedKept DEF IsOpen
  <2>2. ~Underway => ClosedFresh(u)'
    BY <1>1, ClosedKept DEF IsOpen
  <2>. QED
    BY <1>1, <2>1, <2>2, UnderwayStays
<1>2. ASSUME ~PublishUninferred, ~EndPass, owed', UNCHANGED <<stateVars, shown>> PROVE ClosedInv'
  BY <1>1, <1>2 DEF stateVars, ClosedInv, IsOpen
<1>3. CASE (Editor \/ CheckerThread) /\ ~PublishUninferred /\ ~EndPass
  <2>1. UNCHANGED <<pc, projectStale, stateVars, shown>>
    BY <1>3, EditorQuiet, EditorMoves, CheckerFrame
  <2>2. owed'
    BY <2>1 DEF ClosedInv, stateVars
  <2>. QED
    BY <1>2, <1>3, <2>1, <2>2
<1>4. CASE Sync /\ ~PublishUninferred /\ ~EndPass
  <2>1. owed'
    BY <1>4 DEF Sync, Srv!Notify
  <2>. QED
    BY <1>4, <2>1, SyncHears, SyncClosed DEF ClosedInv, IsOpen
<1>5. CASE Publish /\ ~PublishUninferred /\ ~EndPass
  <2>1. UNCHANGED <<open, settings, index, published>> /\ owed'
    BY <1>5 DEF Publish, Srv!Publish
  <2>2. ASSUME NEW u \in Uri, open'[u] = 0 PROVE shown'[u] = shown[u]
    <3>. DEFINE checked == Head(results)
    <3>1. \/ shown' = shown
          \/ /\ Current(checked)
             /\ \E marks : shown' = [shown EXCEPT ![checked.uri] = marks]
      BY <1>5 DEF Publish
    <3>2. Current(checked) => checked.uri # u
      BY <2>1, <2>2 DEF Current, IsOpen
    <3>. HIDE DEF checked
    <3>. QED
      BY <3>1, <3>2 DEF Typed, TypedMarks
  <2>. QED
    BY <1>1, <1>5, <2>1, <2>2 DEF ClosedInv, IsOpen
<1>6. CASE PublishUninferred \/ EndPass
  <2>1. owed'
    BY <1>6 DEF PublishUninferred, Srv!PublishUninferred, EndPass, Srv!EndPass
  <2>. QED
    BY <1>6, <2>1, FindingsClosed DEF ClosedInv, IsOpen
<1>7. CASE Server /\ ~Sync /\ ~Publish /\ ~PublishUninferred /\ ~EndPass
  <2>1. UNCHANGED <<projectStale, stateVars, shown>> /\ (pc' = "infer" => pc = "infer" \/ BeginPass)
    BY <1>7, OtherSteps
  <2>2. BeginPass => projectStale /\ settings # "off"
    BY DEF BeginPass, Srv!BeginPass
  <2>3. owed'
    BY <2>1, <2>2 DEF ClosedInv, stateVars
  <2>. QED
    BY <1>2, <1>7, <2>1, <2>3
<1>8. CASE UNCHANGED vars /\ ~PublishUninferred /\ ~EndPass
  <2>1. UNCHANGED <<pc, projectStale, stateVars, shown>>
    BY <1>8 DEF vars, serveVars
  <2>2. owed'
    BY <2>1 DEF ClosedInv, stateVars
  <2>. QED
    BY <1>2, <1>8, <2>1, <2>2
<1>. QED
  BY <1>3, <1>4, <1>5, <1>6, <1>7, <1>8 DEF Next

LEMMA InitClosed == Init => TypesInv /\ ClosedInv
BY DEF Init, Srv!Init, TypesInv, Checkable, IsOpen, ClosedInv, Marked, Clear, Underway

LEMMA ClosedAlways ==
    ASSUME CoreApart
    PROVE  Spec => []ClosedInv
<1>1. Typed /\ Typed' /\ Loop!ServeInv /\ LineInv(FALSE) /\ ClosedInv /\ [Next]_vars => ClosedInv'
  <2>1. Loop!ServeInv => Loop!NothingAhead
    BY DEF Loop!ServeInv
  <2>. QED
    BY <2>1, StepClosed
<1>. QED
  BY <1>1, InitClosed, TypedAlways, StreamAlways, LineAlways, PTL DEF Spec

LEMMA TypesAlways == CarefulSpec => []TypesInv
<1>1. Typed /\ Typed' /\ Loop!ServeInv /\ ClosesOpen /\ LineInv(FALSE) /\ TypesInv
      /\ [Next /\ HeardFirst /\ Unscanned]_vars => TypesInv'
  <2>1. Loop!ServeInv => Loop!NothingAhead
    BY DEF Loop!ServeInv
  <2>2. UNCHANGED vars => Unscanned
    BY DEF vars, stateVars, Unscanned
  <2>. QED
    BY <2>1, <2>2, StepTypes
<1>. QED
  BY <1>1, InitClosed, CarefulIs, TypedAlways, StreamAlways, ToldAlways, LineAlways, PTL
     DEF CarefulSpec

\* Once all is settled nothing is under way.
LEMMA NothingUnderway ==
    ASSUME Typed, Settled
    PROVE  ~Underway
BY SettledRests DEF Underway, Settled

\* Once all is settled marks stand on exactly the closed files with findings, and no open
\* buffer keeps what was found in it as a project file, whatever was typed, saved and
\* configured in whatever order, and however many passes were stopped half way.
THEOREM ProjectSettles == CoreSource = {} => (Spec => []SettledProject)
<1>. SUFFICES ASSUME CoreSource = {} PROVE Spec => []SettledProject
  OBVIOUS
<1>1. CoreApart
  BY DEF CoreApart
<1>2. Typed /\ ClosedInv => SettledClosed
  BY NothingUnderway DEF ClosedInv, ClosedFresh, SettledClosed
<1>3. Typed /\ LineInv(FALSE) => SettledOpened
  BY SettledRests DEF LineInv, Checkable, ShowsLatest, SettledOpened
<1>4. SettledClosed /\ SettledIndex /\ SettledOpened => SettledProject
  BY DEF SettledProject
<1>. QED
  BY <1>1, <1>2, <1>3, <1>4, TypedAlways, ClosedAlways, LineAlways, IndexSettles, PTL

\* Once all is settled buffers show what Janet and the types find in the texts, on disk
\* and in buffers, and under the settings of now: no notification, however it falls
\* between the checks and passes under way, leaves findings of what is no more.
THEOREM BuffersSettle == CoreApart => (CarefulSpec => []SettledBuffers)
<1>. SUFFICES ASSUME CoreApart PROVE CarefulSpec => []SettledBuffers
  OBVIOUS
<1>1. Typed /\ LineInv(TRUE) => SettledChecks
  BY LineSettled
<1>2. ASSUME Typed, TypesInv, ClosedInv, Settled, NEW u \in Uri \ CoreSource
      PROVE  /\ IsOpen(u) => shown[u].facts.mode = settings
             /\ FreshFacts(u, shown[u])
  <2>1. CASE IsOpen(u)
    <3>1. TypesFresh(u) /\ ~projectStale
      BY <1>2, <2>1, SettledRests DEF TypesInv, Checkable, Settled
    <3>. QED
      BY <3>1 DEF TypesFresh, NoFacts
  <2>2. CASE ~IsOpen(u)
    BY <1>2, <2>2, NothingUnderway DEF ClosedInv, ClosedFresh
  <2>. QED
    BY <2>1, <2>2
<1>3. Typed /\ TypesInv /\ ClosedInv => SettledTypes
  BY <1>2 DEF SettledTypes, FreshFacts
<1>4. SettledChecks /\ SettledTypes => SettledBuffers
  BY DEF SettledBuffers
<1>. QED
  BY <1>1, <1>3, <1>4, CarefulIs, TypedAlways, ClosedAlways, TypesAlways, CarefulLineAlways, PTL
=============================================================================
