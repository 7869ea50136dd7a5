----------------------------- MODULE WorkerProofs -----------------------------
(* Theorems about the worker and the `janet` it asks (Worker.tla). *)
EXTENDS Worker, TLAPS

-----------------------------------------------------------------------------
(* The types. *)

Frames  == [file : File \cup {None}, left : Seq(File), seen : SUBSET Pair]

TypedDisk ==
    /\ writes \in 0..MaxWrites /\ now \in 2..MaxTime
    /\ disk \in [File -> [text : Text \cup {None}, second : 0..now, stamp : 0..writes]]
    /\ \A f \in File : disk[f].text \in Says[f] \cup {None} /\ (disk[f].text = None => ~IsThere(f))

HeldType(h) ==
    /\ h = [cache |-> h.cache, fingerprints |-> h.fingerprints, importers |-> h.importers,
            key |-> h.key, program |-> h.program, ambient |-> h.ambient]
    /\ DOMAIN h.cache \subseteq File /\ h.cache \in [DOMAIN h.cache -> SUBSET Pair]
    /\ DOMAIN h.fingerprints \subseteq DOMAIN h.cache
    /\ h.fingerprints \in [DOMAIN h.fingerprints -> FilePrint]
    /\ h.importers \in [File -> SUBSET File]
    /\ h.key \in Key \cup {None} /\ h.program \subseteq Pair

TypedHeld == HeldType(held)

TypedRun ==
    run \in [phase : {"waiting", "loading", "checking"}, request : Request \cup {None},
             todo : Seq(File), stack : Seq(Frames)]

TypedWorker ==
    /\ asked \in Request \cup {None}
    /\ process \in {"none", "running", "exited"}
    /\ stdin \in Seq(Request)
    /\ stdout # <<>> =>
        LET reply == Head(stdout) IN
        /\ stdout = <<reply>> /\ reply.read \subseteq Pair
        /\ DOMAIN reply.names \subseteq File /\ reply.names \in [DOMAIN reply.names -> Text]
    /\ names \in [File -> Text \cup {None}]
    /\ since \in [File -> SUBSET (Text \cup {None})]

Typed == TypedDisk /\ TypedHeld /\ TypedRun /\ TypedWorker

-----------------------------------------------------------------------------
(* Who has the request. *)

\* The request that is waited for is with the worker's process, which has not read
\* it, runs it or has answered it; or the process is gone.
OneRequest ==
    /\ process # "running" => held = Fresh /\ run = Waiting
    /\ process = "none" => asked = None
    /\ run.phase = "waiting" => run = Waiting
    /\ \/ /\ stdin = <<>> /\ stdout = <<>> /\ run = Waiting
          /\ asked = None \/ process = "exited"
       \/ stdin = <<asked>> /\ stdout = <<>> /\ run = Waiting /\ asked # None
       \/ stdin = <<>> /\ stdout = <<>> /\ run.phase # "waiting" /\ run.request = asked /\ asked # None
       \/ stdin = <<>> /\ stdout # <<>> /\ Head(stdout).request = asked /\ run = Waiting /\ asked # None

\* What runs: a file of a program or a buffer, and modules above it, which are not
\* loaded yet and which each has noted as its importer the one that imports it.
Stacked ==
    LET stack == run.stack IN
    /\ run.phase = "loading" /\ stack # <<>> => stack[1].file \in File
    /\ run.phase = "checking" => stack # <<>> /\ stack[1].file = None
    /\ \A i \in 2..Len(stack) : stack[i].file \in File \ DOMAIN held.cache
    /\ \A i, j \in 2..Len(stack) : stack[i].file = stack[j].file => i = j
    /\ run.phase = "waiting" => stack = <<>>
    /\ \A i \in 1..(Len(stack) - 1) : stack[i].left # <<>>
    /\ \A i \in 2..(Len(stack) - 1) : stack[i].file \in held.importers[stack[i + 1].file]

-----------------------------------------------------------------------------
(* What modules hold, and when it is dropped. *)

\* A fingerprint tells a text of a file from any it has when the fingerprint is
\* the same: it holds the text, or else it was taken when the file had been left
\* alone for long enough that a write since shows.
Tells(print, f, text) ==
    /\ print \in FilePrint
    /\ \/ print.text = text
       \/ /\ print.text = None /\ print.second < now - 1
          /\ IsThere(f) /\ disk[f].second = print.second => disk[f].text = text

\* What the file of the program that runs has brought so far.
Hosting == IF run.phase = "loading" /\ run.stack # <<>> THEN run.stack[1].seen ELSE {}

\* What is not looked for among the modules: what the program brought, and what no
\* fingerprint tells.
Apart == held.program \cup Hosting \cup missed

\* What a module holds of another is held by the other, which is loaded, and the
\* module goes when the other changes.
Within(h, apart, f, pairs) ==
    \A pair \in pairs \ apart :
        /\ pair[1] \in DOMAIN h.cache
        /\ pair \in h.cache[pair[1]]
        /\ f \in Unloaded(h, {pair[1]})

LinkedIn(h, apart) == \A f \in DOMAIN h.cache : Within(h, apart, f, h.cache[f])

\* So does one that runs, but for what it was begun from.
Linked ==
    /\ LinkedIn(held, Apart)
    /\ \A i \in 2..Len(run.stack) :
        LET frame == run.stack[i] IN
        Within(held, Apart, frame.file, frame.seen \ {<<frame.file, disk[frame.file].text>>})

\* A file was read into `pairs`, as it is or as it was when it was missed.
Owned(f, pairs) ==
    \E text \in Text : <<f, text>> \in pairs /\ (text = disk[f].text \/ <<f, text>> \in missed)

\* The fingerprints of modules tell what they were loaded from, and one that is not
\* noted yet was loaded from what its file says.
ToldIn(h, apart) ==
    \A f \in DOMAIN h.cache : \A pair \in h.cache[f] \ apart :
        pair[1] = f => IF f \in DOMAIN h.fingerprints THEN Tells(h.fingerprints[f], f, pair[2])
                       ELSE pair[2] = disk[f].text

Told ==
    /\ ToldIn(held, Apart)
    /\ \A i \in 2..Len(run.stack) : Owned(run.stack[i].file, run.stack[i].seen)
    /\ \A f \in DOMAIN held.cache \ DOMAIN held.fingerprints : Owned(f, held.cache[f])

\* The key tells what was read of a file it names, if that was not missed.
KeyTells(f, text) ==
    \/ <<f, text>> \in missed
    \/ \E i \in DOMAIN held.key.paths :
        held.key.paths[i] = f /\ Tells(held.key.fingerprints[i], f, text)

KeyTellsOf(pairs) == \A pair \in pairs : pair[1] \in Range(held.key.paths) => KeyTells(pair[1], pair[2])

ProgramTold ==
    /\ held.key # None => DOMAIN held.key.paths = DOMAIN held.key.fingerprints
    /\ held.program # {} \/ run.phase # "waiting" => held.key # None
    /\ \A pair \in held.program : KeyTells(pair[1], pair[2])
    /\ run.phase = "loading" =>
        /\ Range(run.todo) \subseteq Range(held.key.paths)
        /\ \A f \in Range(held.key.paths) : IsThere(f) => KeyTells(f, disk[f].text)
        /\ \A f \in DOMAIN held.cache : KeyTellsOf(held.cache[f])
        /\ \A i \in DOMAIN run.stack : KeyTellsOf(run.stack[i].seen)

\* What the files have said since the request, and what was missed.
Recent == {pair \in Pair : pair[2] \in since[pair[1]] \/ pair \in missed}

\* What a check uses is recent.
Reads ==
    /\ asked # None => answer = None /\ \A f \in File : disk[f].text \in since[f]
    /\ run.phase # "waiting" =>
        held.program \subseteq Recent /\ \A f \in DOMAIN held.cache : held.cache[f] \subseteq Recent
    /\ \A i \in DOMAIN run.stack : run.stack[i].seen \subseteq Recent
    /\ stdout # <<>> => Head(stdout).read \subseteq Recent
    /\ answer # None => answer.read \subseteq Recent

\* The names reported of a module that is noted are those of its text.
Reported(f) ==
    IF stdout # <<>> /\ f \in DOMAIN Head(stdout).names THEN Head(stdout).names[f] ELSE names[f]

NamesTold ==
    \A f \in DOMAIN held.fingerprints \ lost :
        \E text \in Text : <<f, text>> \in held.cache[f] /\ (text = Reported(f) \/ <<f, text>> \in missed)

\* The stamps kept of what a check that hung read are those of the files when it was
\* given up. A file that has the stamp it had then is as it was.
Hung ==
    /\ gaveUp # NoneGivenUp =>
        \A f \in File :
            /\ gaveUp.disk[f].stamp \in 0..writes
            /\ disk[f] # NoFile /\ gaveUp.disk[f] # NoFile /\ disk[f].stamp = gaveUp.disk[f].stamp =>
                disk[f] = gaveUp.disk[f]
    /\ hung # NoHung =>
        /\ gaveUp # NoneGivenUp /\ hung.request = gaveUp.request
        /\ \A f \in DOMAIN hung.inputs :
            hung.inputs[f] = IF gaveUp.disk[f] = NoFile THEN None ELSE gaveUp.disk[f].stamp

HungTyped == hung.request \in Request \cup {None} /\ DOMAIN hung.inputs \subseteq File

TypedInv  == Typed /\ HungTyped /\ OneRequest /\ Stacked /\ AnswersMatch
WorkerInv == TypedInv /\ Linked /\ Told /\ ProgramTold /\ Reads /\ NamesTold /\ Hung

-----------------------------------------------------------------------------
(* Fingerprints, and what `check/unload` drops. *)

\* Only a file that is there has a fingerprint.
LEMMA PrintOf ==
    ASSUME TypedDisk, NEW f \in File
    PROVE  /\ IsThere(f) => Fingerprint(f) \in FilePrint /\ Tells(Fingerprint(f), f, disk[f].text)
           /\ ~IsThere(f) => Fingerprint(f) = None
           /\ IsThere(f) => disk[f].text \in Text
           /\ ~IsThere(f) => disk[f].text = None
<1>1. disk[f] \in [text : Text \cup {None}, second : 0..now, stamp : 0..writes]
  BY DEF TypedDisk
<1>2. IsThere(f) => disk[f].text \in Text
  BY <1>1 DEF TypedDisk
<1>3. disk[f].second \in Nat /\ now \in Nat
  BY <1>1 DEF TypedDisk
<1>4. ASSUME IsThere(f) PROVE Fingerprint(f) \in FilePrint
  BY <1>2, <1>3, <1>4 DEF Fingerprint, FilePrint
<1>5. ASSUME IsThere(f) PROVE Tells(Fingerprint(f), f, disk[f].text)
  BY <1>2, <1>3, <1>4, <1>5 DEF Fingerprint, Tells
<1>6. ~IsThere(f) => disk[f].text = None
  BY DEF IsThere, NoFile
<1>. QED
  BY <1>2, <1>4, <1>5, <1>6 DEF Fingerprint

\* A fingerprint that is as it was tells what the file says.
LEMMA SamePrint ==
    ASSUME TypedDisk, NEW f \in File, NEW text \in Text, Tells(Fingerprint(f), f, text)
    PROVE  IsThere(f) /\ disk[f].text = text
<1>1. IsThere(f) /\ disk[f].text \in Text
  BY PrintOf, WorkerAssumption DEF Tells, WorkerAssumption
<1>2. disk[f].second \in Nat /\ now \in Nat
  BY DEF TypedDisk
<1>. QED
  BY <1>1, <1>2, WorkerAssumption DEF Tells, Fingerprint, WorkerAssumption

\* What is visited contains what has changed, and the importers of what was loaded.
LEMMA Visits ==
    ASSUME NEW h, HeldType(h), NEW changed \in SUBSET File
    PROVE  /\ changed \subseteq Unloaded(h, changed) /\ Unloaded(h, changed) \subseteq File
           /\ \A g \in Unloaded(h, changed) \cap DOMAIN h.cache :
                  h.importers[g] \subseteq Unloaded(h, changed)
           /\ \A S \in SUBSET File :
                  changed \subseteq S /\ (\A g \in S \cap DOMAIN h.cache : h.importers[g] \subseteq S)
                  => Unloaded(h, changed) \subseteq S
<1>1. \A g \in DOMAIN h.cache : h.importers[g] \subseteq File
  BY DEF HeldType
<1>. QED
  BY <1>1 DEF Unloaded

\* More that is loaded, and more importers, drop no less.
LEMMA VisitsMore ==
    ASSUME NEW h, NEW k, HeldType(h), HeldType(k), NEW changed \in SUBSET File,
           DOMAIN h.cache \subseteq DOMAIN k.cache,
           \A f \in File : h.importers[f] \subseteq k.importers[f]
    PROVE  Unloaded(h, changed) \subseteq Unloaded(k, changed)
<1>1. DOMAIN h.cache \subseteq File
  BY DEF HeldType
<1>. QED
  BY <1>1, Visits

\* Links hold on among what is kept: what is dropped takes its importers along.
LEMMA KeptLinked ==
    ASSUME NEW h, HeldType(h), NEW apart, LinkedIn(h, apart), NEW changed \in SUBSET File,
           NEW k, HeldType(k),
           k.cache = Restrict(h.cache, DOMAIN h.cache \ Unloaded(h, changed)),
           k.importers = h.importers
    PROVE  LinkedIn(k, apart)
<1>. DEFINE dropped == Unloaded(h, changed)
<1>1. DOMAIN k.cache = DOMAIN h.cache \ dropped /\ \A f \in DOMAIN k.cache : k.cache[f] = h.cache[f]
  BY DEF Restrict
<1>2. SUFFICES ASSUME NEW f \in DOMAIN k.cache, NEW pair \in h.cache[f] \ apart
               PROVE  /\ pair[1] \in DOMAIN k.cache /\ pair \in k.cache[pair[1]]
                      /\ f \in Unloaded(k, {pair[1]})
  BY <1>1 DEF LinkedIn, Within
<1>3. /\ pair[1] \in DOMAIN h.cache /\ pair \in h.cache[pair[1]]
      /\ f \in Unloaded(h, {pair[1]}) /\ pair[1] \in File
  BY <1>1, <1>2 DEF LinkedIn, Within, HeldType
<1>4. pair[1] \notin dropped
  <2>1. SUFFICES ASSUME pair[1] \in dropped PROVE f \in dropped
    BY <1>1
  <2>2. dropped \in SUBSET File /\ \A g \in dropped \cap DOMAIN h.cache : h.importers[g] \subseteq dropped
    BY Visits
  <2>3. Unloaded(h, {pair[1]}) \subseteq dropped
    BY <1>3, <2>1, <2>2, Visits
  <2>. QED
    BY <1>3, <2>3
<1>5. f \in Unloaded(k, {pair[1]})
  <2>. DEFINE visited == Unloaded(k, {pair[1]})
  <2>1. /\ visited \subseteq File /\ pair[1] \in visited
        /\ \A g \in visited \cap DOMAIN k.cache : h.importers[g] \subseteq visited
    BY <1>3, Visits
  <2>2. /\ dropped \subseteq File
        /\ \A g \in dropped \cap DOMAIN h.cache : h.importers[g] \subseteq dropped
    BY Visits
  <2>3. \A g \in (visited \cup dropped) \cap DOMAIN h.cache : h.importers[g] \subseteq visited \cup dropped
    BY <1>1, <2>1, <2>2
  <2>4. Unloaded(h, {pair[1]}) \subseteq visited \cup dropped
    <3>. DEFINE both == visited \cup dropped
    <3>1. /\ both \in SUBSET File /\ {pair[1]} \subseteq both /\ {pair[1]} \in SUBSET File
          /\ \A g \in both \cap DOMAIN h.cache : h.importers[g] \subseteq both
      BY <1>3, <2>1, <2>2, <2>3
    <3>. HIDE DEF both
    <3>2. Unloaded(h, {pair[1]}) \subseteq both
      BY <3>1, Visits
    <3>. QED
      BY <3>2 DEF both
  <2>. QED
    BY <1>1, <1>3, <2>4
<1>. QED
  BY <1>1, <1>3, <1>4, <1>5

\* After `unload-changed`: what is loaded is linked, and has the fingerprint it had.
LEMMA CurrentKeeps ==
    ASSUME NEW h, HeldType(h)
    PROVE  /\ HeldType(Current(h))
           /\ \A apart : LinkedIn(h, apart) => LinkedIn(Current(h), apart)
           /\ Current(h).importers = h.importers /\ Current(h).program = h.program
           /\ Current(h).key = h.key /\ Current(h).ambient = h.ambient
           /\ DOMAIN Current(h).cache \subseteq DOMAIN h.cache
           /\ \A f \in DOMAIN Current(h).cache : Current(h).cache[f] = h.cache[f]
           /\ \A f \in DOMAIN Current(h).fingerprints :
                /\ f \in DOMAIN h.fingerprints /\ Current(h).fingerprints[f] = h.fingerprints[f]
                /\ Current(h).fingerprints[f] = Fingerprint(f)
           /\ \A f \in DOMAIN Current(h).cache :
                f \in DOMAIN h.fingerprints => f \in DOMAIN Current(h).fingerprints
<1>. DEFINE changed == {f \in DOMAIN h.fingerprints : h.fingerprints[f] # Fingerprint(f)}
            dropped == Unloaded(h, changed)
            k == Current(h)
<1>1. changed \in SUBSET File
  BY DEF HeldType
<1>2. changed \subseteq dropped
  BY <1>1, Visits
<1>3. k = [h EXCEPT !.cache = Restrict(h.cache, DOMAIN h.cache \ dropped),
                    !.fingerprints = Restrict(h.fingerprints, DOMAIN h.fingerprints \ dropped)]
  BY DEF Current
<1>. HIDE DEF dropped, changed, k
<1>4. /\ k.cache = Restrict(h.cache, DOMAIN h.cache \ dropped)
      /\ k.fingerprints = Restrict(h.fingerprints, DOMAIN h.fingerprints \ dropped)
      /\ k.importers = h.importers /\ k.key = h.key /\ k.program = h.program /\ k.ambient = h.ambient
      /\ k = [cache |-> k.cache, fingerprints |-> k.fingerprints, importers |-> k.importers,
              key |-> k.key, program |-> k.program, ambient |-> k.ambient]
  BY <1>3 DEF HeldType
<1>5. /\ DOMAIN k.cache = DOMAIN h.cache \ dropped
      /\ DOMAIN k.fingerprints = DOMAIN h.fingerprints \ dropped
      /\ \A f \in DOMAIN k.cache : k.cache[f] = h.cache[f]
      /\ \A f \in DOMAIN k.fingerprints : k.fingerprints[f] = h.fingerprints[f]
      /\ k.cache = [f \in DOMAIN k.cache |-> h.cache[f]]
      /\ k.fingerprints = [f \in DOMAIN k.fingerprints |-> h.fingerprints[f]]
  BY <1>4 DEF Restrict
<1>6. k.cache \in [DOMAIN k.cache -> SUBSET Pair]
  <2>1. \A f \in DOMAIN h.cache : h.cache[f] \in SUBSET Pair
    BY DEF HeldType
  <2>2. \A f \in DOMAIN k.cache : h.cache[f] \in SUBSET Pair
    BY <1>5, <2>1
  <2>. QED
    BY <1>5, <2>2
<1>7. k.fingerprints \in [DOMAIN k.fingerprints -> FilePrint]
  <2>1. \A f \in DOMAIN h.fingerprints : h.fingerprints[f] \in FilePrint
    BY DEF HeldType
  <2>2. \A f \in DOMAIN k.fingerprints : h.fingerprints[f] \in FilePrint
    BY <1>5, <2>1
  <2>. QED
    BY <1>5, <2>2
<1>8. HeldType(k)
  BY <1>4, <1>5, <1>6, <1>7 DEF HeldType
<1>9. \A apart : LinkedIn(h, apart) => LinkedIn(k, apart)
  BY <1>1, <1>4, <1>8, KeptLinked DEF dropped
<1>10. \A f \in DOMAIN k.fingerprints : k.fingerprints[f] = Fingerprint(f)
  BY <1>2, <1>5 DEF changed
<1>. QED
  BY <1>4, <1>5, <1>8, <1>9, <1>10 DEF k

\* What is loaded then says what its files say now, and so what they have said since
\* the request, but for what is apart.
LEMMA CurrentRecent ==
    ASSUME TypedDisk, NEW h, HeldType(h), NEW apart, LinkedIn(h, apart), ToldIn(h, apart),
           apart \cap Pair \subseteq Recent, \A f \in File : disk[f].text \in since[f]
    PROVE  \A f \in DOMAIN Current(h).cache : Current(h).cache[f] \subseteq Recent
<1>. DEFINE k == Current(h)
<1>1. /\ HeldType(k) /\ LinkedIn(k, apart)
      /\ DOMAIN k.cache \subseteq DOMAIN h.cache
      /\ \A f \in DOMAIN k.cache :
            /\ k.cache[f] = h.cache[f]
            /\ f \in DOMAIN h.fingerprints => h.fingerprints[f] = Fingerprint(f)
  BY CurrentKeeps
<1>. HIDE DEF k
<1>. SUFFICES ASSUME NEW f \in DOMAIN k.cache, NEW pair \in k.cache[f]
              PROVE  pair \in Recent
  BY DEF k
<1>2. pair \in Pair /\ pair[1] \in File /\ pair[2] \in Text
  BY <1>1 DEF HeldType, Pair
<1>3. CASE pair \in apart
  BY <1>2, <1>3
<1>4. CASE pair \notin apart
  <2>1. pair[1] \in DOMAIN k.cache /\ pair \in k.cache[pair[1]]
    BY <1>1, <1>4 DEF LinkedIn, Within
  <2>2. pair[1] \in DOMAIN h.cache /\ pair \in h.cache[pair[1]] \ apart
    BY <1>1, <1>4, <2>1
  <2>3. disk[pair[1]].text = pair[2]
    <3>1. CASE pair[1] \in DOMAIN h.fingerprints
      <4>1. Tells(Fingerprint(pair[1]), pair[1], pair[2])
        BY <1>1, <2>1, <2>2, <3>1 DEF ToldIn
      <4>. QED
        BY <1>2, <4>1, SamePrint
    <3>2. CASE pair[1] \notin DOMAIN h.fingerprints
      BY <2>2, <3>2 DEF ToldIn
    <3>. QED
      BY <3>1, <3>2
  <2>. QED
    BY <1>2, <2>3 DEF Recent
<1>. QED
  BY <1>3, <1>4

-----------------------------------------------------------------------------
(* The disk. *)

\* Only a write changes a file, and only the clock the time.
LEMMA DiskStill ==
    Checks \/ Script \/ Exit => UNCHANGED <<disk, writes, now>>
<1>1. Checks => UNCHANGED <<disk, writes, now>>
  BY DEF Checks, Receive, TimeOut, GiveUp, Fail, Ask
<1>2. Script => UNCHANGED <<disk, writes, now>>
  BY DEF Script, Read, ReadFails, BeginProgram, EndProgram, BeginBuffer, EndModule, Reply,
     ReplyFails, ImportLoaded, BeginModule, ImportFails
<1>. QED
  BY <1>1, <1>2 DEF Exit

\* A file that changes is gone, or says that it was written now, by a write of its own.
LEMMA DiskSteps ==
    ASSUME TypedDisk, [Next]_vars
    PROVE  /\ TypedDisk'
           /\ now' \in Nat /\ now \in Nat /\ now <= now'
           /\ \A f \in File : disk'[f] # disk[f] =>
                \/ disk'[f] = NoFile
                \/ disk'[f].second = now /\ disk'[f].stamp = writes + 1 /\ disk'[f] # NoFile
<1>1. now \in Nat /\ writes \in Nat /\ MaxWrites \in Nat /\ MaxTime \in Nat
  BY WorkerAssumption DEF TypedDisk, WorkerAssumption
<1>2. CASE UNCHANGED <<disk, writes, now>>
  BY <1>1, <1>2 DEF TypedDisk, IsThere
<1>3. CASE Tick
  <2>1. now' = now + 1 /\ now' \in 2..MaxTime /\ disk' = disk /\ writes' = writes
    BY <1>1, <1>3 DEF Tick, TypedDisk
  <2>2. \A f \in File : disk[f] \in [text : Text \cup {None}, second : 0..now', stamp : 0..writes]
    BY <1>1, <2>1 DEF TypedDisk
  <2>3. disk' \in [File -> [text : Text \cup {None}, second : 0..now', stamp : 0..writes']]
    BY <2>1, <2>2 DEF TypedDisk
  <2>. QED
    BY <1>1, <2>1, <2>3 DEF TypedDisk, IsThere
<1>4. ASSUME NEW f \in File, NEW text \in Says[f] \cup {None}, Write(f, text)
      PROVE  /\ TypedDisk' /\ now' = now
             /\ \A g \in File : disk'[g] # disk[g] =>
                  \/ disk'[g] = NoFile
                  \/ disk'[g].second = now /\ disk'[g].stamp = writes + 1 /\ disk'[g] # NoFile
  <2>. DEFINE new == IF text = None THEN NoFile ELSE [text |-> text, second |-> now, stamp |-> writes + 1]
  <2>1. /\ writes' = writes + 1 /\ writes' \in 0..MaxWrites /\ now' = now
        /\ disk' = [disk EXCEPT ![f] = new]
    BY <1>1, <1>4 DEF Write, TypedDisk
  <2>2. text \in Text \cup {None}
    BY WorkerAssumption DEF WorkerAssumption
  <2>3. new \in [text : Text \cup {None}, second : 0..now', stamp : 0..writes']
    BY <1>1, <2>1, <2>2 DEF NoFile
  <2>4. new.text \in Says[f] \cup {None} /\ (new.text = None => new = NoFile)
    BY <2>2, WorkerAssumption DEF NoFile, WorkerAssumption
  <2>. HIDE DEF new
  <2>5. \A g \in File : disk[g] \in [text : Text \cup {None}, second : 0..now', stamp : 0..writes']
    BY <1>1, <2>1 DEF TypedDisk
  <2>6. disk' \in [File -> [text : Text \cup {None}, second : 0..now', stamp : 0..writes']]
    BY <2>1, <2>3, <2>5 DEF TypedDisk
  <2>7. \A g \in File : disk'[g] = IF g = f THEN new ELSE disk[g]
    BY <2>1 DEF TypedDisk
  <2>8. \A g \in File : disk'[g].text \in Says[g] \cup {None} /\ (disk'[g].text = None => ~IsThere(g)')
    BY <2>4, <2>7 DEF TypedDisk, IsThere, NoFile
  <2>9. new = NoFile \/ (new.second = now /\ new.stamp = writes + 1 /\ new # NoFile)
    BY DEF new
  <2>. QED
    BY <2>1, <2>6, <2>7, <2>8, <2>9 DEF TypedDisk
<1>. QED
  BY <1>1, <1>2, <1>3, <1>4, DiskStill DEF Next, Outside, vars

\* A fingerprint goes on telling what it told.
LEMMA TellsOn ==
    ASSUME TypedDisk, [Next]_vars, NEW f \in File, NEW print, NEW text, Tells(print, f, text)
    PROVE  Tells(print, f, text)'
<1>1. /\ now \in Nat /\ now' \in Nat /\ now <= now'
      /\ disk'[f] # disk[f] => disk'[f] = NoFile \/ disk'[f].second = now
  BY DiskSteps
<1>2. CASE print.text = text
  BY <1>2 DEF Tells
<1>3. CASE print.text = None /\ print.second < now - 1
  <2>1. print.second \in Nat
    BY DEF Tells, FilePrint
  <2>2. print.second < now' - 1 /\ print.second # now
    BY <1>1, <1>3, <2>1
  <2>3. CASE disk'[f] = disk[f]
    BY <1>3, <2>2, <2>3 DEF Tells, IsThere
  <2>4. CASE disk'[f] # disk[f]
    BY <1>1, <1>3, <2>2, <2>4 DEF Tells, IsThere
  <2>. QED
    BY <2>3, <2>4
<1>. QED
  BY <1>2, <1>3 DEF Tells

-----------------------------------------------------------------------------
(* The types, of every step of the script. *)

LEMMA TopFrame ==
    ASSUME TypedRun, run.stack # <<>>
    PROVE  /\ Top = run.stack[Len(run.stack)] /\ Top \in Frames
           /\ Len(run.stack) \in Nat \ {0} /\ Len(run.stack) \in DOMAIN run.stack
           /\ \A i \in DOMAIN run.stack : run.stack[i] \in Frames
           /\ DOMAIN run.stack = 1..Len(run.stack)
<1>1. run.stack \in Seq(Frames) /\ Len(run.stack) \in Nat /\ DOMAIN run.stack = 1..Len(run.stack)
  BY DEF TypedRun
<1>2. Len(run.stack) # 0
  BY <1>1
<1>. QED
  BY <1>1, <1>2 DEF Top, Last

\* Importers are only added, and a module is noted for each that imports it.
LEMMA NotedType ==
    ASSUME TypedHeld, TypedRun, run.stack # <<>>, NEW m \in File
    PROVE  /\ Noted(m) \in [File -> SUBSET File]
           /\ \A f \in File : held.importers[f] \subseteq Noted(m)[f]
           /\ IsThere(m) /\ Top.file # None => Top.file \in Noted(m)[m]
<1>1. Top.file \in File \cup {None} /\ held.importers \in [File -> SUBSET File]
  BY TopFrame DEF Frames, TypedHeld, HeldType
<1>. QED
  BY <1>1 DEF Noted

\* A frame that has begun, or has imported.
LEMMA FrameType ==
    /\ \A f \in File \cup {None}, text \in Text \cup Buffer, own \in SUBSET Pair : Frame(f, text, own) \in Frames
    /\ \A frame \in Frames, pairs \in SUBSET Pair :
        frame.left # <<>> => Imported(frame, pairs) \in Frames
<1>1. ASSUME NEW f \in File \cup {None}, NEW text \in Text \cup Buffer, NEW own \in SUBSET Pair
      PROVE  Frame(f, text, own) \in Frames
  BY WorkerAssumption DEF WorkerAssumption, Frame, Frames
<1>2. ASSUME NEW frame \in Frames, NEW pairs \in SUBSET Pair, frame.left # <<>>
      PROVE  Imported(frame, pairs) \in Frames
  <2>1. Tail(frame.left) \in Seq(File) /\ frame.seen \cup pairs \in SUBSET Pair /\ frame.file \in File \cup {None}
    BY <1>2 DEF Frames
  <2>2. Imported(frame, pairs) = [file |-> frame.file, left |-> Tail(frame.left), seen |-> frame.seen \cup pairs]
    <3>. DEFINE after == Imported(frame, pairs)
    <3>1. after = [frame EXCEPT !.left = Tail(frame.left), !.seen = frame.seen \cup pairs]
      BY DEF Imported
    <3>. HIDE DEF after
    <3>2. /\ after = [file |-> after.file, left |-> after.left, seen |-> after.seen]
          /\ after.file = frame.file /\ after.left = Tail(frame.left) /\ after.seen = frame.seen \cup pairs
      BY <3>1 DEF Frames
    <3>. QED
      BY <3>2 DEF after
  <2>. QED
    BY <2>1, <2>2 DEF Frames
<1>. QED
  BY <1>1, <1>2

\* What is checked in an environment of a request.
LEMMA RequestFields ==
    ASSUME NEW request \in Request
    PROVE  /\ request.text \in Buffer /\ request.setting.program \in Seq(File)
           /\ Checking(request) \in [phase : {"waiting", "loading", "checking"},
                                     request : Request \cup {None}, todo : Seq(File), stack : Seq(Frames)]
           /\ Checking(request).phase = "checking" /\ Checking(request).request = request
           /\ Len(Checking(request).stack) = 1
           /\ Checking(request).stack[1].file = None /\ Checking(request).stack[1].seen = {}
<1>1. request.text \in Buffer /\ request.setting.program \in Seq(File)
  BY WorkerAssumption DEF Request, WorkerAssumption
<1>2. Frame(None, request.text, {}) \in Frames
  BY <1>1, FrameType
<1>3. <<Frame(None, request.text, {})>> \in Seq(Frames) /\ <<>> \in Seq(File)
  BY <1>2
<1>. QED
  BY <1>1, <1>3 DEF Checking, Frame

LEMMA KeyType ==
    ASSUME TypedDisk, NEW paths \in Seq(File)
    PROVE  [paths |-> paths, fingerprints |-> [i \in DOMAIN paths |-> Fingerprint(paths[i])]] \in Key
<1>1. \A i \in DOMAIN paths : paths[i] \in File
  OBVIOUS
<1>2. \A i \in DOMAIN paths : Fingerprint(paths[i]) \in FilePrint \cup {None}
  BY <1>1, PrintOf
<1>3. DOMAIN paths = 1..Len(paths) /\ Len(paths) \in Nat
  OBVIOUS
<1>4. \A n \in Nat : \A f \in [1..n -> FilePrint \cup {None}] : f \in Seq(FilePrint \cup {None})
  OBVIOUS
<1>5. [i \in DOMAIN paths |-> Fingerprint(paths[i])] \in [1..Len(paths) -> FilePrint \cup {None}]
  BY <1>2, <1>3
<1>6. [i \in DOMAIN paths |-> Fingerprint(paths[i])] \in Seq(FilePrint \cup {None})
  BY <1>3, <1>4, <1>5
<1>. QED
  BY <1>6 DEF Key

\* The key of the program of a request, as the disk is.
KeyOf(request) ==
    [paths |-> request.setting.program,
     fingerprints |-> [i \in DOMAIN request.setting.program |-> Fingerprint(request.setting.program[i])]]

\* A request that finds its program as it was, and one that does not.
ReadOn(request) ==
    /\ held.ambient = request.setting.ambient /\ held.key = KeyOf(request)
    /\ held' = Current(held)
    /\ run' = Checking(request)
    /\ missed' = missed

ReadAnew(request) ==
    /\ held' = [cache |-> Empty, fingerprints |-> Empty, importers |-> held.importers,
                key |-> KeyOf(request), program |-> {}, ambient |-> request.setting.ambient]
    /\ run' = [phase |-> "loading", request |-> request, todo |-> request.setting.program, stack |-> <<>>]
    /\ missed' = {}

LEMMA ClearedFields ==
    ASSUME NEW h,
           h = [cache |-> h.cache, fingerprints |-> h.fingerprints, importers |-> h.importers,
                key |-> h.key, program |-> h.program, ambient |-> h.ambient]
    PROVE  /\ Cleared(h) = [cache |-> Empty, fingerprints |-> Empty, importers |-> h.importers,
                            key |-> h.key, program |-> h.program, ambient |-> h.ambient]
           /\ \A ambient :
                [Cleared(h) EXCEPT !.ambient = ambient, !.key = None] =
                    [cache |-> Empty, fingerprints |-> Empty, importers |-> h.importers,
                     key |-> None, program |-> h.program, ambient |-> ambient]
           /\ \A key :
                [Cleared(h) EXCEPT !.key = key, !.program = {}] =
                    [cache |-> Empty, fingerprints |-> Empty, importers |-> h.importers,
                     key |-> key, program |-> {}, ambient |-> h.ambient]
<1>. DEFINE cleared == Cleared(h)
<1>1. cleared = [h EXCEPT !.cache = Empty, !.fingerprints = Empty]
  BY DEF Cleared
<1>. HIDE DEF cleared
<1>2. /\ cleared = [cache |-> cleared.cache, fingerprints |-> cleared.fingerprints,
                    importers |-> cleared.importers, key |-> cleared.key,
                    program |-> cleared.program, ambient |-> cleared.ambient]
      /\ cleared.cache = Empty /\ cleared.fingerprints = Empty /\ cleared.importers = h.importers
      /\ cleared.key = h.key /\ cleared.program = h.program /\ cleared.ambient = h.ambient
  BY <1>1
<1>3. ASSUME NEW ambient
      PROVE  [cleared EXCEPT !.ambient = ambient, !.key = None] =
                [cache |-> Empty, fingerprints |-> Empty, importers |-> h.importers,
                 key |-> None, program |-> h.program, ambient |-> ambient]
  <2>. DEFINE k == [cleared EXCEPT !.ambient = ambient, !.key = None]
  <2>1. k = [cleared EXCEPT !.ambient = ambient, !.key = None]
    OBVIOUS
  <2>. HIDE DEF k
  <2>2. /\ k = [cache |-> k.cache, fingerprints |-> k.fingerprints, importers |-> k.importers,
                key |-> k.key, program |-> k.program, ambient |-> k.ambient]
        /\ k.cache = Empty /\ k.fingerprints = Empty /\ k.importers = h.importers
        /\ k.key = None /\ k.program = h.program /\ k.ambient = ambient
    BY <1>2, <2>1
  <2>. QED
    BY <2>2 DEF k
<1>4. ASSUME NEW key
      PROVE  [cleared EXCEPT !.key = key, !.program = {}] =
                [cache |-> Empty, fingerprints |-> Empty, importers |-> h.importers,
                 key |-> key, program |-> {}, ambient |-> h.ambient]
  <2>. DEFINE k == [cleared EXCEPT !.key = key, !.program = {}]
  <2>1. k = [cleared EXCEPT !.key = key, !.program = {}]
    OBVIOUS
  <2>. HIDE DEF k
  <2>2. /\ k = [cache |-> k.cache, fingerprints |-> k.fingerprints, importers |-> k.importers,
                key |-> k.key, program |-> k.program, ambient |-> k.ambient]
        /\ k.cache = Empty /\ k.fingerprints = Empty /\ k.importers = h.importers
        /\ k.key = key /\ k.program = {} /\ k.ambient = h.ambient
    BY <1>2, <2>1
  <2>. QED
    BY <2>2 DEF k
<1>. QED
  BY <1>2, <1>3, <1>4 DEF cleared

LEMMA ReadEither ==
    ASSUME Typed, Read
    PROVE  /\ Head(stdin) \in Request /\ KeyOf(Head(stdin)) \in Key
           /\ ReadOn(Head(stdin)) \/ ReadAnew(Head(stdin))
<1>1. stdin # <<>> /\ stdin \in Seq(Request)
  BY DEF Typed, TypedWorker, Read
<1>2. Head(stdin) \in Request
  BY <1>1
<1>. DEFINE request == Head(stdin)
<1>3. request.setting.program \in Seq(File) /\ KeyOf(request) \in Key
  BY <1>2, RequestFields, KeyType DEF KeyOf, Typed
<1>4. KeyOf(request) # None
  BY <1>3, WorkerAssumption DEF WorkerAssumption
<1>. DEFINE h == IF held.ambient = request.setting.ambient THEN held
                 ELSE [Cleared(held) EXCEPT !.ambient = request.setting.ambient, !.key = None]
<1>5. IF h.key = KeyOf(request)
      THEN held' = Current(h) /\ run' = Checking(request) /\ missed' = missed
      ELSE /\ held' = [Cleared(h) EXCEPT !.key = KeyOf(request), !.program = {}]
           /\ run' = [phase |-> "loading", request |-> request, todo |-> request.setting.program,
                      stack |-> <<>>]
           /\ missed' = {}
  BY DEF Read, KeyOf
<1>6. held = [cache |-> held.cache, fingerprints |-> held.fingerprints, importers |-> held.importers,
              key |-> held.key, program |-> held.program, ambient |-> held.ambient]
  BY DEF Typed, TypedHeld, HeldType
<1>7. CASE held.ambient = request.setting.ambient
  <2>1. h = held
    BY <1>7
  <2>2. CASE held.key = KeyOf(request)
    BY <1>2, <1>3, <1>5, <1>7, <2>1, <2>2 DEF ReadOn
  <2>3. CASE held.key # KeyOf(request)
    <3>1. [Cleared(held) EXCEPT !.key = KeyOf(request), !.program = {}] =
            [cache |-> Empty, fingerprints |-> Empty, importers |-> held.importers,
             key |-> KeyOf(request), program |-> {}, ambient |-> held.ambient]
      BY <1>6, ClearedFields
    <3>. QED
      BY <1>2, <1>3, <1>5, <1>7, <2>1, <2>3, <3>1 DEF ReadAnew
  <2>. QED
    BY <2>2, <2>3
<1>8. CASE held.ambient # request.setting.ambient
  <2>1. h = [cache |-> Empty, fingerprints |-> Empty, importers |-> held.importers,
             key |-> None, program |-> held.program, ambient |-> request.setting.ambient]
    BY <1>6, <1>8, ClearedFields
  <2>2. h.key # KeyOf(request)
    BY <1>4, <2>1
  <2>3. [Cleared(h) EXCEPT !.key = KeyOf(request), !.program = {}] =
            [cache |-> Empty, fingerprints |-> Empty, importers |-> held.importers,
             key |-> KeyOf(request), program |-> {}, ambient |-> request.setting.ambient]
    <3>. HIDE DEF h
    <3>1. h = [cache |-> h.cache, fingerprints |-> h.fingerprints, importers |-> h.importers,
               key |-> h.key, program |-> h.program, ambient |-> h.ambient]
      BY <2>1
    <3>2. [Cleared(h) EXCEPT !.key = KeyOf(request), !.program = {}] =
            [cache |-> Empty, fingerprints |-> Empty, importers |-> h.importers,
             key |-> KeyOf(request), program |-> {}, ambient |-> h.ambient]
      BY <3>1, ClearedFields
    <3>3. h.importers = held.importers /\ h.ambient = request.setting.ambient
      BY <2>1
    <3>. QED
      BY <3>2, <3>3
  <2>. QED
    BY <1>2, <1>3, <1>5, <2>2, <2>3 DEF ReadAnew
<1>. QED
  BY <1>7, <1>8

\* What each step of a check under way makes of the stack and of what is held: it
\* puts the first on top, or changes the frame there, and leaves the request alone.
Steps(stack) ==
    /\ run'.stack = stack
    /\ run'.phase = run.phase /\ run'.request = run.request /\ run'.todo = run.todo
    /\ TypedRun'

Puts(importers) ==
    held' = [cache |-> held.cache, fingerprints |-> held.fingerprints, importers |-> importers,
             key |-> held.key, program |-> held.program, ambient |-> held.ambient]

LEMMA RunStack ==
    ASSUME TypedRun, NEW stack \in Seq(Frames), run' = [run EXCEPT !.stack = stack]
    PROVE  Steps(stack)
<1>1. /\ run'.stack = stack
      /\ run'.phase = run.phase /\ run'.request = run.request /\ run'.todo = run.todo
      /\ run' = [phase |-> run'.phase, request |-> run'.request, todo |-> run'.todo, stack |-> run'.stack]
  BY DEF TypedRun
<1>. QED
  BY <1>1 DEF Steps, TypedRun

LEMMA HeldPuts ==
    ASSUME TypedHeld, NEW importers \in [File -> SUBSET File], held' = [held EXCEPT !.importers = importers]
    PROVE  Puts(importers) /\ TypedHeld'
<1>1. /\ held' = [cache |-> held'.cache, fingerprints |-> held'.fingerprints, importers |-> held'.importers,
                  key |-> held'.key, program |-> held'.program, ambient |-> held'.ambient]
      /\ held'.cache = held.cache /\ held'.fingerprints = held.fingerprints
      /\ held'.importers = importers /\ held'.key = held.key /\ held'.program = held.program
      /\ held'.ambient = held.ambient
  BY DEF TypedHeld, HeldType
<1>. QED
  BY <1>1 DEF Puts, TypedHeld, HeldType

\* A sequence with another last element.
LEMMA SetLast ==
    ASSUME NEW S, NEW s \in Seq(S), s # <<>>, NEW last \in S
    PROVE  /\ [s EXCEPT ![Len(s)] = last] \in Seq(S)
           /\ Len([s EXCEPT ![Len(s)] = last]) = Len(s)
           /\ \A i \in 1..Len(s) :
                [s EXCEPT ![Len(s)] = last][i] = IF i = Len(s) THEN last ELSE s[i]
<1>. DEFINE t == [s EXCEPT ![Len(s)] = last]
<1>1. Len(s) \in Nat /\ DOMAIN s = 1..Len(s) /\ \A i \in 1..Len(s) : s[i] \in S
  OBVIOUS
<1>2. t \in [1..Len(s) -> S] /\ \A i \in 1..Len(s) : t[i] = IF i = Len(s) THEN last ELSE s[i]
  BY <1>1
<1>3. \A n \in Nat : \A f \in [1..n -> S] : f \in Seq(S) /\ Len(f) = n
  OBVIOUS
<1>4. t \in Seq(S) /\ Len(t) = Len(s)
  BY <1>1, <1>2, <1>3
<1>. QED
  BY <1>2, <1>4

LEMMA ImportLoadedSteps ==
    ASSUME TypedHeld, TypedRun, NEW m \in File, ImportLoaded(m)
    PROVE  /\ run.stack # <<>> /\ m \in DOMAIN held.cache
           /\ Steps([run.stack EXCEPT ![Len(run.stack)] = Imported(Top, held.cache[m])])
           /\ Puts(Noted(m)) /\ TypedHeld'
<1>1. run.stack # <<>> /\ Top.left # <<>> /\ m \in DOMAIN held.cache
  BY DEF ImportLoaded, Importing
<1>2. held.cache[m] \in SUBSET Pair
  BY <1>1 DEF TypedHeld, HeldType
<1>. DEFINE stack == [run.stack EXCEPT ![Len(run.stack)] = Imported(Top, held.cache[m])]
<1>3. Imported(Top, held.cache[m]) \in Frames
  BY <1>1, <1>2, TopFrame, FrameType
<1>4. stack \in Seq(Frames)
  <2>1. run.stack \in Seq(Frames)
    BY DEF TypedRun
  <2>. QED
    BY <1>1, <1>3, <2>1, SetLast
<1>5. run' = [run EXCEPT !.stack = stack]
  BY <1>1, TopFrame DEF ImportLoaded, TypedRun
<1>6. held' = [held EXCEPT !.importers = Noted(m)]
  BY DEF ImportLoaded
<1>. QED
  BY <1>1, <1>4, <1>5, <1>6, RunStack, HeldPuts, NotedType

LEMMA BeginModuleSteps ==
    ASSUME TypedDisk, TypedHeld, TypedRun, NEW m \in File, BeginModule(m)
    PROVE  /\ run.stack # <<>> /\ m \notin DOMAIN held.cache \cup Loading /\ IsThere(m)
           /\ Frame(m, disk[m].text, {<<m, disk[m].text>>}) \in Frames
           /\ Steps(Append(run.stack, Frame(m, disk[m].text, {<<m, disk[m].text>>})))
           /\ Puts(Noted(m)) /\ TypedHeld'
<1>1. run.stack # <<>> /\ Top.left # <<>> /\ m \notin DOMAIN held.cache \cup Loading /\ IsThere(m)
  BY DEF BeginModule, Importing
<1>2. disk[m].text \in Text
  BY <1>1, PrintOf
<1>. DEFINE frame == Frame(m, disk[m].text, {<<m, disk[m].text>>})
<1>3. frame \in Frames
  <2>1. {<<m, disk[m].text>>} \in SUBSET Pair
    BY <1>2 DEF Pair
  <2>. QED
    BY <1>2, <2>1, FrameType
<1>4. Append(run.stack, frame) \in Seq(Frames)
  BY <1>3 DEF TypedRun
<1>5. run' = [run EXCEPT !.stack = Append(run.stack, frame)]
  BY DEF BeginModule
<1>6. held' = [held EXCEPT !.importers = Noted(m)]
  BY DEF BeginModule
<1>. HIDE DEF frame
<1>7. Steps(Append(run.stack, frame))
  BY <1>4, <1>5, RunStack
<1>8. Puts(Noted(m)) /\ TypedHeld'
  BY <1>1, <1>6, HeldPuts, NotedType
<1>. QED
  BY <1>1, <1>3, <1>7, <1>8 DEF frame

LEMMA ImportFailsSteps ==
    ASSUME TypedHeld, TypedRun, Stacked, NEW m \in File, ImportFails(m)
    PROVE  /\ run.stack # <<>>
           /\ \E left \in Seq(File) :
                Steps(<<[file |-> run.stack[1].file, left |-> left, seen |-> run.stack[1].seen]>>)
           /\ Puts(Noted(m)) /\ TypedHeld'
<1>1. run.stack # <<>> /\ Top.left # <<>>
  BY DEF ImportFails, Importing
<1>. DEFINE bottom == run.stack[1]
            left == IF run.phase = "checking" THEN Tail(bottom.left) ELSE <<>>
            after == [bottom EXCEPT !.left = left]
<1>3. bottom \in Frames /\ bottom.left # <<>>
  BY <1>1, TopFrame DEF Stacked
<1>4. run' = [run EXCEPT !.stack = <<after>>] /\ held' = [held EXCEPT !.importers = Noted(m)]
  BY DEF ImportFails
<1>5. left \in Seq(File)
  <2>1. Tail(bottom.left) \in Seq(File) /\ <<>> \in Seq(File)
    BY <1>3 DEF Frames
  <2>. QED
    BY <2>1
<1>. HIDE DEF left
<1>6. after = [file |-> bottom.file, left |-> left, seen |-> bottom.seen] /\ after \in Frames
  <2>1. after = [bottom EXCEPT !.left = left]
    OBVIOUS
  <2>. HIDE DEF after
  <2>2. /\ after = [file |-> after.file, left |-> after.left, seen |-> after.seen]
        /\ after.file = bottom.file /\ after.left = left /\ after.seen = bottom.seen
    BY <1>3, <2>1 DEF Frames
  <2>. QED
    BY <1>3, <1>5, <2>2 DEF Frames
<1>. HIDE DEF after
<1>7. <<after>> \in Seq(Frames)
  BY <1>6
<1>8. Steps(<<after>>)
  BY <1>4, <1>7, RunStack
<1>9. Puts(Noted(m)) /\ TypedHeld'
  BY <1>1, <1>4, HeldPuts, NotedType
<1>. QED
  BY <1>1, <1>5, <1>6, <1>8, <1>9

\* The cache with a module that has run.
Loaded(m, module) ==
    [f \in DOMAIN held.cache \cup {m} |-> IF f = m THEN module ELSE held.cache[f]]

\* What a module that ran holds.
Module == Top.seen \cup (held.program \cup Hosting)

LEMMA EndModuleSteps ==
    ASSUME TypedHeld, TypedRun, Stacked, EndModule
    PROVE  LET n == Len(run.stack) IN
           /\ run.stack # <<>> /\ run.phase # "waiting" /\ n \in Nat /\ 2 <= n
           /\ Top = run.stack[n] /\ Top.file \in File \ DOMAIN held.cache /\ Module \in SUBSET Pair
           /\ \E stack \in Seq(Frames) :
                /\ Steps(stack) /\ Len(stack) = n - 1
                /\ \A i \in 1..(n - 2) : stack[i] = run.stack[i]
                /\ run.stack[n - 1] \in Frames
                /\ stack[n - 1] = Imported(run.stack[n - 1], Module)
           /\ held' = [cache |-> Loaded(Top.file, Module), fingerprints |-> held.fingerprints,
                       importers |-> held.importers, key |-> held.key, program |-> held.program,
                       ambient |-> held.ambient]
           /\ TypedHeld'
<1>. DEFINE n == Len(run.stack)
            below == SubSeq(run.stack, 1, n - 1)
<1>1. n > 1 /\ run.stack # <<>> /\ run.stack \in Seq(Frames) /\ n \in Nat
  BY DEF EndModule, TypedRun
<1>2. run.phase # "waiting"
  BY <1>1 DEF Stacked
<1>3. /\ Top = run.stack[n] /\ Top \in Frames /\ n - 1 \in 1..n /\ n \in 2..n
      /\ run.stack[n - 1] \in Frames /\ Top.seen \subseteq Pair
  <2>1. Top = run.stack[n] /\ Top \in Frames /\ n - 1 \in 1..n /\ n \in 2..n
    BY <1>1, TopFrame
  <2>2. run.stack[n - 1] \in Frames
    BY <1>1, <2>1
  <2>. QED
    BY <2>1, <2>2 DEF Frames
<1>4. Top.file \in File \ DOMAIN held.cache
  BY <1>3 DEF Stacked
<1>5. Module \in SUBSET Pair
  <2>1. Hosting \subseteq Pair
    BY <1>1, TopFrame DEF Hosting, Frames
  <2>. QED
    BY <1>3, <2>1 DEF Module, TypedHeld, HeldType
<1>6. below \in Seq(Frames) /\ Len(below) = n - 1 /\ \A i \in 1..(n - 1) : below[i] = run.stack[i]
  BY <1>1
<1>7. /\ held' = [held EXCEPT !.cache = Loaded(Top.file, Module)]
      /\ run' = [run EXCEPT !.stack = [below EXCEPT ![Len(below)] = Imported(below[Len(below)], Module)]]
  <2>1. Module = Top.seen \cup (held.program \cup (IF run.phase = "loading" THEN run.stack[1].seen ELSE {}))
    BY <1>1 DEF Module, Hosting
  <2>2. Front(run.stack) = below
    BY DEF Front
  <2>. QED
    BY <2>1, <2>2 DEF EndModule, Loaded
<1>. HIDE DEF below
<1>8. below # <<>> /\ below[Len(below)] = run.stack[n - 1]
  BY <1>1, <1>6
<1>9. run.stack[n - 1].left # <<>>
  BY <1>1, <1>3 DEF Stacked
<1>10. Imported(run.stack[n - 1], Module) \in Frames
  BY <1>3, <1>5, <1>9, FrameType
<1>. DEFINE stack == [below EXCEPT ![Len(below)] = Imported(run.stack[n - 1], Module)]
<1>11. /\ stack \in Seq(Frames) /\ Len(stack) = n - 1
       /\ \A i \in 1..(n - 1) : stack[i] = IF i = n - 1 THEN Imported(run.stack[n - 1], Module) ELSE below[i]
  BY <1>6, <1>8, <1>10, SetLast
<1>12. run' = [run EXCEPT !.stack = stack]
  BY <1>7, <1>8
<1>. HIDE DEF stack
<1>13. Steps(stack)
  BY <1>11, <1>12, RunStack
<1>14. /\ \A i \in 1..(n - 2) : stack[i] = run.stack[i]
       /\ stack[n - 1] = Imported(run.stack[n - 1], Module)
  <2>1. n - 1 \in 1..(n - 1) /\ \A i \in 1..(n - 2) : i \in 1..(n - 1) /\ i # n - 1
    BY <1>1
  <2>. QED
    BY <1>6, <1>11, <2>1
<1>15. held' = [cache |-> Loaded(Top.file, Module), fingerprints |-> held.fingerprints,
                importers |-> held.importers, key |-> held.key, program |-> held.program,
                ambient |-> held.ambient]
  <2>1. /\ held' = [cache |-> held'.cache, fingerprints |-> held'.fingerprints, importers |-> held'.importers,
                    key |-> held'.key, program |-> held'.program, ambient |-> held'.ambient]
        /\ held'.cache = Loaded(Top.file, Module) /\ held'.fingerprints = held.fingerprints
        /\ held'.importers = held.importers /\ held'.key = held.key /\ held'.program = held.program
        /\ held'.ambient = held.ambient
    BY <1>7 DEF TypedHeld, HeldType
  <2>. QED
    BY <2>1
<1>16. TypedHeld'
  <2>1. /\ DOMAIN Loaded(Top.file, Module) = DOMAIN held.cache \cup {Top.file}
        /\ Loaded(Top.file, Module) \in [DOMAIN held.cache \cup {Top.file} -> SUBSET Pair]
    BY <1>5 DEF Loaded, TypedHeld, HeldType
  <2>. QED
    BY <1>4, <1>15, <2>1 DEF TypedHeld, HeldType
<1>. QED
  BY <1>1, <1>2, <1>3, <1>4, <1>5, <1>11, <1>13, <1>14, <1>15, <1>16

\* The fingerprints with those of some of what is loaded and not noted yet.
Fingerprinted(files) ==
    [f \in DOMAIN held.fingerprints \cup files |->
        IF f \in files THEN Fingerprint(f) ELSE held.fingerprints[f]]

Notes(files) ==
    held' = [cache |-> held.cache, fingerprints |-> Fingerprinted(files),
             importers |-> held.importers, key |-> held.key, program |-> held.program,
             ambient |-> held.ambient]

LEMMA NotingSteps ==
    ASSUME TypedDisk, TypedHeld, NEW files \in SUBSET Unnoted, held' = Noting(files)
    PROVE  Notes(files) /\ TypedHeld'
<1>1. Notes(files)
  <2>1. held' = [held EXCEPT !.fingerprints = Fingerprinted(files)]
    BY DEF Noting, Fingerprinted
  <2>2. /\ held' = [cache |-> held'.cache, fingerprints |-> held'.fingerprints, importers |-> held'.importers,
                    key |-> held'.key, program |-> held'.program, ambient |-> held'.ambient]
        /\ held'.cache = held.cache /\ held'.fingerprints = Fingerprinted(files)
        /\ held'.importers = held.importers /\ held'.key = held.key /\ held'.program = held.program
        /\ held'.ambient = held.ambient
    BY <2>1 DEF TypedHeld, HeldType
  <2>. QED
    BY <2>2 DEF Notes
<1>2. TypedHeld'
  <2>1. files \subseteq DOMAIN held.cache /\ \A f \in files : Fingerprint(f) \in FilePrint
    BY PrintOf DEF Unnoted, TypedHeld, HeldType
  <2>2. /\ DOMAIN Fingerprinted(files) = DOMAIN held.fingerprints \cup files
        /\ Fingerprinted(files) \in [DOMAIN held.fingerprints \cup files -> FilePrint]
    BY <2>1 DEF Fingerprinted, TypedHeld, HeldType
  <2>. QED
    BY <1>1, <2>1, <2>2 DEF Notes, TypedHeld, HeldType
<1>. QED
  BY <1>1, <1>2

\* A request that is answered, with a report or with an error.
Reports ==
    /\ Notes(Unnoted)
    /\ lost' = lost \ Unnoted
    /\ stdout' = Append(stdout, [request |-> run.request, error |-> FALSE, read |-> run.stack[1].seen,
                                 names |-> [f \in Unnoted |-> disk[f].text]])

ReportsNone ==
    /\ \E files \in SUBSET Unnoted : Notes(files) /\ lost' = lost \cup files
    /\ stdout' = Append(stdout, [Error EXCEPT !.request = run.request])

LEMMA ReplySteps ==
    ASSUME TypedDisk, TypedHeld, TypedRun, Reply \/ ReplyFails
    PROVE  /\ run' = Waiting /\ run.stack # <<>> /\ Len(run.stack) = 1 /\ run.phase = "checking"
           /\ Reports \/ ReportsNone
           /\ TypedHeld' /\ missed' = missed
<1>1. run.stack # <<>> /\ Len(run.stack) = 1 /\ run.phase = "checking" /\ run' = Waiting
  <2>1. Len(run.stack) = 1 /\ run.phase = "checking" /\ run' = Waiting
    BY DEF Reply, ReplyFails, Done
  <2>2. Len(<<>>) # 1
    OBVIOUS
  <2>3. run.stack # <<>>
    BY <2>1, <2>2, Zenon
  <2>. QED
    BY <2>1, <2>3
<1>2. Top = run.stack[1]
  BY <1>1, TopFrame
<1>3. CASE Reply
  <2>1. /\ held' = Noting(Unnoted) /\ lost' = lost \ Unnoted /\ missed' = missed
        /\ stdout' = Append(stdout, [request |-> run.request, error |-> FALSE, read |-> run.stack[1].seen,
                                     names |-> [f \in Unnoted |-> disk[f].text]])
    BY <1>2, <1>3 DEF Reply
  <2>2. Notes(Unnoted) /\ TypedHeld'
    BY <2>1, NotingSteps
  <2>. QED
    BY <1>1, <2>1, <2>2 DEF Reports
<1>4. CASE ReplyFails
  <2>1. PICK files \in SUBSET Unnoted : held' = Noting(files) /\ lost' = lost \cup files
    BY <1>4 DEF ReplyFails
  <2>2. Notes(files) /\ TypedHeld'
    BY <2>1, NotingSteps
  <2>3. stdout' = Append(stdout, [Error EXCEPT !.request = run.request]) /\ missed' = missed
    BY <1>4 DEF ReplyFails
  <2>. QED
    BY <1>1, <2>1, <2>2, <2>3 DEF ReportsNone
<1>. QED
  BY <1>3, <1>4

\* The program of a request, file by file, and then the buffer.
LEMMA ProgramSteps ==
    ASSUME TypedDisk, TypedHeld, TypedRun
    PROVE  /\ BeginProgram =>
                /\ run.phase = "loading" /\ run.stack = <<>> /\ run.todo # <<>> /\ Head(run.todo) \in File
                /\ run'.phase = "loading" /\ run'.request = run.request /\ run'.todo = Tail(run.todo)
                /\ LET f == Head(run.todo) IN
                   IF IsThere(f)
                   THEN /\ disk[f].text \in Text
                        /\ run'.stack = <<Frame(f, disk[f].text, {<<f, disk[f].text>>})>>
                   ELSE run'.stack = <<>>
                /\ held' = held /\ TypedHeld' /\ TypedRun' /\ missed' = missed
           /\ EndProgram =>
                /\ run.phase = "loading" /\ run.stack # <<>> /\ Len(run.stack) = 1
                /\ Steps(<<>>)
                /\ held' = [cache |-> held.cache, fingerprints |-> held.fingerprints,
                            importers |-> held.importers, key |-> held.key,
                            program |-> held.program \cup run.stack[1].seen, ambient |-> held.ambient]
                /\ missed' = missed \cup {pair \in run.stack[1].seen : pair[1] \notin Range(held.key.paths)}
                /\ TypedHeld'
<1>1. <<>> \in Seq(Frames)
  OBVIOUS
<1>2. ASSUME BeginProgram
      PROVE  /\ run.phase = "loading" /\ run.stack = <<>> /\ run.todo # <<>> /\ Head(run.todo) \in File
             /\ run'.phase = "loading" /\ run'.request = run.request /\ run'.todo = Tail(run.todo)
             /\ LET f == Head(run.todo) IN
                IF IsThere(f)
                THEN /\ disk[f].text \in Text
                     /\ run'.stack = <<Frame(f, disk[f].text, {<<f, disk[f].text>>})>>
                ELSE run'.stack = <<>>
             /\ held' = held /\ TypedHeld' /\ TypedRun' /\ missed' = missed
  <2>. DEFINE f == Head(run.todo)
              stack == IF IsThere(f) THEN <<Frame(f, disk[f].text, {<<f, disk[f].text>>})>> ELSE <<>>
  <2>1. /\ run.phase = "loading" /\ run.stack = <<>> /\ run.todo # <<>> /\ held' = held
        /\ missed' = missed
        /\ run' = [run EXCEPT !.todo = Tail(run.todo), !.stack = stack]
    BY <1>2 DEF BeginProgram, history
  <2>2. f \in File /\ Tail(run.todo) \in Seq(File)
    BY <2>1 DEF TypedRun
  <2>3. IsThere(f) => disk[f].text \in Text
    BY <2>2, PrintOf
  <2>4. stack \in Seq(Frames)
    <3>1. CASE IsThere(f)
      <4>1. {<<f, disk[f].text>>} \in SUBSET Pair
        BY <2>2, <2>3, <3>1 DEF Pair
      <4>2. Frame(f, disk[f].text, {<<f, disk[f].text>>}) \in Frames
        BY <2>2, <2>3, <3>1, <4>1, FrameType
      <4>. QED
        BY <3>1, <4>2
    <3>2. CASE ~IsThere(f)
      BY <1>1, <3>2
    <3>. QED
      BY <3>1, <3>2
  <2>. HIDE DEF stack
  <2>5. /\ run'.phase = run.phase /\ run'.request = run.request /\ run'.todo = Tail(run.todo)
        /\ run'.stack = stack
        /\ run' = [phase |-> run'.phase, request |-> run'.request, todo |-> run'.todo, stack |-> run'.stack]
    BY <2>1 DEF TypedRun
  <2>6. TypedRun'
    BY <2>2, <2>4, <2>5 DEF TypedRun
  <2>. QED
    BY <2>1, <2>2, <2>3, <2>5, <2>6 DEF stack, TypedHeld
<1>3. ASSUME EndProgram
      PROVE  /\ run.phase = "loading" /\ run.stack # <<>> /\ Len(run.stack) = 1
             /\ Steps(<<>>)
             /\ held' = [cache |-> held.cache, fingerprints |-> held.fingerprints,
                         importers |-> held.importers, key |-> held.key,
                         program |-> held.program \cup run.stack[1].seen, ambient |-> held.ambient]
             /\ missed' = missed \cup {pair \in run.stack[1].seen : pair[1] \notin Range(held.key.paths)}
             /\ TypedHeld'
  <2>1. /\ run.phase = "loading" /\ Len(run.stack) = 1
        /\ held' = [held EXCEPT !.program = held.program \cup run.stack[1].seen]
        /\ run' = [run EXCEPT !.stack = <<>>]
        /\ missed' = missed \cup {pair \in run.stack[1].seen : pair[1] \notin Range(held.key.paths)}
    BY <1>3 DEF EndProgram
  <2>2. run.stack # <<>>
    <3>1. Len(<<>>) = 0
      OBVIOUS
    <3>. QED
      BY <2>1, <3>1
  <2>3. run.stack[1].seen \in SUBSET Pair
    BY <2>1, <2>2, TopFrame DEF Frames
  <2>4. /\ held' = [cache |-> held'.cache, fingerprints |-> held'.fingerprints, importers |-> held'.importers,
                    key |-> held'.key, program |-> held'.program, ambient |-> held'.ambient]
        /\ held'.cache = held.cache /\ held'.fingerprints = held.fingerprints
        /\ held'.importers = held.importers /\ held'.key = held.key
        /\ held'.program = held.program \cup run.stack[1].seen
        /\ held'.ambient = held.ambient
    BY <2>1 DEF TypedHeld, HeldType
  <2>5. TypedHeld'
    BY <2>3, <2>4 DEF TypedHeld, HeldType
  <2>6. Steps(<<>>)
    BY <1>1, <2>1, RunStack
  <2>. QED
    BY <2>1, <2>2, <2>4, <2>5, <2>6
<1>. QED
  BY <1>2, <1>3

\* Every step of the script but those of a check under way.
LEMMA RequestSteps ==
    ASSUME Typed, Stacked
    PROVE  /\ Read => TypedHeld' /\ TypedRun'
           /\ BeginBuffer =>
                /\ run.phase = "loading" /\ run.stack = <<>> /\ run.todo = <<>>
                /\ held' = Current(held) /\ run' = Checking(run.request) /\ missed' = missed
                /\ run.request \in Request => TypedHeld' /\ TypedRun'
<1>. USE DEF Typed
<1>1. ASSUME Read PROVE TypedHeld' /\ TypedRun'
  <2>1. Head(stdin) \in Request /\ KeyOf(Head(stdin)) \in Key
    BY <1>1, ReadEither
  <2>2. CASE ReadOn(Head(stdin))
    BY <2>1, <2>2, CurrentKeeps, RequestFields DEF ReadOn, TypedHeld, TypedRun
  <2>3. CASE ReadAnew(Head(stdin))
    <3>1. /\ held'.cache = Empty /\ held'.fingerprints = Empty /\ held'.importers = held.importers
          /\ held'.key \in Key /\ held'.program = {}
          /\ held' = [cache |-> held'.cache, fingerprints |-> held'.fingerprints,
                      importers |-> held'.importers, key |-> held'.key, program |-> held'.program,
                      ambient |-> held'.ambient]
      BY <2>1, <2>3 DEF ReadAnew
    <3>2. DOMAIN Empty = {} /\ Empty \in [{} -> SUBSET Pair] /\ Empty \in [{} -> FilePrint]
      BY DEF Empty
    <3>3. TypedHeld'
      BY <3>1, <3>2 DEF TypedHeld, HeldType
    <3>4. Head(stdin).setting.program \in Seq(File)
      BY <2>1, RequestFields
    <3>5. <<>> \in Seq(Frames)
      OBVIOUS
    <3>6. TypedRun'
      BY <2>1, <2>3, <3>4, <3>5 DEF ReadAnew, TypedRun
    <3>. QED
      BY <3>3, <3>6
  <2>. QED
    BY <1>1, <2>2, <2>3, ReadEither
<1>2. BeginBuffer =>
        /\ run.phase = "loading" /\ run.stack = <<>> /\ run.todo = <<>>
        /\ held' = Current(held) /\ run' = Checking(run.request) /\ missed' = missed
  BY DEF BeginBuffer, history
<1>3. ASSUME BeginBuffer, run.request \in Request PROVE TypedHeld' /\ TypedRun'
  BY <1>2, <1>3, CurrentKeeps, RequestFields DEF TypedHeld, TypedRun
<1>. QED
  BY <1>1, <1>2, <1>3

-----------------------------------------------------------------------------
(* The worker and its process: their types, and who has the request. *)

\* A request that is answered leaves one reply.
Sent(reply) == stdout = <<>> /\ stdout' = <<reply>> /\ reply.request = asked

SentReport(reply) ==
    /\ Sent(reply) /\ Reports /\ run.stack # <<>>
    /\ reply.read = run.stack[1].seen /\ reply.names = [f \in Unnoted |-> disk[f].text]

SentError(reply) == Sent(reply) /\ reply.read = {} /\ reply.names = Empty

LEMMA ErrorFields ==
    ASSUME NEW request
    PROVE  LET reply == [Error EXCEPT !.request = request] IN
           reply.request = request /\ reply.read = {} /\ reply.names = Empty
  BY DEF Error

LEMMA ReplySent ==
    ASSUME Typed, OneRequest, Stacked
    PROVE  /\ Reply \/ ReplyFails =>
                \E reply : SentReport(reply) \/ (SentError(reply) /\ ReportsNone)
           /\ ReadFails => \E reply : SentError(reply)
           /\ \A reply : SentReport(reply) \/ SentError(reply) =>
                /\ reply.read \subseteq Pair
                /\ DOMAIN reply.names \subseteq File /\ reply.names \in [DOMAIN reply.names -> Text]
<1>1. ASSUME Reply \/ ReplyFails
      PROVE  \E reply : SentReport(reply) \/ (SentError(reply) /\ ReportsNone)
  <2>1. run.phase = "checking" /\ run.stack # <<>> /\ (Reports \/ ReportsNone)
    BY <1>1, ReplySteps DEF Typed
  <2>2. stdout = <<>> /\ run.request = asked
    BY <2>1 DEF OneRequest, Waiting
  <2>3. CASE Reports
    <3>. DEFINE reply == [request |-> run.request, error |-> FALSE, read |-> run.stack[1].seen,
                          names |-> [f \in Unnoted |-> disk[f].text]]
    <3>1. stdout' = Append(stdout, reply)
      BY <2>3 DEF Reports
    <3>2. /\ reply.request = run.request /\ reply.read = run.stack[1].seen
          /\ reply.names = [f \in Unnoted |-> disk[f].text]
      OBVIOUS
    <3>. HIDE DEF reply
    <3>3. SentReport(reply)
      BY <2>1, <2>2, <2>3, <3>1, <3>2 DEF SentReport, Sent
    <3>. QED
      BY <3>3
  <2>4. CASE ReportsNone
    <3>. DEFINE reply == [Error EXCEPT !.request = run.request]
    <3>1. stdout' = Append(stdout, reply)
      BY <2>4 DEF ReportsNone
    <3>2. reply.request = run.request /\ reply.read = {} /\ reply.names = Empty
      BY ErrorFields
    <3>. HIDE DEF reply
    <3>3. SentError(reply)
      BY <2>2, <3>1, <3>2 DEF SentError, Sent
    <3>. QED
      BY <2>4, <3>3
  <2>. QED
    BY <2>1, <2>3, <2>4
<1>2. ASSUME ReadFails PROVE \E reply : SentError(reply)
  <2>1. run.phase = "waiting" /\ stdin # <<>>
    BY <1>2 DEF ReadFails, Waiting
  <2>2. stdin = <<asked>> /\ stdout = <<>>
    BY <2>1 DEF OneRequest
  <2>3. Head(stdin) = asked
    BY <2>2
  <2>. DEFINE reply == [Error EXCEPT !.request = Head(stdin)]
  <2>4. stdout' = Append(stdout, reply)
    BY <1>2 DEF ReadFails
  <2>5. reply.request = Head(stdin) /\ reply.read = {} /\ reply.names = Empty
    BY ErrorFields
  <2>. HIDE DEF reply
  <2>6. SentError(reply)
    BY <2>2, <2>3, <2>4, <2>5 DEF SentError, Sent
  <2>. QED
    BY <2>6
<1>3. ASSUME NEW reply, SentReport(reply)
      PROVE  /\ reply.read \subseteq Pair
             /\ DOMAIN reply.names \subseteq File /\ reply.names \in [DOMAIN reply.names -> Text]
  <2>1. run.stack[1].seen \subseteq Pair
    BY <1>3, TopFrame DEF SentReport, Frames, Typed
  <2>2. \A f \in Unnoted : f \in File /\ disk[f].text \in Text
    BY PrintOf DEF Unnoted, Typed, TypedHeld, HeldType
  <2>3. reply.names \in [Unnoted -> Text] /\ Unnoted \subseteq File
    BY <1>3, <2>2 DEF SentReport
  <2>. QED
    BY <1>3, <2>1, <2>3 DEF SentReport
<1>4. ASSUME NEW reply, SentError(reply)
      PROVE  /\ reply.read \subseteq Pair
             /\ DOMAIN reply.names \subseteq File /\ reply.names \in [DOMAIN reply.names -> Text]
  <2>1. DOMAIN Empty = {} /\ Empty \in [{} -> Text]
    BY DEF Empty
  <2>. QED
    BY <1>4, <2>1 DEF SentError
<1>. QED
  BY <1>1, <1>2, <1>3, <1>4

LEMMA WorkerTyped == Typed /\ OneRequest /\ Stacked /\ [Next]_vars => TypedWorker'
<1>. SUFFICES ASSUME Typed, OneRequest, Stacked, [Next]_vars PROVE TypedWorker'
  OBVIOUS
<1>. USE DEF Typed
<1>1. ASSUME UNCHANGED <<asked, process, stdin, stdout, names>>,
             \A f \in File : since'[f] \in SUBSET (Text \cup {None}), since' = [f \in File |-> since'[f]]
      PROVE  TypedWorker'
  BY <1>1 DEF TypedWorker
<1>2. CASE UNCHANGED <<asked, process, stdin, stdout, names, since>>
  BY <1>2 DEF TypedWorker
<1>3. ASSUME NEW f \in File, NEW text \in Says[f] \cup {None}, Write(f, text) PROVE TypedWorker'
  <2>1. text \in Text \cup {None}
    BY WorkerAssumption DEF WorkerAssumption
  <2>. QED
    BY <1>3, <2>1 DEF Write, TypedWorker, rust, pipes
<1>4. CASE Exit
  BY <1>4 DEF Exit, rust, history, TypedWorker
<1>5. CASE Receive
  <2>1. stdout = <<Head(stdout)>> /\ stdout' = Tail(stdout)
    BY <1>5 DEF Receive, TypedWorker
  <2>2. stdout' = <<>>
    BY <2>1
  <2>3. names' \in [File -> Text \cup {None}]
    BY <1>5 DEF Receive, TypedWorker
  <2>. QED
    BY <1>5, <2>2, <2>3 DEF Receive, TypedWorker
<1>6. CASE TimeOut \/ Fail
  <2>1. <<>> \in Seq(Request)
    OBVIOUS
  <2>. QED
    BY <1>6, <2>1 DEF TimeOut, GiveUp, Fail, Dropped, TypedWorker
<1>7. ASSUME NEW request \in Request, Ask(request) PROVE TypedWorker'
  <2>1. CASE hung.request = request /\ hung.inputs = Inputs(request)
    BY <1>7, <2>1 DEF Ask, TypedWorker, pipes, history
  <2>2. CASE ~(hung.request = request /\ hung.inputs = Inputs(request))
    <3>1. since' \in [File -> SUBSET (Text \cup {None})]
      BY <1>7, <2>2 DEF Ask, TypedDisk
    <3>2. Append(stdin, request) \in Seq(Request)
      BY DEF TypedWorker
    <3>. QED
      BY <1>7, <2>2, <3>1, <3>2 DEF Ask, TypedWorker
  <2>. QED
    BY <2>1, <2>2
<1>8. CASE Read
  <2>1. Tail(stdin) \in Seq(Request)
    BY <1>8 DEF Read, TypedWorker
  <2>. QED
    BY <1>8, <2>1 DEF Read, rust, TypedWorker
<1>9. CASE Reply \/ ReplyFails \/ ReadFails
  <2>1. PICK reply : SentReport(reply) \/ SentError(reply)
    BY <1>9, ReplySent
  <2>2. /\ stdout' = <<reply>> /\ reply.read \subseteq Pair
        /\ DOMAIN reply.names \subseteq File /\ reply.names \in [DOMAIN reply.names -> Text]
    BY <2>1, ReplySent DEF SentReport, SentError, Sent
  <2>3. Head(stdout') = reply
    BY <2>2
  <2>4. stdin' \in Seq(Request)
    <3>1. Reply \/ ReplyFails => stdin' = stdin
      BY DEF Reply, ReplyFails
    <3>2. ReadFails => stdin' = Tail(stdin) /\ stdin # <<>>
      BY DEF ReadFails
    <3>. QED
      BY <1>9, <3>1, <3>2 DEF TypedWorker
  <2>5. UNCHANGED <<asked, process, names, since>>
    BY <1>9 DEF Reply, ReplyFails, ReadFails, rust, history
  <2>. QED
    BY <2>2, <2>3, <2>4, <2>5 DEF TypedWorker
<1>10. CASE BeginProgram \/ EndProgram \/ BeginBuffer \/ EndModule
            \/ \E m \in File : ImportLoaded(m) \/ BeginModule(m) \/ ImportFails(m)
  BY <1>2, <1>10 DEF BeginProgram, EndProgram, BeginBuffer, EndModule, ImportLoaded, BeginModule,
     ImportFails, rust, pipes, history
<1>. QED
  BY <1>2, <1>3, <1>4, <1>5, <1>6, <1>7, <1>8, <1>9, <1>10
     DEF Next, Outside, Checks, Script, Tick, rust, pipes, history, vars

LEMMA OneRequestKept == Typed /\ OneRequest /\ Stacked /\ [Next]_vars => OneRequest'
<1>. SUFFICES ASSUME Typed, OneRequest, Stacked, [Next]_vars PROVE OneRequest'
  OBVIOUS
<1>1. CASE UNCHANGED <<asked, process, stdin, stdout, held, run>>
  BY <1>1 DEF OneRequest
<1>2. CASE Tick \/ \E f \in File : \E text \in Says[f] \cup {None} : Write(f, text)
  BY <1>1, <1>2 DEF Tick, Write, rust, pipes, script
<1>3. CASE Exit
  BY <1>3 DEF Exit, rust, OneRequest, Waiting
<1>4. CASE Receive
  <2>1. stdout # <<>> /\ stdout' = Tail(stdout) /\ \E reply : stdout = <<reply>>
    BY <1>4 DEF Receive, Typed, TypedWorker
  <2>2. stdout' = <<>>
    BY <2>1
  <2>3. asked' = None /\ UNCHANGED <<process, stdin, held, run>>
    BY <1>4 DEF Receive, script
  <2>. QED
    BY <2>1, <2>2, <2>3 DEF OneRequest
<1>5. CASE TimeOut \/ Fail
  BY <1>5 DEF TimeOut, GiveUp, Fail, Dropped, OneRequest, Waiting
<1>6. ASSUME NEW request \in Request, Ask(request) PROVE OneRequest'
  <2>1. CASE hung.request = request /\ hung.inputs = Inputs(request)
    BY <1>1, <1>6, <2>1 DEF Ask, pipes, script
  <2>2. CASE ~(hung.request = request /\ hung.inputs = Inputs(request))
    <3>1. /\ asked = None /\ asked' = request /\ stdin' = Append(stdin, request)
          /\ process' = IF process = "none" THEN "running" ELSE process
          /\ UNCHANGED <<stdout, held, run>>
      BY <1>6, <2>2 DEF Ask, script
    <3>2. stdin = <<>> /\ stdout = <<>> /\ run = Waiting
      BY <3>1 DEF OneRequest
    <3>3. stdin' = <<asked'>> /\ asked' # None
      BY <3>1, <3>2, WorkerAssumption DEF WorkerAssumption
    <3>. QED
      BY <3>1, <3>2, <3>3 DEF OneRequest
  <2>. QED
    BY <2>1, <2>2
<1>7. CASE Read
  <2>1. /\ process = "running" /\ run = Waiting /\ stdin # <<>> /\ stdin' = Tail(stdin)
        /\ UNCHANGED <<asked, process, stdout>>
    BY <1>7 DEF Read, rust
  <2>2. run.phase = "waiting"
    BY <2>1 DEF Waiting
  <2>3. stdin = <<asked>> /\ stdout = <<>> /\ asked # None
    BY <2>1, <2>2 DEF OneRequest
  <2>4. stdin' = <<>> /\ Head(stdin) = asked
    BY <2>1, <2>3
  <2>5. run'.phase # "waiting" /\ run'.request = asked
    BY <1>7, <2>4, ReadEither, RequestFields DEF ReadOn, ReadAnew
  <2>. QED
    BY <2>1, <2>3, <2>4, <2>5 DEF OneRequest
<1>8. CASE Reply \/ ReplyFails \/ ReadFails
  <2>1. PICK reply : SentReport(reply) \/ SentError(reply)
    BY <1>8, ReplySent
  <2>2. stdout' = <<reply>> /\ reply.request = asked
    BY <2>1 DEF SentReport, SentError, Sent
  <2>3. Head(stdout') = reply /\ stdout' # <<>>
    BY <2>2
  <2>4. run' = Waiting /\ stdin' = <<>> /\ asked # None /\ process = "running"
    <3>1. CASE Reply \/ ReplyFails
      <4>1. run' = Waiting /\ stdin' = stdin /\ run.phase = "checking"
        BY <3>1 DEF Reply, ReplyFails, Done
      <4>. QED
        BY <4>1 DEF OneRequest, Waiting, Typed, TypedWorker
    <3>2. CASE ReadFails
      <4>1. /\ process = "running" /\ run = Waiting /\ run.phase = "waiting" /\ stdin # <<>>
            /\ stdin' = Tail(stdin) /\ run' = run
        BY <3>2 DEF ReadFails, Waiting, script
      <4>2. stdin = <<asked>> /\ asked # None
        BY <4>1 DEF OneRequest
      <4>. QED
        BY <4>1, <4>2
    <3>. QED
      BY <1>8, <3>1, <3>2
  <2>5. UNCHANGED <<asked, process>>
    BY <1>8 DEF Reply, ReplyFails, ReadFails, rust
  <2>. QED
    BY <2>2, <2>3, <2>4, <2>5 DEF OneRequest
<1>9. ASSUME run'.phase \in {"loading", "checking"}, run'.request = run.request, run.phase # "waiting",
             UNCHANGED <<asked, process, stdin, stdout>>
      PROVE  OneRequest'
  <2>1. process = "running"
    BY <1>9 DEF OneRequest, Waiting, Typed, TypedWorker
  <2>. QED
    BY <1>9, <2>1 DEF OneRequest, Waiting
<1>10. run.phase # "waiting" => run.request \in Request
  BY WorkerAssumption DEF OneRequest, Waiting, Typed, TypedWorker
<1>11. CASE BeginProgram \/ EndProgram \/ BeginBuffer
  <2>1. UNCHANGED <<asked, process, stdin, stdout>> /\ run.phase = "loading"
    BY <1>11 DEF BeginProgram, EndProgram, BeginBuffer, rust, pipes
  <2>2. run'.phase \in {"loading", "checking"} /\ run'.request = run.request
    BY <1>10, <1>11, <2>1, ProgramSteps, RequestSteps, RequestFields DEF Steps, Typed
  <2>. QED
    BY <1>9, <2>1, <2>2
<1>12. CASE EndModule \/ \E m \in File : ImportLoaded(m) \/ BeginModule(m) \/ ImportFails(m)
  <2>1. UNCHANGED <<asked, process, stdin, stdout>>
    BY <1>12 DEF EndModule, ImportLoaded, BeginModule, ImportFails, rust, pipes
  <2>2. run'.phase = run.phase /\ run'.request = run.request /\ run.stack # <<>>
    BY <1>12, EndModuleSteps, ImportLoadedSteps, BeginModuleSteps, ImportFailsSteps DEF Steps, Typed
  <2>3. run.phase \in {"loading", "checking"}
    BY <2>2 DEF Stacked, Typed, TypedRun
  <2>. QED
    BY <1>9, <2>1, <2>2, <2>3
<1>. QED
  BY <1>1, <1>2, <1>3, <1>4, <1>5, <1>6, <1>7, <1>8, <1>11, <1>12
     DEF Next, Outside, Checks, Script, vars, rust, pipes, script

LEMMA HeldRunTyped == Typed /\ OneRequest /\ Stacked /\ [Next]_vars => TypedHeld' /\ TypedRun'
<1>. SUFFICES ASSUME Typed, OneRequest, Stacked, [Next]_vars PROVE TypedHeld' /\ TypedRun'
  OBVIOUS
<1>1. CASE UNCHANGED <<held, run>>
  BY <1>1 DEF Typed, TypedHeld, TypedRun
<1>2. CASE held' = Fresh /\ run' = Waiting
  <2>1. DOMAIN Empty = {} /\ Empty \in [{} -> SUBSET Pair] /\ Empty \in [{} -> FilePrint]
    BY DEF Empty
  <2>2. <<>> \in Seq(File) /\ <<>> \in Seq(Frames)
    OBVIOUS
  <2>. QED
    BY <1>2, <2>1, <2>2 DEF Fresh, Waiting, TypedHeld, HeldType, TypedRun
<1>3. CASE Script
  <2>1. run.phase # "waiting" => run.request \in Request
    BY WorkerAssumption DEF OneRequest, Waiting, Typed, TypedWorker
  <2>2. CASE Read \/ BeginBuffer
    BY <2>1, <2>2, RequestSteps
  <2>3. CASE BeginProgram \/ EndProgram
    BY <2>3, ProgramSteps DEF Steps, Typed
  <2>4. CASE EndModule
    BY <2>4, EndModuleSteps DEF Steps, Typed
  <2>5. CASE Reply \/ ReplyFails
    <3>1. <<>> \in Seq(File) /\ <<>> \in Seq(Frames)
      OBVIOUS
    <3>2. run' = Waiting /\ TypedHeld'
      BY <2>5, ReplySteps DEF Typed
    <3>. QED
      BY <3>1, <3>2 DEF TypedRun, Waiting
  <2>6. ASSUME NEW m \in File, ImportLoaded(m) \/ BeginModule(m) \/ ImportFails(m)
        PROVE  TypedHeld' /\ TypedRun'
    BY <2>6, ImportLoadedSteps, BeginModuleSteps, ImportFailsSteps DEF Steps, Typed
  <2>. QED
    BY <1>1, <1>3, <2>2, <2>3, <2>4, <2>5, <2>6 DEF Script, ReadFails, script
<1>4. CASE Outside \/ Checks
  <2>1. UNCHANGED <<held, run>> \/ (held' = Fresh /\ run' = Waiting)
    BY <1>4 DEF Outside, Checks, Tick, Exit, Write, Receive, TimeOut, GiveUp, Fail, Ask, Dropped, script
  <2>. QED
    BY <1>1, <1>2, <2>1
<1>. QED
  BY <1>1, <1>3, <1>4 DEF Next, vars, script

LEMMA AllTyped == Typed /\ OneRequest /\ Stacked /\ [Next]_vars => Typed'
  BY DiskSteps, WorkerTyped, HeldRunTyped DEF Typed

-----------------------------------------------------------------------------
(* The stack. *)

LEMMA StackedFresh == held' = Fresh /\ run' = Waiting => Stacked'
  BY DEF Stacked, Fresh, Waiting

LEMMA StackedLoaded ==
    ASSUME Typed, Stacked, NEW m \in File, ImportLoaded(m)
    PROVE  Stacked'
<1>. DEFINE n == Len(run.stack)
<1>1. /\ n \in Nat \ {0} /\ DOMAIN run.stack = 1..n /\ run.stack \in Seq(Frames) /\ Top \in Frames
      /\ run.stack # <<>> /\ Top = run.stack[n]
  BY ImportLoadedSteps, TopFrame DEF Typed, TypedRun
<1>2. /\ held.cache[m] \in SUBSET Pair /\ Top.left # <<>>
  BY ImportLoadedSteps DEF ImportLoaded, Importing, Typed, TypedHeld, HeldType
<1>3. Imported(Top, held.cache[m]) \in Frames /\ Imported(Top, held.cache[m]).file = Top.file
  BY <1>1, <1>2, FrameType DEF Imported, Frames
<1>4. /\ run'.phase = run.phase /\ run'.todo = run.todo
      /\ Len(run'.stack) = n
      /\ \A i \in 1..n : run'.stack[i] = IF i = n THEN Imported(Top, held.cache[m]) ELSE run.stack[i]
  <2>. DEFINE frame == Imported(Top, held.cache[m])
  <2>1. /\ run'.stack = [run.stack EXCEPT ![Len(run.stack)] = frame]
        /\ run'.phase = run.phase /\ run'.todo = run.todo
    BY ImportLoadedSteps DEF Steps, Typed
  <2>. HIDE DEF frame
  <2>2. frame \in Frames
    BY <1>3 DEF frame
  <2>3. /\ Len([run.stack EXCEPT ![Len(run.stack)] = frame]) = Len(run.stack)
        /\ \A i \in 1..Len(run.stack) : [run.stack EXCEPT ![Len(run.stack)] = frame][i] =
                IF i = Len(run.stack) THEN frame ELSE run.stack[i]
    BY <1>1, <2>2, SetLast
  <2>. QED
    BY <2>1, <2>3 DEF frame
<1>5. /\ held'.cache = held.cache /\ held'.fingerprints = held.fingerprints
      /\ \A f \in File : held.importers[f] \subseteq held'.importers[f]
  <2>1. Puts(Noted(m))
    BY ImportLoadedSteps DEF Typed
  <2>2. \A f \in File : held.importers[f] \subseteq Noted(m)[f]
    BY <1>1, NotedType DEF Typed
  <2>. QED
    BY <2>1, <2>2 DEF Puts
<1>6. run.phase # "waiting"
  BY <1>1 DEF Stacked
<1>7. \A i \in 1..n : run'.stack[i].file = run.stack[i].file
  BY <1>1, <1>3, <1>4
<1>8. \A i \in 1..(n - 1) : run'.stack[i] = run.stack[i] /\ i \in 1..n
  BY <1>1, <1>4
<1>9. run'.stack # <<>>
  BY <1>1, <1>4, <1>6, TopFrame
<1>10. run'.stack[1].file = run.stack[1].file
  <2>1. 1 \in 1..n
    BY <1>1
  <2>. QED
    BY <1>7, <2>1
<1>11. \A i \in 2..n : run'.stack[i].file \in File \ DOMAIN held'.cache
  <2>1. \A i \in 2..n : i \in 1..n
    OBVIOUS
  <2>. QED
    BY <1>5, <1>7, <2>1 DEF Stacked
<1>12. \A i, j \in 2..n : run'.stack[i].file = run'.stack[j].file => i = j
  <2>1. \A i \in 2..n : i \in 1..n
    OBVIOUS
  <2>. QED
    BY <1>7, <2>1 DEF Stacked
<1>13. \A i \in 1..(n - 1) : run'.stack[i].left # <<>>
  BY <1>8 DEF Stacked
<1>14. \A i \in 2..(n - 1) : run'.stack[i].file \in held'.importers[run'.stack[i + 1].file]
  <2>1. \A i \in 2..(n - 1) : i \in 1..n /\ i + 1 \in 1..n /\ i + 1 \in 2..n
    BY <1>1
  <2>2. \A i \in 2..(n - 1) : run.stack[i].file \in held.importers[run.stack[i + 1].file]
    BY DEF Stacked
  <2>3. \A i \in 2..n : run.stack[i].file \in File
    BY DEF Stacked
  <2>. QED
    BY <1>5, <1>7, <2>1, <2>2, <2>3
<1>. QED
  BY <1>1, <1>4, <1>6, <1>9, <1>10, <1>11, <1>12, <1>13, <1>14 DEF Stacked

LEMMA StackedBegun ==
    ASSUME Typed, Stacked, NEW m \in File, BeginModule(m)
    PROVE  Stacked'
<1>. DEFINE n == Len(run.stack)
            frame == Frame(m, disk[m].text, {<<m, disk[m].text>>})
<1>1. /\ n \in Nat \ {0} /\ DOMAIN run.stack = 1..n /\ run.stack \in Seq(Frames) /\ Top \in Frames
      /\ run.stack # <<>> /\ Top = run.stack[n] /\ m \notin DOMAIN held.cache \cup Loading /\ IsThere(m)
  BY BeginModuleSteps, TopFrame DEF Typed, TypedRun
<1>2. Top.left # <<>>
  BY DEF BeginModule, Importing
<1>3. run.phase # "waiting"
  BY <1>1 DEF Stacked
<1>4. frame \in Frames /\ frame.file = m /\ run'.stack = Append(run.stack, frame) /\ run'.phase = run.phase
  BY <1>3, BeginModuleSteps DEF Steps, Typed, Frame
<1>. HIDE DEF frame
<1>5. /\ Len(run'.stack) = n + 1 /\ run'.stack # <<>> /\ run'.stack[n + 1].file = m
      /\ \A i \in 1..n : run'.stack[i] = run.stack[i]
  BY <1>1, <1>4
<1>6. Puts(Noted(m))
  BY BeginModuleSteps DEF Typed
<1>7. /\ held'.cache = held.cache
      /\ \A f \in File : held.importers[f] \subseteq held'.importers[f]
      /\ Top.file # None => Top.file \in held'.importers[m]
  BY <1>1, <1>6, NotedType DEF Puts, Typed
<1>8. \A i \in 2..(n + 1) : i \in 1..n \/ i = n + 1
  BY <1>1
<1>9. \A i \in 2..n : run.stack[i].file \in Loading /\ run.stack[i].file \in File \ DOMAIN held.cache
  BY DEF Stacked, Loading
<1>10. run'.stack[1].file = run.stack[1].file
  BY <1>1, <1>5
<1>11. \A i \in 2..(n + 1) : run'.stack[i].file \in File \ DOMAIN held'.cache
  <2>1. \A i \in 2..(n + 1) : i = n + 1 \/ (i \in 1..n /\ i \in 2..n)
    BY <1>1
  <2>2. m \in File \ DOMAIN held'.cache
    BY <1>1, <1>7
  <2>3. \A i \in 2..n : run.stack[i].file \in File \ DOMAIN held'.cache
    BY <1>7, <1>9
  <2>. QED
    BY <1>5, <2>1, <2>2, <2>3
<1>12. \A i, j \in 2..(n + 1) : run'.stack[i].file = run'.stack[j].file => i = j
  <2>1. SUFFICES ASSUME NEW i \in 2..(n + 1), NEW j \in 2..(n + 1),
                        run'.stack[i].file = run'.stack[j].file
                 PROVE  i = j
    OBVIOUS
  <2>2. CASE i # n + 1 /\ j # n + 1
    <3>1. i \in 2..n /\ j \in 2..n
      BY <1>1, <2>2
    <3>2. run.stack[i].file = run.stack[j].file
      BY <1>5, <1>8, <2>1, <2>2
    <3>. QED
      BY <3>1, <3>2 DEF Stacked
  <2>3. CASE i = n + 1 /\ j # n + 1
    <3>1. j \in 2..n /\ j \in 1..n
      BY <1>1, <2>3
    <3>. QED
      BY <1>1, <1>5, <1>9, <2>1, <2>3, <3>1
  <2>4. CASE i # n + 1 /\ j = n + 1
    <3>1. i \in 2..n /\ i \in 1..n
      BY <1>1, <2>4
    <3>. QED
      BY <1>1, <1>5, <1>9, <2>1, <2>4, <3>1
  <2>. QED
    BY <2>2, <2>3, <2>4
<1>13. \A i \in 1..n : run'.stack[i].left # <<>>
  <2>1. \A i \in 1..n : i \in 1..(n - 1) \/ i = n
    BY <1>1
  <2>. QED
    BY <1>1, <1>2, <1>5, <2>1 DEF Stacked
<1>14. \A i \in 2..n : run'.stack[i].file \in held'.importers[run'.stack[i + 1].file]
  <2>1. ASSUME NEW i \in 2..n, i # n
        PROVE  run'.stack[i].file \in held'.importers[run'.stack[i + 1].file]
    <3>1. i \in 2..(n - 1) /\ i \in 1..n /\ i + 1 \in 1..n /\ i + 1 \in 2..n
      BY <1>1, <2>1
    <3>2. run.stack[i].file \in held.importers[run.stack[i + 1].file]
      BY <3>1 DEF Stacked
    <3>. QED
      BY <1>5, <1>7, <1>9, <3>1, <3>2
  <2>2. ASSUME NEW i \in 2..n, i = n
        PROVE  run'.stack[i].file \in held'.importers[run'.stack[i + 1].file]
    <3>1. Top.file \in File /\ i \in 1..n
      BY <1>1, <1>9, <2>2
    <3>2. Top.file # None
      BY <3>1, WorkerAssumption DEF WorkerAssumption
    <3>. QED
      BY <1>1, <1>5, <1>7, <2>2, <3>1, <3>2
  <2>. QED
    BY <2>1, <2>2
<1>15. n + 1 - 1 = n
  BY <1>1
<1>. QED
  BY <1>1, <1>3, <1>4, <1>5, <1>10, <1>11, <1>12, <1>13, <1>14, <1>15 DEF Stacked

LEMMA StackedFails ==
    ASSUME Typed, Stacked, NEW m \in File, ImportFails(m)
    PROVE  Stacked'
<1>1. run.phase # "waiting" /\ run.stack # <<>>
  BY ImportFailsSteps DEF Typed, Stacked
<1>2. PICK left \in Seq(File) :
        Steps(<<[file |-> run.stack[1].file, left |-> left, seen |-> run.stack[1].seen]>>)
  BY ImportFailsSteps DEF Typed
<1>3. /\ run'.phase = run.phase /\ Len(run'.stack) = 1 /\ run'.stack # <<>>
      /\ run'.stack[1].file = run.stack[1].file
  BY <1>2 DEF Steps
<1>. QED
  BY <1>1, <1>3 DEF Stacked

LEMMA StackedEnded ==
    ASSUME Typed, Stacked, EndModule
    PROVE  Stacked'
<1>. DEFINE n == Len(run.stack)
<1>1. /\ run.stack # <<>> /\ run.phase # "waiting" /\ n \in Nat /\ 2 <= n
      /\ Top = run.stack[n] /\ Top.file \in File \ DOMAIN held.cache
      /\ run.stack[n - 1] \in Frames
  BY EndModuleSteps DEF Typed
<1>2. PICK stack \in Seq(Frames) :
        /\ Steps(stack) /\ Len(stack) = n - 1
        /\ \A i \in 1..(n - 2) : stack[i] = run.stack[i]
        /\ stack[n - 1] = Imported(run.stack[n - 1], Module)
  BY EndModuleSteps DEF Typed
<1>3. /\ held'.importers = held.importers /\ DOMAIN held'.cache = DOMAIN held.cache \cup {Top.file}
  BY EndModuleSteps DEF Typed, Loaded
<1>4. Imported(run.stack[n - 1], Module).file = run.stack[n - 1].file
  BY <1>1 DEF Imported, Frames
<1>5. /\ run'.phase = run.phase /\ run'.stack = stack /\ Len(run'.stack) = n - 1
      /\ \A i \in 1..(n - 2) : run'.stack[i] = run.stack[i]
      /\ \A i \in 1..(n - 1) : run'.stack[i].file = run.stack[i].file
  <2>1. \A i \in 1..(n - 1) : i \in 1..(n - 2) \/ i = n - 1
    BY <1>1
  <2>. QED
    BY <1>1, <1>2, <1>4, <2>1 DEF Steps
<1>6. run'.stack # <<>> /\ run'.stack[1].file = run.stack[1].file
  <2>1. 1 \in 1..(n - 1) /\ Len(stack) # 0
    BY <1>1, <1>2
  <2>. QED
    BY <1>1, <1>5, <2>1
<1>7. \A i \in 2..(n - 1) : run'.stack[i].file \in File \ DOMAIN held'.cache
  <2>1. \A i \in 2..(n - 1) : i \in 1..(n - 1) /\ i \in 2..n /\ n \in 2..n /\ i # n
    BY <1>1
  <2>2. \A i \in 2..(n - 1) : run.stack[i].file \in File \ DOMAIN held.cache /\ run.stack[i].file # run.stack[n].file
    BY <2>1 DEF Stacked
  <2>. QED
    BY <1>1, <1>3, <1>5, <2>1, <2>2
<1>8. \A i, j \in 2..(n - 1) : run'.stack[i].file = run'.stack[j].file => i = j
  <2>1. \A i \in 2..(n - 1) : i \in 1..(n - 1) /\ i \in 2..n
    BY <1>1
  <2>. QED
    BY <1>5, <2>1 DEF Stacked
<1>9. \A i \in 1..(n - 1 - 1) : run'.stack[i].left # <<>>
  <2>1. \A i \in 1..(n - 1 - 1) : i \in 1..(n - 2) /\ i \in 1..(n - 1)
    BY <1>1
  <2>. QED
    BY <1>5, <2>1 DEF Stacked
<1>10. \A i \in 2..(n - 1 - 1) : run'.stack[i].file \in held'.importers[run'.stack[i + 1].file]
  <2>1. \A i \in 2..(n - 1 - 1) : i \in 1..(n - 1) /\ i + 1 \in 1..(n - 1) /\ i \in 2..(n - 1)
    BY <1>1
  <2>. QED
    BY <1>3, <1>5, <2>1 DEF Stacked
<1>. QED
  BY <1>1, <1>5, <1>6, <1>7, <1>8, <1>9, <1>10 DEF Stacked

\* A buffer that begins to run is alone, and so is a file of a program.
LEMMA StackedProgram ==
    ASSUME Typed, OneRequest, Stacked,
           Read \/ BeginProgram \/ EndProgram \/ BeginBuffer \/ Reply \/ ReplyFails
    PROVE  Stacked'
<1>1. ASSUME NEW request, run' = Checking(request) PROVE Stacked'
  <2>1. /\ run'.phase = "checking" /\ Len(run'.stack) = 1 /\ run'.stack # <<>>
        /\ run'.stack[1].file = None
    BY <1>1 DEF Checking, Frame
  <2>. QED
    BY <2>1 DEF Stacked
<1>2. ASSUME run'.phase = "loading", run'.stack = <<>> PROVE Stacked'
  <2>1. Len(run'.stack) = 0
    BY <1>2
  <2>. QED
    BY <1>2, <2>1 DEF Stacked
<1>3. CASE Read
  <2>1. CASE ReadOn(Head(stdin))
    BY <1>1, <2>1 DEF ReadOn
  <2>2. CASE ReadAnew(Head(stdin))
    BY <1>2, <2>2 DEF ReadAnew
  <2>. QED
    BY <1>3, <2>1, <2>2, ReadEither
<1>4. CASE BeginProgram
  <2>. DEFINE f == Head(run.todo)
  <2>1. /\ f \in File /\ run'.phase = "loading"
        /\ IF IsThere(f)
           THEN run'.stack = <<Frame(f, disk[f].text, {<<f, disk[f].text>>})>>
           ELSE run'.stack = <<>>
    BY <1>4, ProgramSteps DEF Typed
  <2>. HIDE DEF f
  <2>2. CASE IsThere(f)
    <3>1. PICK frame : run'.stack = <<frame>> /\ frame.file = f
      BY <2>1, <2>2 DEF Frame
    <3>2. Len(run'.stack) = 1 /\ run'.stack # <<>> /\ run'.stack[1].file \in File
      BY <2>1, <3>1
    <3>. QED
      BY <2>1, <3>2 DEF Stacked
  <2>3. CASE ~IsThere(f)
    BY <1>2, <2>1, <2>3
  <2>. QED
    BY <2>2, <2>3
<1>5. CASE EndProgram
  BY <1>2, <1>5, ProgramSteps DEF Steps, Typed
<1>6. CASE BeginBuffer
  BY <1>1, <1>6, RequestSteps
<1>7. CASE Reply \/ ReplyFails
  <2>1. run'.phase = "waiting" /\ run'.stack = <<>> /\ Len(run'.stack) = 0
    BY <1>7, ReplySteps DEF Waiting, Typed
  <2>. QED
    BY <2>1 DEF Stacked
<1>. QED
  BY <1>3, <1>4, <1>5, <1>6, <1>7

LEMMA StackedKept == Typed /\ OneRequest /\ Stacked /\ [Next]_vars => Stacked'
<1>. SUFFICES ASSUME Typed, OneRequest, Stacked, [Next]_vars PROVE Stacked'
  OBVIOUS
<1>1. CASE UNCHANGED <<held, run>>
  BY <1>1 DEF Stacked
<1>2. CASE Outside \/ Checks
  <2>1. UNCHANGED <<held, run>> \/ (held' = Fresh /\ run' = Waiting)
    BY <1>2 DEF Outside, Checks, Tick, Exit, Write, Receive, TimeOut, GiveUp, Fail, Ask, Dropped, script
  <2>. QED
    BY <1>1, <2>1, StackedFresh
<1>3. CASE Script
  <2>1. CASE ReadFails
    BY <1>1, <2>1 DEF ReadFails, script
  <2>. QED
    BY <1>3, <2>1, StackedProgram, StackedLoaded, StackedBegun, StackedFails, StackedEnded DEF Script
<1>. QED
  BY <1>1, <1>2, <1>3 DEF Next, vars, script

-----------------------------------------------------------------------------
(* What is missed, and what is apart. *)

\* Nothing is loaded, and nothing runs.
Emptied == held.cache = Empty /\ held.program = {} /\ run.stack = <<>>

\* Nothing that was missed is forgotten while something is loaded.
LEMMA MissedGrows ==
    ASSUME Typed, OneRequest, [Next]_vars
    PROVE  Emptied' \/ missed \subseteq missed'
<1>1. CASE missed' = missed
  BY <1>1
<1>2. ASSUME NEW f \in File, NEW text \in Says[f] \cup {None}, Write(f, text)
      PROVE  missed \subseteq missed'
  BY <1>2 DEF Write
<1>3. ASSUME NEW request \in Request, Ask(request) PROVE Emptied' \/ missed \subseteq missed'
  <2>1. UNCHANGED <<held, run>>
    BY <1>3 DEF Ask, script
  <2>2. process = "none" => Emptied
    BY DEF OneRequest, Fresh, Waiting, Emptied
  <2>3. process # "none" => missed' = missed
    BY <1>3 DEF Ask, history
  <2>. QED
    BY <2>1, <2>2, <2>3 DEF Emptied
<1>4. CASE Read
  BY <1>4, ReadEither DEF ReadOn, ReadAnew, Emptied
<1>5. CASE EndProgram
  BY <1>5 DEF EndProgram
<1>6. CASE Receive \/ TimeOut \/ Fail \/ Exit \/ Tick
  BY <1>1, <1>6 DEF Receive, TimeOut, GiveUp, Fail, Exit, Tick, history
<1>7. CASE ReadFails \/ BeginProgram \/ BeginBuffer \/ EndModule \/ Reply \/ ReplyFails
           \/ \E m \in File : ImportLoaded(m) \/ BeginModule(m) \/ ImportFails(m)
  BY <1>1, <1>7 DEF ReadFails, BeginProgram, BeginBuffer, EndModule, Reply, ReplyFails,
     ImportLoaded, BeginModule, ImportFails, history
<1>. QED
  BY <1>1, <1>2, <1>3, <1>4, <1>5, <1>6, <1>7 DEF Next, Outside, Checks, Script, vars, history

\* Nor while something runs.
LEMMA MissedOn ==
    ASSUME Typed, OneRequest, [Next]_vars, run.phase # "waiting"
    PROVE  missed \subseteq missed'
<1>1. run # Waiting /\ process = "running"
  BY DEF OneRequest, Waiting
<1>2. ASSUME NEW f \in File, NEW text \in Says[f] \cup {None}, Write(f, text)
      PROVE  missed \subseteq missed'
  BY <1>2 DEF Write
<1>3. ASSUME NEW request \in Request, Ask(request) PROVE missed' = missed
  BY <1>1, <1>3 DEF Ask, history
<1>4. CASE Receive \/ TimeOut \/ Fail \/ Exit \/ Tick
  BY <1>4 DEF Receive, TimeOut, GiveUp, Fail, Exit, Tick, history
<1>5. CASE EndProgram
  BY <1>5 DEF EndProgram
<1>6. CASE BeginProgram \/ BeginBuffer \/ EndModule \/ Reply \/ ReplyFails
           \/ \E m \in File : ImportLoaded(m) \/ BeginModule(m) \/ ImportFails(m)
  BY <1>6 DEF BeginProgram, BeginBuffer, EndModule, Reply, ReplyFails,
     ImportLoaded, BeginModule, ImportFails, history
<1>7. ~Read /\ ~ReadFails
  BY <1>1 DEF Read, ReadFails
<1>. QED
  BY <1>2, <1>3, <1>4, <1>5, <1>6, <1>7 DEF Next, Outside, Checks, Script, vars, history

\* Nor is what the program brought.
LEMMA ApartGrows ==
    ASSUME Typed, OneRequest, Stacked, [Next]_vars
    PROVE  Emptied' \/ Apart \subseteq Apart'
<1>1. ASSUME Hosting = {}, held'.program = held.program
      PROVE  Emptied' \/ Apart \subseteq Apart'
  BY <1>1, MissedGrows DEF Apart
<1>2. ASSUME held'.program = held.program, run'.phase = run.phase, run'.stack # <<>>,
             run.stack[1].seen \subseteq run'.stack[1].seen
      PROVE  Emptied' \/ Apart \subseteq Apart'
  BY <1>2, MissedGrows DEF Apart, Hosting
<1>3. CASE UNCHANGED <<held, run>>
  BY <1>3, MissedGrows DEF Apart, Hosting
<1>4. CASE Outside \/ Checks
  <2>1. UNCHANGED <<held, run>> \/ (held' = Fresh /\ run' = Waiting)
    BY <1>4 DEF Outside, Checks, Tick, Exit, Write, Receive, TimeOut, GiveUp, Fail, Ask, Dropped, script
  <2>. QED
    BY <1>3, <2>1 DEF Fresh, Waiting, Emptied
<1>5. CASE Read
  <2>1. Hosting = {}
    BY <1>5 DEF Read, Waiting, Hosting
  <2>2. Emptied' \/ held'.program = held.program
    BY <1>5, ReadEither, CurrentKeeps DEF ReadOn, ReadAnew, Typed, TypedHeld, Emptied
  <2>. QED
    BY <1>1, <2>1, <2>2
<1>6. CASE BeginProgram
  <2>1. Hosting = {} /\ held' = held
    BY <1>6 DEF BeginProgram, Hosting
  <2>. QED
    BY <1>1, <2>1
<1>7. CASE EndProgram
  <2>1. run.stack # <<>> /\ held'.program = held.program \cup run.stack[1].seen
    BY <1>7, ProgramSteps DEF Typed
  <2>. QED
    BY <2>1, MissedGrows DEF Apart, Hosting
<1>8. CASE BeginBuffer
  <2>1. Hosting = {} /\ held' = Current(held)
    BY <1>8 DEF BeginBuffer, Hosting
  <2>. QED
    BY <1>1, <2>1, CurrentKeeps DEF Typed, TypedHeld
<1>9. CASE EndModule
  <2>. DEFINE n == Len(run.stack)
  <2>1. /\ n \in Nat /\ 2 <= n /\ held'.program = held.program /\ run.stack[n - 1] \in Frames
    BY <1>9, EndModuleSteps DEF Typed
  <2>2. PICK stack \in Seq(Frames) :
          /\ Steps(stack) /\ Len(stack) = n - 1
          /\ \A i \in 1..(n - 2) : stack[i] = run.stack[i]
          /\ stack[n - 1] = Imported(run.stack[n - 1], Module)
    BY <1>9, EndModuleSteps DEF Typed
  <2>3. run.stack[n - 1].seen \subseteq Imported(run.stack[n - 1], Module).seen
    BY <2>1 DEF Imported, Frames
  <2>4. (n = 2 \/ 1 \in 1..(n - 2)) /\ n - 1 # 0
    <3>. HIDE DEF n
    <3>. QED
      BY <2>1
  <2>5. run.stack[1].seen \subseteq stack[1].seen /\ stack # <<>>
    <3>1. stack # <<>>
      BY <2>2, <2>4
    <3>2. CASE 1 \in 1..(n - 2)
      BY <2>2, <3>1, <3>2
    <3>3. CASE n = 2
      <4>1. n - 1 = 1
        BY <3>3
      <4>2. stack[1] = Imported(run.stack[1], Module) /\ run.stack[1].seen \subseteq Imported(run.stack[1], Module).seen
        BY <2>2, <2>3, <4>1
      <4>. QED
        BY <3>1, <4>2
    <3>. QED
      BY <2>4, <3>2, <3>3
  <2>. QED
    BY <1>2, <2>1, <2>2, <2>5 DEF Steps
<1>10. ASSUME NEW m \in File, ImportLoaded(m) \/ BeginModule(m) \/ ImportFails(m)
       PROVE  Emptied' \/ Apart \subseteq Apart'
  <2>1. Puts(Noted(m)) /\ run.stack # <<>>
    BY <1>10, ImportLoadedSteps, BeginModuleSteps, ImportFailsSteps DEF Typed
  <2>2. /\ Len(run.stack) \in Nat \ {0} /\ run.stack \in Seq(Frames) /\ Top = run.stack[Len(run.stack)]
        /\ Top \in Frames
    BY <2>1, TopFrame DEF Typed, TypedRun
  <2>3. CASE ImportLoaded(m)
    <3>. DEFINE frame == Imported(Top, held.cache[m])
    <3>1. Steps([run.stack EXCEPT ![Len(run.stack)] = frame]) /\ m \in DOMAIN held.cache
      BY <2>3, ImportLoadedSteps DEF Typed
    <3>2. Top.left # <<>> /\ held.cache[m] \in SUBSET Pair
      BY <2>3, <3>1 DEF ImportLoaded, Importing, Typed, TypedHeld, HeldType
    <3>3. frame \in Frames /\ Top.seen \subseteq frame.seen
      BY <2>2, <3>2, FrameType DEF Imported, Frames
    <3>. HIDE DEF frame
    <3>4. /\ Len(run'.stack) = Len(run.stack)
          /\ run'.stack[1] = IF 1 = Len(run.stack) THEN frame ELSE run.stack[1]
      <4>1. 1 \in 1..Len(run.stack)
        BY <2>2
      <4>. QED
        BY <2>1, <2>2, <3>1, <3>3, <4>1, SetLast DEF Steps
    <3>5. run'.stack # <<>> /\ run.stack[1].seen \subseteq run'.stack[1].seen
      <4>1. CASE 1 = Len(run.stack)
        BY <2>2, <3>3, <3>4, <4>1
      <4>2. CASE 1 # Len(run.stack)
        BY <2>2, <3>4, <4>2
      <4>. QED
        BY <4>1, <4>2
    <3>. QED
      BY <1>2, <2>1, <3>1, <3>5 DEF Steps, Puts
  <2>4. CASE BeginModule(m)
    <3>1. PICK frame : Steps(Append(run.stack, frame))
      BY <2>4, BeginModuleSteps DEF Typed
    <3>2. run'.stack # <<>> /\ run'.stack[1] = run.stack[1]
      BY <2>2, <3>1 DEF Steps
    <3>. QED
      BY <1>2, <2>1, <3>1, <3>2 DEF Steps, Puts
  <2>5. CASE ImportFails(m)
    <3>1. PICK left \in Seq(File) :
            Steps(<<[file |-> run.stack[1].file, left |-> left, seen |-> run.stack[1].seen]>>)
      BY <2>5, ImportFailsSteps DEF Typed
    <3>2. run'.stack # <<>> /\ run'.stack[1].seen = run.stack[1].seen
      BY <3>1 DEF Steps
    <3>. QED
      BY <1>2, <2>1, <3>1, <3>2 DEF Steps, Puts
  <2>. QED
    BY <1>10, <2>3, <2>4, <2>5
<1>11. CASE Reply \/ ReplyFails
  <2>1. Hosting = {}
    BY <1>11, ReplySteps DEF Hosting, Typed
  <2>2. held'.program = held.program
    BY <1>11, ReplySteps DEF Reports, ReportsNone, Notes, Typed
  <2>. QED
    BY <1>1, <2>1, <2>2
<1>12. CASE ReadFails
  BY <1>3, <1>12 DEF ReadFails, script
<1>. QED
  BY <1>3, <1>4, <1>5, <1>6, <1>7, <1>8, <1>9, <1>10, <1>11, <1>12 DEF Next, Script, vars, script

\* A module that is written while it is loading, or before it is noted, is missed.
LEMMA WrittenMissed ==
    ASSUME Typed, [Next]_vars, NEW f \in File, disk'[f] # disk[f], IsThere(f),
           f \in Loading \/ f \in DOMAIN held.cache \ DOMAIN held.fingerprints
    PROVE  <<f, disk[f].text>> \in missed'
<1>1. PICK g \in File, text \in Text \cup {None} : Write(g, text)
  BY DiskStill, WorkerAssumption DEF Next, Outside, Tick, vars, WorkerAssumption
<1>2. disk' = [disk EXCEPT ![g] = disk'[g]] /\ missed' = missed \cup MissedBy(g, text)
  BY <1>1 DEF Write, Typed, TypedDisk
<1>3. g = f
  BY <1>2 DEF Typed, TypedDisk
<1>. QED
  BY <1>2, <1>3 DEF MissedBy, Unnoted

\* What a module was read as goes on being as its file is, or missed.
LEMMA OwnedOn ==
    ASSUME Typed, [Next]_vars, missed \subseteq missed', NEW f \in File,
           f \in Loading \/ f \in DOMAIN held.cache \ DOMAIN held.fingerprints,
           NEW pairs, Owned(f, pairs)
    PROVE  Owned(f, pairs)'
<1>1. PICK text \in Text : <<f, text>> \in pairs /\ (text = disk[f].text \/ <<f, text>> \in missed)
  BY DEF Owned
<1>2. CASE <<f, text>> \in missed \/ disk'[f] = disk[f]
  BY <1>1, <1>2 DEF Owned
<1>3. CASE text = disk[f].text /\ disk'[f] # disk[f]
  <2>1. IsThere(f)
    BY <1>3, PrintOf, WorkerAssumption DEF WorkerAssumption, Typed
  <2>. QED
    BY <1>1, <1>3, <2>1, WrittenMissed DEF Owned
<1>. QED
  BY <1>1, <1>2, <1>3

LEMMA OwnedMore ==
    ASSUME NEW f, NEW pairs, NEW more, pairs \subseteq more, Owned(f, pairs) PROVE Owned(f, more)
  BY DEF Owned

-----------------------------------------------------------------------------
(* What fingerprints tell. *)

\* A frame is that of a module being loaded.
LEMMA InLoading == \A i \in 2..Len(run.stack) : run.stack[i].file \in Loading
  BY DEF Loading

\* What is loaded, and noted or not, as it was is told of as it was.
LEMMA ToldOn ==
    ASSUME Typed, OneRequest, Stacked, Told, [Next]_vars,
           \A f \in DOMAIN held'.cache :
                /\ f \in DOMAIN held.cache /\ held'.cache[f] = held.cache[f]
                /\ f \in DOMAIN held.fingerprints <=> f \in DOMAIN held'.fingerprints
                /\ f \in DOMAIN held.fingerprints => held'.fingerprints[f] = held.fingerprints[f],
           \A i \in 2..Len(run'.stack) : Owned(run.stack[i].file, run.stack[i].seen)'
    PROVE  Told'
<1>1. CASE Emptied'
  <2>1. DOMAIN held'.cache = {}
    BY <1>1 DEF Empty, Emptied
  <2>. QED
    BY <2>1 DEF Told, ToldIn
<1>2. CASE ~Emptied'
  <2>1. Apart \subseteq Apart' /\ missed \subseteq missed'
    BY <1>2, ApartGrows, MissedGrows
  <2>2. ASSUME NEW f \in DOMAIN held'.cache \ DOMAIN held'.fingerprints
        PROVE  Owned(f, held.cache[f])'
    <3>1. f \in File /\ f \in DOMAIN held.cache \ DOMAIN held.fingerprints
      BY <2>2 DEF Typed, TypedHeld, HeldType
    <3>2. PICK pairs : pairs = held.cache[f]
      OBVIOUS
    <3>3. Owned(f, pairs)'
      BY <2>1, <3>1, <3>2, OwnedOn DEF Told
    <3>4. held'.cache[f] = pairs
      BY <2>2, <3>2
    <3>. QED
      BY <3>3, <3>4
  <2>3. ASSUME NEW f \in DOMAIN held'.cache, NEW pair \in held'.cache[f] \ Apart', pair[1] = f,
               f \in DOMAIN held'.fingerprints
        PROVE  Tells(held.fingerprints[f], f, pair[2])'
    <3>1. f \in File /\ pair \in held.cache[f] \ Apart
      BY <2>1, <2>3 DEF Typed, TypedHeld, HeldType
    <3>2. PICK print, text : print = held.fingerprints[f] /\ text = pair[2]
      OBVIOUS
    <3>3. Tells(print, f, text)
      BY <2>3, <3>1, <3>2 DEF Told, ToldIn
    <3>4. Tells(print, f, text)'
      BY <3>1, <3>3, TellsOn DEF Typed
    <3>. QED
      BY <2>3, <3>2, <3>4
  <2>4. ASSUME NEW f \in DOMAIN held'.cache, NEW pair \in held'.cache[f] \ Apart', pair[1] = f,
               f \notin DOMAIN held'.fingerprints
        PROVE  pair[2] = disk'[f].text
    <3>1. /\ f \in File /\ f \in DOMAIN held.cache \ DOMAIN held.fingerprints
          /\ pair \in held.cache[f] \ Apart /\ pair \in Pair
      BY <2>1, <2>4 DEF Typed, TypedHeld, HeldType
    <3>2. pair[2] = disk[f].text
      BY <2>4, <3>1 DEF Told, ToldIn
    <3>3. IsThere(f)
      BY <3>1, <3>2, PrintOf, WorkerAssumption DEF Pair, WorkerAssumption, Typed
    <3>4. pair = <<f, disk[f].text>>
      BY <2>4, <3>1, <3>2 DEF Pair
    <3>5. disk'[f] = disk[f]
      BY <2>4, <3>1, <3>3, <3>4, WrittenMissed DEF Apart
    <3>. QED
      BY <3>2, <3>5
  <2>5. ToldIn(held, Apart)'
    BY <2>3, <2>4 DEF ToldIn
  <2>. QED
    BY <2>2, <2>5 DEF Told
<1>. QED
  BY <1>1, <1>2

\* Nothing runs above the first.
LEMMA NoModules ==
    ASSUME NEW s, Len(s) \in {0, 1} PROVE \A i \in 2..Len(s) : FALSE
<1>1. \A n \in {0, 1} : \A i \in 2..n : FALSE
  OBVIOUS
<1>. QED
  BY <1>1

\* A module that has run was loaded from what its file says: what it imports is
\* loaded, which it was not.
LEMMA ToldEnded ==
    ASSUME Typed, OneRequest, Stacked, Linked, Told, [Next]_vars, EndModule
    PROVE  Told'
<1>. DEFINE n == Len(run.stack)
            m == Top.file
<1>1. /\ n \in Nat /\ 2 <= n /\ n \in 2..n
      /\ Top = run.stack[n] /\ m \in File \ DOMAIN held.cache
      /\ run.stack[n - 1] \in Frames
  BY EndModuleSteps DEF Typed
<1>2. PICK stack \in Seq(Frames) :
        /\ Steps(stack) /\ Len(stack) = n - 1
        /\ \A i \in 1..(n - 2) : stack[i] = run.stack[i]
        /\ stack[n - 1] = Imported(run.stack[n - 1], Module)
  BY EndModuleSteps DEF Typed
<1>3. /\ held'.cache = Loaded(m, Module) /\ held'.fingerprints = held.fingerprints
  BY EndModuleSteps DEF Typed
<1>4. disk' = disk /\ now' = now /\ missed' = missed
  BY DEF EndModule, history
<1>5. /\ DOMAIN held'.cache = DOMAIN held.cache \cup {m} /\ held'.cache[m] = Module
      /\ \A f \in DOMAIN held.cache : held'.cache[f] = held.cache[f]
      /\ m \notin DOMAIN held.fingerprints
  BY <1>1, <1>3 DEF Loaded, Typed, TypedHeld, HeldType
<1>6. Apart \subseteq Apart'
  <2>1. ~Emptied'
    BY <1>5 DEF Empty, Emptied
  <2>. QED
    BY <2>1, ApartGrows
<1>7. Owned(m, Module)
  <2>1. Owned(m, Top.seen)
    BY <1>1 DEF Told
  <2>. QED
    BY <2>1, OwnedMore DEF Module
<1>8. ASSUME NEW pair \in Module \ Apart, pair[1] = m
      PROVE  pair[2] = disk[m].text
  <2>1. Within(held, Apart, m, Top.seen \ {<<m, disk[m].text>>})
    BY <1>1 DEF Linked
  <2>2. pair \in Top.seen
    BY <1>8 DEF Module, Apart
  <2>3. pair # <<m, disk[m].text>> => m \in DOMAIN held.cache
    BY <1>8, <2>1, <2>2 DEF Within
  <2>. QED
    BY <1>1, <1>8, <2>3
<1>9. /\ Imported(run.stack[n - 1], Module).file = run.stack[n - 1].file
      /\ run.stack[n - 1].seen \subseteq Imported(run.stack[n - 1], Module).seen
  BY <1>1 DEF Imported, Frames
<1>. HIDE DEF m
<1>10. \A f, pairs : Owned(f, pairs) => Owned(f, pairs)'
  BY <1>4 DEF Owned
<1>11. ASSUME NEW i \in 2..Len(run'.stack) PROVE Owned(run.stack[i].file, run.stack[i].seen)'
  <2>1. i \in 2..(n - 1)
    BY <1>2 DEF Steps
  <2>2. i \in 2..n /\ (i \in 1..(n - 2) \/ i = n - 1)
    BY <1>1, <2>1
  <2>3. run'.stack[i].file = run.stack[i].file /\ run.stack[i].seen \subseteq run'.stack[i].seen
    BY <1>2, <1>9, <2>2 DEF Steps
  <2>4. Owned(run.stack[i].file, run'.stack[i].seen)
    BY <2>2, <2>3, OwnedMore DEF Told
  <2>. QED
    BY <1>10, <2>3, <2>4
<1>12. ASSUME NEW f \in DOMAIN held'.cache \ DOMAIN held'.fingerprints
       PROVE  Owned(f, held.cache[f])'
  <2>1. CASE f = m
    BY <1>5, <1>7, <1>10, <2>1
  <2>2. CASE f # m
    <3>1. f \in DOMAIN held.cache \ DOMAIN held.fingerprints /\ held'.cache[f] = held.cache[f]
      BY <1>3, <1>5, <1>12, <2>2
    <3>2. Owned(f, held.cache[f])
      BY <3>1 DEF Told
    <3>. QED
      BY <1>10, <3>1, <3>2
  <2>. QED
    BY <2>1, <2>2
<1>13. ToldIn(held, Apart)'
  <2>1. SUFFICES ASSUME NEW f \in DOMAIN held'.cache, NEW pair \in held'.cache[f] \ Apart', pair[1] = f
                 PROVE  IF f \in DOMAIN held'.fingerprints THEN Tells(held.fingerprints[f], f, pair[2])'
                        ELSE pair[2] = disk'[f].text
    BY DEF ToldIn
  <2>2. CASE f = m
    BY <1>3, <1>4, <1>5, <1>6, <1>8, <2>1, <2>2
  <2>3. CASE f # m
    <3>1. f \in DOMAIN held.cache /\ pair \in held.cache[f] \ Apart
      BY <1>5, <1>6, <2>1, <2>3
    <3>2. IF f \in DOMAIN held.fingerprints THEN Tells(held.fingerprints[f], f, pair[2])
          ELSE pair[2] = disk[f].text
      BY <2>1, <3>1 DEF Told, ToldIn
    <3>3. PICK print : print = held.fingerprints[f]
      OBVIOUS
    <3>4. Tells(print, f, pair[2]) => Tells(print, f, pair[2])'
      BY <1>4 DEF Tells, IsThere
    <3>. QED
      BY <1>3, <1>4, <3>2, <3>3, <3>4
  <2>. QED
    BY <2>2, <2>3
<1>. QED
  BY <1>11, <1>12, <1>13 DEF Told

\* What is noted when a request is answered is noted as it is.
LEMMA ToldReplied ==
    ASSUME Typed, OneRequest, Stacked, Told, [Next]_vars, Reply \/ ReplyFails
    PROVE  Told'
<1>1. PICK files \in SUBSET Unnoted : Notes(files)
  BY ReplySteps DEF Typed, Reports, ReportsNone
<1>2. /\ run' = Waiting /\ run.phase = "checking" /\ missed' = missed
  BY ReplySteps DEF Typed
<1>3. disk' = disk /\ now' = now
  BY DEF Reply, ReplyFails
<1>4. /\ held'.cache = held.cache /\ held'.program = held.program
      /\ held'.fingerprints = Fingerprinted(files)
  BY <1>1 DEF Notes
<1>5. Apart' = Apart
  BY <1>2, <1>4 DEF Apart, Hosting, Waiting
<1>6. /\ DOMAIN held'.fingerprints = DOMAIN held.fingerprints \cup files
      /\ \A f \in DOMAIN held'.fingerprints :
            held'.fingerprints[f] = IF f \in files THEN Fingerprint(f) ELSE held.fingerprints[f]
  BY <1>4 DEF Fingerprinted
<1>7. \A f, pairs : Owned(f, pairs) => Owned(f, pairs)'
  BY <1>2, <1>3 DEF Owned
<1>8. \A i \in 2..Len(run'.stack) : FALSE
  <2>1. run'.stack = <<>> /\ Len(<<>>) = 0
    BY <1>2 DEF Waiting
  <2>. QED
    BY <2>1, NoModules
<1>9. ASSUME NEW f \in DOMAIN held'.cache \ DOMAIN held'.fingerprints PROVE Owned(f, held.cache[f])'
  BY <1>4, <1>6, <1>7, <1>9 DEF Told
<1>10. ToldIn(held, Apart)'
  <2>1. SUFFICES ASSUME NEW f \in DOMAIN held.cache, NEW pair \in held.cache[f] \ Apart, pair[1] = f,
                        NEW text, text = pair[2], NEW print, print = held'.fingerprints[f]
                 PROVE  IF f \in DOMAIN held'.fingerprints THEN Tells(print, f, text)'
                        ELSE text = disk'[f].text
    BY <1>4, <1>5 DEF ToldIn
  <2>2. f \in File
    BY DEF Typed, TypedHeld, HeldType
  <2>3. IF f \in DOMAIN held.fingerprints THEN Tells(held.fingerprints[f], f, text)
        ELSE text = disk[f].text
    BY <2>1 DEF Told, ToldIn
  <2>4. CASE f \notin DOMAIN held'.fingerprints
    BY <1>3, <1>6, <2>3, <2>4
  <2>5. CASE f \in DOMAIN held'.fingerprints
    <3>1. Tells(print, f, text)
      <4>1. CASE f \in files
        <5>1. f \notin DOMAIN held.fingerprints /\ IsThere(f) /\ print = Fingerprint(f)
          BY <1>6, <2>1, <2>5, <4>1 DEF Unnoted
        <5>. QED
          BY <2>2, <2>3, <5>1, PrintOf DEF Typed
      <4>2. CASE f \notin files
        BY <1>6, <2>1, <2>3, <2>5, <4>2
      <4>. QED
        BY <4>1, <4>2
    <3>. QED
      BY <2>2, <2>5, <3>1, TellsOn DEF Typed
  <2>. QED
    BY <2>4, <2>5
<1>. QED
  BY <1>8, <1>9, <1>10 DEF Told

\* The frames after an import is asked for: those there were, the one on top with what
\* it imported, and that of a module that begins.
LEMMA FramesAfter ==
    ASSUME Typed, Stacked, NEW m \in File, ImportLoaded(m) \/ BeginModule(m) \/ ImportFails(m),
           NEW i \in 1..Len(run'.stack)
    PROVE  \/ /\ i \in 1..Len(run.stack) /\ run'.stack[i].file = run.stack[i].file
              /\ \/ run'.stack[i].seen = run.stack[i].seen
                 \/ /\ i = Len(run.stack) /\ m \in DOMAIN held.cache
                    /\ run'.stack[i].seen = run.stack[i].seen \cup held.cache[m]
           \/ /\ i = Len(run.stack) + 1 /\ m \notin DOMAIN held.cache
              /\ IsThere(m) /\ disk[m].text \in Text
              /\ run'.stack[i].file = m /\ run'.stack[i].seen = {<<m, disk[m].text>>}
<1>. DEFINE n == Len(run.stack)
<1>1. run.stack # <<>>
  BY ImportLoadedSteps, BeginModuleSteps, ImportFailsSteps DEF Typed
<1>2. /\ n \in Nat \ {0} /\ run.stack \in Seq(Frames) /\ Top = run.stack[n] /\ Top \in Frames
  BY <1>1, TopFrame DEF Typed, TypedRun
<1>3. CASE ImportLoaded(m)
  <2>. DEFINE frame == Imported(Top, held.cache[m])
  <2>1. run'.stack = [run.stack EXCEPT ![n] = frame] /\ m \in DOMAIN held.cache
    BY <1>3, ImportLoadedSteps DEF Typed, Steps
  <2>2. Top.left # <<>> /\ held.cache[m] \in SUBSET Pair
    BY <1>3, <2>1 DEF ImportLoaded, Importing, Typed, TypedHeld, HeldType
  <2>3. frame \in Frames /\ frame.file = Top.file /\ frame.seen = Top.seen \cup held.cache[m]
    BY <1>2, <2>2, FrameType DEF Imported, Frames
  <2>. HIDE DEF frame
  <2>4. Len(run'.stack) = n /\ \A j \in 1..n : run'.stack[j] = IF j = n THEN frame ELSE run.stack[j]
    BY <1>1, <1>2, <2>1, <2>3, SetLast
  <2>. QED
    BY <1>2, <2>1, <2>3, <2>4
<1>4. CASE BeginModule(m)
  <2>. DEFINE frame == Frame(m, disk[m].text, {<<m, disk[m].text>>})
  <2>1. /\ run'.stack = Append(run.stack, frame) /\ m \notin DOMAIN held.cache /\ IsThere(m)
    BY <1>4, BeginModuleSteps DEF Typed, Steps
  <2>2. disk[m].text \in Text
    BY <2>1, PrintOf DEF Typed
  <2>3. frame.file = m /\ frame.seen = {<<m, disk[m].text>>}
    BY DEF Frame
  <2>. HIDE DEF frame
  <2>4. Len(run'.stack) = n + 1 /\ run'.stack[n + 1] = frame /\ \A j \in 1..n : run'.stack[j] = run.stack[j]
    BY <1>2, <2>1
  <2>5. i \in 1..n \/ i = n + 1
    BY <1>2, <2>4
  <2>. QED
    BY <2>1, <2>2, <2>3, <2>4, <2>5
<1>5. CASE ImportFails(m)
  <2>1. PICK left \in Seq(File) :
          run'.stack = <<[file |-> run.stack[1].file, left |-> left, seen |-> run.stack[1].seen]>>
    BY <1>5, ImportFailsSteps DEF Typed, Steps
  <2>2. i = 1 /\ 1 \in 1..n
    <3>1. Len(run'.stack) = 1
      BY <2>1
    <3>. QED
      BY <1>2, <3>1
  <2>. QED
    BY <2>1, <2>2
<1>. QED
  BY <1>3, <1>4, <1>5

\* Those after a module ran: the one below it has all that the module holds.
LEMMA FramesEnded ==
    ASSUME Typed, Stacked, EndModule, NEW i \in 1..Len(run'.stack)
    PROVE  /\ i \in 1..(Len(run.stack) - 1) /\ Len(run'.stack) = Len(run.stack) - 1
           /\ run'.stack[i].file = run.stack[i].file
           /\ \/ run'.stack[i].seen = run.stack[i].seen
              \/ i = Len(run.stack) - 1 /\ run'.stack[i].seen = run.stack[i].seen \cup Module
<1>. DEFINE n == Len(run.stack)
<1>1. n \in Nat /\ 2 <= n /\ run.stack[n - 1] \in Frames
  BY EndModuleSteps DEF Typed
<1>2. PICK stack \in Seq(Frames) :
        /\ Steps(stack) /\ Len(stack) = n - 1
        /\ \A j \in 1..(n - 2) : stack[j] = run.stack[j]
        /\ stack[n - 1] = Imported(run.stack[n - 1], Module)
  BY EndModuleSteps DEF Typed
<1>3. /\ Imported(run.stack[n - 1], Module).file = run.stack[n - 1].file
      /\ Imported(run.stack[n - 1], Module).seen = run.stack[n - 1].seen \cup Module
  BY <1>1 DEF Imported, Frames
<1>4. i \in 1..(n - 1) /\ (i \in 1..(n - 2) \/ i = n - 1)
  BY <1>1, <1>2 DEF Steps
<1>. QED
  BY <1>2, <1>3, <1>4 DEF Steps

LEMMA ToldKept ==
    ASSUME Typed, OneRequest, Stacked, Linked, Told, [Next]_vars
    PROVE  Told'
<1>1. CASE Emptied'
  <2>1. DOMAIN held'.cache = {} /\ Len(run'.stack) = 0
    BY <1>1 DEF Empty, Emptied
  <2>2. \A i \in 2..Len(run'.stack) : FALSE
    BY <2>1, NoModules
  <2>. QED
    BY <2>1, <2>2, ToldOn
<1>2. ASSUME ~Emptied', UNCHANGED <<held, run>> PROVE Told'
  <2>1. missed \subseteq missed'
    BY <1>2, MissedGrows
  <2>2. ASSUME NEW i \in 2..Len(run'.stack) PROVE Owned(run.stack[i].file, run.stack[i].seen)'
    <3>1. PICK f, pairs : f = run.stack[i].file /\ pairs = run.stack[i].seen
      OBVIOUS
    <3>2. f \in File /\ f \in Loading /\ Owned(f, pairs)
      BY <1>2, <2>2, <3>1, InLoading DEF Told, Stacked
    <3>3. Owned(f, pairs)'
      BY <2>1, <3>2, OwnedOn
    <3>. QED
      BY <1>2, <3>1, <3>3
  <2>. QED
    BY <1>2, <2>2, ToldOn
<1>3. ASSUME held' = Current(held), Len(run'.stack) = 1 PROVE Told'
  <2>1. \A i \in 2..Len(run'.stack) : FALSE
    BY <1>3, NoModules
  <2>. QED
    BY <1>3, <2>1, ToldOn, CurrentKeeps DEF Typed, TypedHeld, HeldType
<1>4. CASE Outside \/ Checks
  <2>1. UNCHANGED <<held, run>> \/ (held' = Fresh /\ run' = Waiting)
    BY <1>4 DEF Outside, Checks, Tick, Exit, Write, Receive, TimeOut, GiveUp, Fail, Ask, Dropped, script
  <2>. QED
    BY <1>1, <1>2, <2>1 DEF Emptied, Fresh, Waiting
<1>5. CASE Read
  <2>1. CASE ReadOn(Head(stdin))
    <3>1. Len(run'.stack) = 1
      BY <2>1 DEF ReadOn, Checking
    <3>. QED
      BY <1>3, <2>1, <3>1 DEF ReadOn
  <2>2. CASE ReadAnew(Head(stdin))
    BY <1>1, <2>2 DEF ReadAnew, Emptied
  <2>. QED
    BY <1>5, <2>1, <2>2, ReadEither
<1>6. CASE ReadFails
  BY <1>1, <1>2, <1>6 DEF ReadFails, script
<1>7. CASE BeginProgram \/ EndProgram
  <2>1. held'.cache = held.cache /\ held'.fingerprints = held.fingerprints
    BY <1>7, ProgramSteps DEF Typed
  <2>2. \E frame : run'.stack \in {<<>>, <<frame>>}
    BY <1>7, ProgramSteps DEF Typed, Steps
  <2>3. Len(run'.stack) \in {0, 1}
    BY <2>2
  <2>. QED
    BY <2>1, <2>3, NoModules, ToldOn
<1>8. CASE BeginBuffer
  <2>1. held' = Current(held) /\ Len(run'.stack) = 1
    BY <1>8, RequestSteps DEF Checking
  <2>. QED
    BY <1>3, <2>1
<1>9. ASSUME NEW m \in File, ImportLoaded(m) \/ BeginModule(m) \/ ImportFails(m) PROVE Told'
  <2>1. Puts(Noted(m))
    BY <1>9, ImportLoadedSteps, BeginModuleSteps, ImportFailsSteps DEF Typed
  <2>2. disk' = disk /\ missed' = missed
    BY <1>9 DEF ImportLoaded, BeginModule, ImportFails, history
  <2>3. ASSUME NEW i \in 2..Len(run'.stack) PROVE Owned(run.stack[i].file, run.stack[i].seen)'
    <3>1. PICK f, pairs : f = run'.stack[i].file /\ pairs = run'.stack[i].seen
      OBVIOUS
    <3>2. i \in 1..Len(run'.stack) /\ (i \in 1..Len(run.stack) => i \in 2..Len(run.stack))
      OBVIOUS
    <3>3. Owned(f, pairs)
      <4>1. CASE i \in 1..Len(run.stack)
        <5>1. \/ f = run.stack[i].file /\ run.stack[i].seen \subseteq pairs
              \/ f = m /\ pairs = {<<m, disk[m].text>>} /\ disk[m].text \in Text
          BY <1>9, <3>1, <3>2, FramesAfter
        <5>2. Owned(run.stack[i].file, run.stack[i].seen)
          BY <3>2, <4>1 DEF Told
        <5>. QED
          BY <5>1, <5>2, OwnedMore DEF Owned
      <4>2. CASE i \notin 1..Len(run.stack)
        <5>1. f = m /\ pairs = {<<m, disk[m].text>>} /\ disk[m].text \in Text
          BY <1>9, <3>1, <3>2, <4>2, FramesAfter
        <5>. QED
          BY <5>1 DEF Owned
      <4>. QED
        BY <4>1, <4>2
    <3>4. Owned(f, pairs)'
      BY <2>2, <3>3 DEF Owned
    <3>. QED
      BY <3>1, <3>4
  <2>. QED
    BY <2>1, <2>3, ToldOn DEF Puts
<1>10. CASE Script
  BY <1>5, <1>6, <1>7, <1>8, <1>9, <1>10, ToldEnded, ToldReplied DEF Script
<1>. QED
  BY <1>1, <1>2, <1>4, <1>10 DEF Next, vars, script

-----------------------------------------------------------------------------
(* What the key tells. *)

LEMMA KeyTellsOn ==
    ASSUME Typed, [Next]_vars, missed \subseteq missed', held'.key = held.key,
           NEW f \in File, NEW text, KeyTells(f, text)
    PROVE  KeyTells(f, text)'
<1>1. CASE <<f, text>> \in missed
  BY <1>1 DEF KeyTells
<1>2. CASE <<f, text>> \notin missed
  <2>1. PICK i \in DOMAIN held.key.paths :
          held.key.paths[i] = f /\ Tells(held.key.fingerprints[i], f, text)
    BY <1>2 DEF KeyTells
  <2>2. PICK print : print = held.key.fingerprints[i]
    OBVIOUS
  <2>3. Tells(print, f, text)
    BY <2>1, <2>2
  <2>4. Tells(print, f, text)'
    BY <2>3, TellsOn DEF Typed
  <2>. QED
    BY <2>1, <2>2, <2>4 DEF KeyTells
<1>. QED
  BY <1>1, <1>2

\* What is written of a file of the program while that is loaded is missed.
LEMMA ProgramWritten ==
    ASSUME Typed, [Next]_vars, run.phase = "loading", NEW f \in Range(held.key.paths) \cap File,
           disk'[f] # disk[f]
    PROVE  <<f, disk'[f].text>> \in missed'
<1>1. PICK g \in File, text \in Text \cup {None} : Write(g, text)
  BY DiskStill, WorkerAssumption DEF Next, Outside, Tick, vars, WorkerAssumption
<1>2. /\ disk' = [disk EXCEPT ![g] = disk'[g]] /\ missed' = missed \cup MissedBy(g, text)
      /\ disk'[g].text = text
  BY <1>1 DEF Write, Typed, TypedDisk, NoFile
<1>3. g = f
  BY <1>2 DEF Typed, TypedDisk
<1>. QED
  BY <1>2, <1>3 DEF MissedBy

\* Pairs the key tells, as far as it names their files.
KeyHolds(pairs) == pairs \subseteq Pair /\ KeyTellsOf(pairs)

LEMMA KeyHoldsOn ==
    ASSUME Typed, [Next]_vars, missed \subseteq missed', held'.key = held.key, NEW pairs, KeyHolds(pairs)
    PROVE  KeyTellsOf(pairs)'
<1>. SUFFICES ASSUME NEW pair \in pairs, pair[1] \in Range(held.key.paths),
                     NEW f, f = pair[1], NEW text, text = pair[2]
              PROVE  KeyTells(f, text)'
  BY DEF KeyTellsOf
<1>1. f \in File /\ KeyTells(f, text)
  BY DEF KeyHolds, KeyTellsOf, Pair
<1>. QED
  BY <1>1, KeyTellsOn

LEMMA ProgramToldOn ==
    ASSUME Typed, ProgramTold, [Next]_vars, missed \subseteq missed', held'.key = held.key,
           held'.program # {} \/ run'.phase # "waiting" => held.key # None,
           \A pair \in held'.program : pair \in Pair /\ (KeyTells(pair[1], pair[2]) \/ pair \in missed'),
           run'.phase = "loading" =>
                /\ run.phase = "loading" /\ Range(run'.todo) \subseteq Range(run.todo)
                /\ \A f \in DOMAIN held'.cache : KeyHolds(held'.cache[f])
                /\ \A i \in DOMAIN run'.stack : KeyHolds(run'.stack[i].seen)
    PROVE  ProgramTold'
<1>1. ASSUME NEW pair \in held'.program, NEW f, f = pair[1], NEW text, text = pair[2]
      PROVE  KeyTells(f, text)'
  <2>1. f \in File /\ pair = <<f, text>>
    BY <1>1 DEF Pair
  <2>2. CASE pair \in missed'
    BY <2>1, <2>2 DEF KeyTells
  <2>3. CASE KeyTells(f, text)
    BY <2>1, <2>3, KeyTellsOn
  <2>. QED
    BY <1>1, <2>2, <2>3
<1>2. ASSUME run'.phase = "loading", NEW f \in Range(held.key.paths), IsThere(f)',
             NEW text, text = disk'[f].text
      PROVE  KeyTells(f, text)'
  <2>1. f \in File
    <3>1. held.key \in Key
      BY <1>2 DEF Typed, TypedHeld, HeldType
    <3>2. held.key.paths \in Seq(File)
      BY <3>1 DEF Key
    <3>. QED
      BY <1>2, <3>2 DEF Range
  <2>2. CASE disk'[f] = disk[f]
    <3>1. KeyTells(f, text)
      BY <1>2, <2>2 DEF ProgramTold, IsThere
    <3>. QED
      BY <2>1, <3>1, KeyTellsOn
  <2>3. CASE disk'[f] # disk[f]
    BY <1>2, <2>1, <2>3, ProgramWritten DEF KeyTells
  <2>. QED
    BY <2>2, <2>3
<1>3. ASSUME run'.phase = "loading", NEW f \in DOMAIN held'.cache, NEW pairs, pairs = held'.cache[f]
      PROVE  KeyTellsOf(pairs)'
  BY <1>3, KeyHoldsOn
<1>4. ASSUME run'.phase = "loading", NEW i \in DOMAIN run'.stack, NEW pairs, pairs = run'.stack[i].seen
      PROVE  KeyTellsOf(pairs)'
  BY <1>4, KeyHoldsOn
<1>5. \A pair \in held'.program : KeyTells(pair[1], pair[2])'
  BY <1>1
<1>6. run'.phase = "loading" =>
        /\ Range(run'.todo) \subseteq Range(held'.key.paths)
        /\ \A f \in Range(held'.key.paths) : IsThere(f)' => KeyTells(f, disk[f].text)'
        /\ \A f \in DOMAIN held'.cache : KeyTellsOf(held.cache[f])'
        /\ \A i \in DOMAIN run'.stack : KeyTellsOf(run.stack[i].seen)'
  BY <1>2, <1>3, <1>4 DEF ProgramTold
<1>. QED
  BY <1>5, <1>6 DEF ProgramTold

\* As it is held, the key tells it.
LEMMA KeyHeld ==
    ASSUME Typed, ProgramTold
    PROVE  /\ \A pair \in held.program : pair \in Pair /\ KeyTells(pair[1], pair[2])
           /\ KeyHolds(held.program)
           /\ run.phase = "loading" =>
                /\ \A f \in DOMAIN held.cache : KeyHolds(held.cache[f])
                /\ \A i \in DOMAIN run.stack : KeyHolds(run.stack[i].seen)
<1>1. \A i \in DOMAIN run.stack : run.stack[i].seen \subseteq Pair
  <2>1. run.stack \in Seq(Frames)
    BY DEF Typed, TypedRun
  <2>2. \A i \in DOMAIN run.stack : run.stack[i] \in Frames
    BY <2>1
  <2>. QED
    BY <2>2 DEF Frames
<1>2. held.program \subseteq Pair /\ \A f \in DOMAIN held.cache : held.cache[f] \subseteq Pair
  BY DEF Typed, TypedHeld, HeldType
<1>. QED
  BY <1>1, <1>2 DEF KeyHolds, KeyTellsOf, ProgramTold

LEMMA ProgramToldAnew ==
    ASSUME Typed, OneRequest, [Next]_vars, Read, ReadAnew(Head(stdin))
    PROVE  ProgramTold'
<1>. DEFINE request == Head(stdin)
            paths == request.setting.program
<1>1. request \in Request /\ KeyOf(request) \in Key /\ KeyOf(request) # None
  BY ReadEither, WorkerAssumption DEF WorkerAssumption
<1>2. /\ held'.key = KeyOf(request) /\ held'.program = {} /\ run'.phase = "loading"
      /\ run'.todo = paths /\ run'.stack = <<>> /\ held'.cache = Empty
  BY DEF ReadAnew
<1>3. ASSUME NEW f \in Range(paths), IsThere(f)' PROVE KeyTells(f, disk[f].text)'
  <2>1. PICK i \in DOMAIN paths : paths[i] = f
    BY <1>3 DEF Range
  <2>2. f \in File
    BY <1>1, <2>1, RequestFields
  <2>3. disk' = disk /\ IsThere(f)
    BY <1>3 DEF Read, IsThere
  <2>4. PICK text, print : text = disk[f].text /\ print = Fingerprint(f)
    OBVIOUS
  <2>5. Tells(print, f, text)
    BY <2>2, <2>3, <2>4, PrintOf DEF Typed
  <2>6. Tells(print, f, text)'
    BY <2>2, <2>5, TellsOn DEF Typed
  <2>7. held'.key.paths = paths /\ held'.key.fingerprints[i] = print
    BY <1>2, <2>1, <2>4 DEF KeyOf
  <2>. QED
    BY <2>1, <2>3, <2>4, <2>6, <2>7 DEF KeyTells
<1>4. DOMAIN KeyOf(request).paths = DOMAIN KeyOf(request).fingerprints /\ KeyOf(request).paths = paths
  BY DEF KeyOf
<1>5. DOMAIN held'.cache = {} /\ DOMAIN run'.stack = {}
  BY <1>2 DEF Empty
<1>. HIDE DEF request, paths
<1>. QED
  BY <1>1, <1>2, <1>3, <1>4, <1>5 DEF ProgramTold

LEMMA ProgramToldKept ==
    ASSUME Typed, OneRequest, Stacked, ProgramTold, [Next]_vars
    PROVE  ProgramTold'
<1>1. CASE held' = Fresh /\ run' = Waiting
  <2>1. held'.key = None /\ held'.program = {} /\ run'.phase = "waiting"
    BY <1>1 DEF Fresh, Waiting
  <2>. QED
    BY <2>1 DEF ProgramTold
<1>2. ASSUME missed \subseteq missed', held'.key = held.key, held'.program = held.program,
             run'.phase # "loading", run'.phase # "waiting" => held.key # None
      PROVE  ProgramTold'
  <2>1. held'.program # {} => held.key # None
    BY <1>2 DEF ProgramTold
  <2>. QED
    BY <1>2, <2>1, KeyHeld, ProgramToldOn
<1>3. CASE UNCHANGED <<held, run>>
  <2>1. CASE missed \subseteq missed'
    <3>1. \A pair \in held'.program : pair \in Pair /\ (KeyTells(pair[1], pair[2]) \/ pair \in missed')
      BY <1>3, KeyHeld
    <3>2. held'.program # {} \/ run'.phase # "waiting" => held.key # None
      BY <1>3 DEF ProgramTold
    <3>3. run'.phase = "loading" =>
            /\ \A f \in DOMAIN held'.cache : KeyHolds(held'.cache[f])
            /\ \A i \in DOMAIN run'.stack : KeyHolds(run'.stack[i].seen)
      BY <1>3, KeyHeld
    <3>4. held'.key = held.key /\ run'.phase = run.phase /\ run'.todo = run.todo
      BY <1>3
    <3>. QED
      BY <2>1, <3>1, <3>2, <3>3, <3>4, ProgramToldOn
  <2>2. CASE ~(missed \subseteq missed')
    <3>1. run.phase = "waiting" /\ Emptied'
      BY <2>2, MissedOn, MissedGrows
    <3>. QED
      BY <1>3, <3>1 DEF ProgramTold, Emptied
  <2>. QED
    BY <2>1, <2>2
<1>4. CASE Outside \/ Checks
  <2>1. UNCHANGED <<held, run>> \/ (held' = Fresh /\ run' = Waiting)
    BY <1>4 DEF Outside, Checks, Tick, Exit, Write, Receive, TimeOut, GiveUp, Fail, Ask, Dropped, script
  <2>. QED
    BY <1>1, <1>3, <2>1
<1>5. CASE Read
  <2>1. Head(stdin) \in Request /\ KeyOf(Head(stdin)) \in Key /\ KeyOf(Head(stdin)) # None
    BY <1>5, ReadEither, WorkerAssumption DEF WorkerAssumption
  <2>2. CASE ReadOn(Head(stdin))
    <3>1. /\ held'.key = held.key /\ held'.program = held.program /\ run'.phase = "checking"
          /\ missed' = missed /\ held.key # None
      BY <2>1, <2>2, CurrentKeeps DEF ReadOn, Checking, Typed, TypedHeld
    <3>. QED
      BY <1>2, <3>1
  <2>. QED
    BY <1>5, <2>2, ReadEither, ProgramToldAnew
<1>6. CASE ReadFails
  BY <1>3, <1>6 DEF ReadFails, script
<1>7. CASE BeginProgram
  <2>. DEFINE f == Head(run.todo)
  <2>1. /\ run.phase = "loading" /\ run.todo # <<>> /\ f \in File
        /\ run'.phase = "loading" /\ run'.todo = Tail(run.todo) /\ held' = held /\ missed' = missed
        /\ IF IsThere(f)
           THEN disk[f].text \in Text /\ run'.stack = <<Frame(f, disk[f].text, {<<f, disk[f].text>>})>>
           ELSE run'.stack = <<>>
    BY <1>7, ProgramSteps DEF Typed
  <2>2. run.todo \in Seq(File)
    BY DEF Typed, TypedRun
  <2>3. f \in Range(run.todo) /\ Range(run'.todo) \subseteq Range(run.todo)
    BY <2>1, <2>2 DEF Range
  <2>. HIDE DEF f
  <2>4. ASSUME NEW i \in DOMAIN run'.stack PROVE KeyHolds(run'.stack[i].seen)
    <3>1. IsThere(f) /\ run'.stack[i].seen = {<<f, disk[f].text>>} /\ disk[f].text \in Text
      BY <2>1, <2>4 DEF Frame
    <3>2. KeyTells(f, disk[f].text)
      BY <2>1, <2>3, <3>1 DEF ProgramTold
    <3>. QED
      BY <2>1, <3>1, <3>2 DEF KeyHolds, KeyTellsOf, Pair
  <2>. QED
    BY <2>1, <2>3, <2>4, KeyHeld, ProgramToldOn DEF ProgramTold
<1>8. CASE EndProgram
  <2>1. /\ run.phase = "loading" /\ run.stack # <<>>
        /\ run'.phase = "loading" /\ run'.todo = run.todo /\ run'.stack = <<>>
        /\ held'.key = held.key /\ held'.program = held.program \cup run.stack[1].seen
        /\ held'.cache = held.cache
        /\ missed' = missed \cup {pair \in run.stack[1].seen : pair[1] \notin Range(held.key.paths)}
    BY <1>8, ProgramSteps DEF Steps, Typed
  <2>2. KeyHolds(run.stack[1].seen)
    BY <2>1, KeyHeld, TopFrame DEF Typed
  <2>3. \A pair \in held'.program : pair \in Pair /\ (KeyTells(pair[1], pair[2]) \/ pair \in missed')
    BY <2>1, <2>2, KeyHeld DEF KeyHolds, KeyTellsOf
  <2>4. DOMAIN run'.stack = {}
    BY <2>1
  <2>. QED
    BY <2>1, <2>3, <2>4, KeyHeld, ProgramToldOn DEF ProgramTold
<1>9. CASE BeginBuffer
  <2>1. run.phase = "loading" /\ held' = Current(held) /\ run'.phase = "checking" /\ missed' = missed
    BY <1>9, RequestSteps DEF Checking
  <2>. QED
    BY <1>2, <2>1, CurrentKeeps DEF ProgramTold, Typed, TypedHeld
<1>10. CASE EndModule
  <2>1. /\ held'.key = held.key /\ held'.program = held.program /\ held'.cache = Loaded(Top.file, Module)
        /\ run'.phase = run.phase /\ run'.todo = run.todo /\ run.phase # "waiting" /\ run.stack # <<>>
    BY <1>10, EndModuleSteps DEF Typed, Steps
  <2>2. missed' = missed /\ run'.stack \in Seq(Frames)
    BY <1>10, EndModuleSteps DEF EndModule, history, Typed, Steps
  <2>3. ASSUME run.phase = "loading" PROVE KeyHolds(Module)
    <3>1. KeyHolds(Top.seen) /\ KeyHolds(run.stack[1].seen) /\ KeyHolds(held.program)
      BY <2>1, <2>3, KeyHeld, TopFrame DEF Typed
    <3>. QED
      BY <3>1 DEF Module, Hosting, KeyHolds, KeyTellsOf
  <2>4. ASSUME run.phase = "loading", NEW f \in DOMAIN held'.cache PROVE KeyHolds(held'.cache[f])
    BY <2>1, <2>3, <2>4, KeyHeld DEF Loaded
  <2>5. ASSUME run.phase = "loading", NEW i \in DOMAIN run'.stack PROVE KeyHolds(run'.stack[i].seen)
    <3>1. i \in 1..Len(run'.stack) /\ DOMAIN run.stack = 1..Len(run.stack) /\ Len(run.stack) \in Nat
      BY <2>1, <2>2, <2>5, TopFrame DEF Typed
    <3>2. /\ i \in 1..(Len(run.stack) - 1)
          /\ run'.stack[i].seen \in {run.stack[i].seen, run.stack[i].seen \cup Module}
      BY <1>10, <3>1, FramesEnded
    <3>3. KeyHolds(run.stack[i].seen)
      BY <2>5, <3>1, <3>2, KeyHeld
    <3>. QED
      BY <2>3, <2>5, <3>2, <3>3 DEF KeyHolds, KeyTellsOf
  <2>. QED
    BY <2>1, <2>2, <2>4, <2>5, KeyHeld, ProgramToldOn DEF ProgramTold
<1>11. ASSUME NEW m \in File, ImportLoaded(m) \/ BeginModule(m) \/ ImportFails(m) PROVE ProgramTold'
  <2>1. /\ Puts(Noted(m)) /\ run.stack # <<>>
        /\ run'.phase = run.phase /\ run'.todo = run.todo /\ run'.stack \in Seq(Frames)
    BY <1>11, ImportLoadedSteps, BeginModuleSteps, ImportFailsSteps DEF Typed, Steps, TypedRun
  <2>2. missed' = missed
    BY <1>11 DEF ImportLoaded, BeginModule, ImportFails, history
  <2>3. ASSUME run.phase = "loading", NEW i \in DOMAIN run'.stack PROVE KeyHolds(run'.stack[i].seen)
    <3>1. i \in 1..Len(run'.stack) /\ DOMAIN run.stack = 1..Len(run.stack)
      BY <2>1, <2>3, TopFrame DEF Typed
    <3>2. CASE i \in 1..Len(run.stack)
      <4>1. KeyHolds(run.stack[i].seen)
        BY <2>3, <3>1, <3>2, KeyHeld
      <4>2. \/ run'.stack[i].seen = run.stack[i].seen
            \/ m \in DOMAIN held.cache /\ run'.stack[i].seen = run.stack[i].seen \cup held.cache[m]
            \/ run'.stack[i].seen = {<<m, disk[m].text>>} /\ disk[m].text \in Text /\ i = Len(run.stack) + 1
        BY <1>11, <3>1, FramesAfter
      <4>3. i # Len(run.stack) + 1
        BY <3>2
      <4>4. m \in DOMAIN held.cache => KeyHolds(held.cache[m])
        BY <2>3, KeyHeld
      <4>. QED
        BY <4>1, <4>2, <4>3, <4>4 DEF KeyHolds, KeyTellsOf
    <3>3. CASE i \notin 1..Len(run.stack)
      <4>1. run'.stack[i].seen = {<<m, disk[m].text>>} /\ disk[m].text \in Text /\ IsThere(m)
        BY <1>11, <3>1, <3>3, FramesAfter
      <4>2. m \in Range(held.key.paths) => KeyTells(m, disk[m].text)
        BY <2>3, <4>1 DEF ProgramTold
      <4>. QED
        BY <4>1, <4>2 DEF KeyHolds, KeyTellsOf, Pair
    <3>. QED
      BY <3>2, <3>3
  <2>4. /\ held'.key = held.key /\ held'.program = held.program /\ held'.cache = held.cache
    BY <2>1 DEF Puts
  <2>5. held'.program # {} \/ run'.phase # "waiting" => held.key # None
    BY <2>1, <2>4 DEF ProgramTold
  <2>. QED
    BY <2>1, <2>2, <2>3, <2>4, <2>5, KeyHeld, ProgramToldOn
<1>12. CASE Reply \/ ReplyFails
  <2>1. /\ held'.key = held.key /\ held'.program = held.program /\ run'.phase = "waiting"
        /\ missed' = missed
    BY <1>12, ReplySteps DEF Typed, Waiting, Reports, ReportsNone, Notes
  <2>. QED
    BY <1>2, <2>1
<1>13. CASE Script
  BY <1>5, <1>6, <1>7, <1>8, <1>9, <1>10, <1>11, <1>12, <1>13 DEF Script
<1>. QED
  BY <1>3, <1>4, <1>13 DEF Next, vars, script

-----------------------------------------------------------------------------
(* What modules hold of one another. *)

\* More that is loaded, and more importers, leave links as they are.
LEMMA WithinMore ==
    ASSUME NEW h, NEW k, HeldType(h), HeldType(k), NEW less, NEW more, less \subseteq more,
           DOMAIN h.cache \subseteq DOMAIN k.cache, \A f \in DOMAIN h.cache : k.cache[f] = h.cache[f],
           \A f \in File : h.importers[f] \subseteq k.importers[f],
           NEW f, NEW pairs, Within(h, less, f, pairs)
    PROVE  Within(k, more, f, pairs)
<1>. SUFFICES ASSUME NEW pair \in pairs \ less
              PROVE  /\ pair[1] \in DOMAIN k.cache /\ pair \in k.cache[pair[1]]
                     /\ f \in Unloaded(k, {pair[1]})
  BY DEF Within
<1>1. /\ pair[1] \in DOMAIN h.cache /\ pair \in h.cache[pair[1]] /\ f \in Unloaded(h, {pair[1]})
  BY DEF Within
<1>2. {pair[1]} \in SUBSET File
  BY <1>1 DEF HeldType
<1>3. Unloaded(h, {pair[1]}) \subseteq Unloaded(k, {pair[1]})
  BY <1>2, VisitsMore
<1>. QED
  BY <1>1, <1>3

\* Who imports a module has links to what that holds.
LEMMA WithinImporter ==
    ASSUME NEW h, HeldType(h), NEW m \in DOMAIN h.cache, NEW f \in h.importers[m], NEW pairs,
           NEW apart, Within(h, apart, m, pairs)
    PROVE  Within(h, apart, f, pairs)
<1>. SUFFICES ASSUME NEW pair \in pairs \ apart PROVE f \in Unloaded(h, {pair[1]})
  BY DEF Within
<1>1. pair[1] \in DOMAIN h.cache /\ m \in Unloaded(h, {pair[1]})
  BY DEF Within
<1>2. {pair[1]} \in SUBSET File
  BY <1>1 DEF HeldType
<1>. QED
  BY <1>1, <1>2, Visits

\* Nothing runs above the first, and nothing new is loaded.
LEMMA LinkedAlone ==
    ASSUME LinkedIn(held', Apart'), Len(run'.stack) \in {0, 1}
    PROVE  Linked'
<1>1. \A i \in 2..Len(run'.stack) : FALSE
  BY NoModules
<1>2. LinkedIn(held, Apart)'
  BY DEF LinkedIn, Within, Unloaded
<1>. QED
  BY <1>1, <1>2 DEF Linked

\* What is loaded, or some of it, is linked on.
LEMMA LinkedOn ==
    ASSUME Typed, OneRequest, Stacked, [Next]_vars, LinkedIn(held', Apart)
    PROVE  LinkedIn(held', Apart')
<1>1. CASE Emptied'
  BY <1>1 DEF Emptied, Empty, LinkedIn
<1>2. CASE ~Emptied'
  <2>1. Apart \subseteq Apart'
    BY <1>2, ApartGrows
  <2>. QED
    BY <2>1 DEF LinkedIn, Within
<1>. QED
  BY <1>1, <1>2

\* All that is loaded and runs is linked as it was when modules are noted.
LEMMA LinkedNoted ==
    ASSUME Typed, OneRequest, Stacked, Linked, [Next]_vars,
           NEW importers, Puts(importers), TypedHeld', run.stack # <<>>, run'.stack # <<>>,
           \A f \in File : held.importers[f] \subseteq importers[f]
    PROVE  /\ LinkedIn(held', Apart')
           /\ \A i \in 2..Len(run.stack) :
                Within(held', Apart', run.stack[i].file,
                       run.stack[i].seen \ {<<run.stack[i].file, disk[run.stack[i].file].text>>})
<1>1. /\ held'.cache = held.cache /\ held'.importers = importers
      /\ DOMAIN held.cache \subseteq DOMAIN held'.cache
      /\ \A f \in File : held.importers[f] \subseteq held'.importers[f]
  BY DEF Puts
<1>2. HeldType(held) /\ HeldType(held')
  BY DEF Typed, TypedHeld, HeldType
<1>3. Apart \subseteq Apart'
  BY ApartGrows DEF Emptied
<1>4. \A f, pairs : Within(held, Apart, f, pairs) => Within(held', Apart', f, pairs)
  BY <1>1, <1>2, <1>3, WithinMore
<1>. QED
  BY <1>1, <1>4 DEF Linked, LinkedIn

\* The frames above the first are those of before, but for the one on top.
LEMMA LinkedRunning ==
    ASSUME LinkedIn(held', Apart'), disk' = disk,
           \A i \in 2..Len(run'.stack) :
                Within(held', Apart', run'.stack[i].file,
                       run'.stack[i].seen \ {<<run'.stack[i].file, disk[run'.stack[i].file].text>>})
    PROVE  Linked'
<1>1. LinkedIn(held, Apart)'
  BY DEF LinkedIn, Within, Unloaded
<1>2. \A i \in 2..Len(run'.stack) :
        Within(held', Apart', run'.stack[i].file,
               run'.stack[i].seen \ {<<run'.stack[i].file, disk'[run'.stack[i].file].text>>})
  OBVIOUS
<1>. QED
  BY <1>1, <1>2 DEF Linked, Within, Unloaded

LEMMA LinkedLoaded ==
    ASSUME Typed, OneRequest, Stacked, Linked, [Next]_vars, NEW m \in File, ImportLoaded(m)
    PROVE  Linked'
<1>. DEFINE n == Len(run.stack)
            frame == Imported(Top, held.cache[m])
<1>1. /\ run.stack # <<>> /\ m \in DOMAIN held.cache /\ run'.stack = [run.stack EXCEPT ![n] = frame]
      /\ Puts(Noted(m)) /\ TypedHeld'
  BY ImportLoadedSteps DEF Steps, Typed
<1>2. /\ n \in Nat \ {0} /\ Top = run.stack[n] /\ run.stack \in Seq(Frames) /\ Top \in Frames
      /\ Top.left # <<>> /\ IsThere(m)
  BY <1>1, TopFrame DEF Typed, TypedRun, ImportLoaded, Importing
<1>3. held.cache[m] \in SUBSET Pair
  BY <1>1 DEF Typed, TypedHeld, HeldType
<1>4. frame \in Frames /\ frame.file = Top.file /\ frame.seen = Top.seen \cup held.cache[m]
  BY <1>2, <1>3, FrameType DEF Imported, Frames
<1>. HIDE DEF frame
<1>5. Len(run'.stack) = n /\ \A i \in 1..n : run'.stack[i] = IF i = n THEN frame ELSE run.stack[i]
  BY <1>1, <1>2, <1>4, SetLast
<1>6. /\ \A f \in File : held.importers[f] \subseteq Noted(m)[f]
      /\ Top.file # None => Top.file \in Noted(m)[m]
  BY <1>1, <1>2, NotedType DEF Typed
<1>60. run'.stack # <<>>
  BY <1>2, <1>5
<1>7. /\ LinkedIn(held', Apart')
      /\ \A i \in 2..n : Within(held', Apart', run.stack[i].file,
            run.stack[i].seen \ {<<run.stack[i].file, disk[run.stack[i].file].text>>})
  BY <1>1, <1>6, <1>60, LinkedNoted
<1>8. disk' = disk
  BY DEF ImportLoaded
<1>9. /\ m \in DOMAIN held'.cache /\ held'.cache[m] = held.cache[m] /\ held'.importers = Noted(m)
      /\ HeldType(held')
  BY <1>1 DEF Puts, TypedHeld, HeldType
<1>10. Within(held', Apart', m, held.cache[m])
  BY <1>7, <1>9 DEF LinkedIn
<1>11. ASSUME n \in 2..n PROVE Within(held', Apart', Top.file, held.cache[m])
  <2>1. Top.file \in File
    BY <1>2, <1>11 DEF Stacked
  <2>2. Top.file # None
    BY <2>1, WorkerAssumption DEF WorkerAssumption
  <2>. QED
    BY <1>6, <1>9, <1>10, <2>2, WithinImporter
<1>12. ASSUME NEW i \in 2..n
       PROVE  Within(held', Apart', run'.stack[i].file,
                run'.stack[i].seen \ {<<run'.stack[i].file, disk[run'.stack[i].file].text>>})
  <2>1. i \in 1..n
    OBVIOUS
  <2>2. CASE i = n
    <3>1. run'.stack[i].file = Top.file /\ run'.stack[i].seen = Top.seen \cup held.cache[m]
      BY <1>4, <1>5, <2>1, <2>2
    <3>2. Within(held', Apart', Top.file, Top.seen \ {<<Top.file, disk[Top.file].text>>})
      BY <1>2, <1>7, <2>2
    <3>3. Within(held', Apart', Top.file, held.cache[m])
      BY <1>11, <2>2
    <3>4. Within(held', Apart', Top.file, (Top.seen \cup held.cache[m]) \ {<<Top.file, disk[Top.file].text>>})
      BY <3>2, <3>3 DEF Within
    <3>. QED
      BY <3>1, <3>4
  <2>3. CASE i # n
    BY <1>5, <1>7, <2>1, <2>3
  <2>. QED
    BY <2>2, <2>3
<1>. QED
  BY <1>5, <1>7, <1>8, <1>12, LinkedRunning

LEMMA LinkedBegun ==
    ASSUME Typed, OneRequest, Stacked, Linked, [Next]_vars, NEW m \in File, BeginModule(m)
    PROVE  Linked'
<1>. DEFINE n == Len(run.stack)
            frame == Frame(m, disk[m].text, {<<m, disk[m].text>>})
<1>1. /\ run.stack # <<>> /\ run'.stack = Append(run.stack, frame) /\ frame \in Frames
      /\ Puts(Noted(m)) /\ TypedHeld'
  BY BeginModuleSteps DEF Steps, Typed
<1>2. n \in Nat \ {0} /\ run.stack \in Seq(Frames)
  BY <1>1, TopFrame DEF Typed, TypedRun
<1>3. frame.file = m /\ frame.seen = {<<m, disk[m].text>>}
  BY DEF Frame
<1>. HIDE DEF frame
<1>4. Len(run'.stack) = n + 1 /\ run'.stack[n + 1] = frame /\ \A i \in 1..n : run'.stack[i] = run.stack[i]
  BY <1>1, <1>2
<1>5. \A f \in File : held.importers[f] \subseteq Noted(m)[f]
  BY <1>1, NotedType DEF Typed
<1>50. run'.stack # <<>>
  BY <1>2, <1>4
<1>6. /\ LinkedIn(held', Apart')
      /\ \A i \in 2..n : Within(held', Apart', run.stack[i].file,
            run.stack[i].seen \ {<<run.stack[i].file, disk[run.stack[i].file].text>>})
  BY <1>1, <1>2, <1>5, <1>50, LinkedNoted
<1>7. disk' = disk
  BY DEF BeginModule
<1>8. \A i \in 2..(n + 1) : i = n + 1 \/ (i \in 2..n /\ i \in 1..n)
  BY <1>2
<1>9. Within(held', Apart', m, {})
  BY DEF Within
<1>10. \A i \in 2..(n + 1) :
        Within(held', Apart', run'.stack[i].file,
               run'.stack[i].seen \ {<<run'.stack[i].file, disk[run'.stack[i].file].text>>})
  <2>1. SUFFICES ASSUME NEW i \in 2..(n + 1), i = n + 1
                 PROVE  Within(held', Apart', run'.stack[i].file,
                            run'.stack[i].seen \ {<<run'.stack[i].file, disk[run'.stack[i].file].text>>})
    BY <1>4, <1>6, <1>8
  <2>2. run'.stack[i].file = m /\ run'.stack[i].seen \ {<<m, disk[m].text>>} = {}
    BY <1>3, <1>4, <2>1
  <2>. QED
    BY <1>9, <2>2
<1>. QED
  BY <1>4, <1>6, <1>7, <1>10, LinkedRunning

LEMMA LinkedEnded ==
    ASSUME Typed, OneRequest, Stacked, Linked, [Next]_vars, EndModule
    PROVE  Linked'
<1>. DEFINE n == Len(run.stack)
            m == Top.file
            own == <<m, disk[m].text>>
            module == Module
<1>1. /\ n \in Nat /\ 2 <= n /\ n \in 2..n
      /\ Top = run.stack[n] /\ m \in File \ DOMAIN held.cache
      /\ run.stack[n - 1] \in Frames
  BY EndModuleSteps DEF Typed
<1>2. /\ Len(run'.stack) = n - 1
      /\ \A i \in 1..(n - 1) : /\ run'.stack[i].file = run.stack[i].file
                               /\ \/ run'.stack[i].seen = run.stack[i].seen
                                  \/ i = n - 1 /\ run'.stack[i].seen = run.stack[i].seen \cup module
  <2>1. Len(run'.stack) = n - 1
    BY EndModuleSteps DEF Typed, Steps
  <2>. QED
    BY <2>1, FramesEnded
<1>3. /\ held'.cache = Loaded(m, module) /\ held'.importers = held.importers /\ TypedHeld'
  BY EndModuleSteps DEF Typed
<1>4. disk' = disk
  BY DEF EndModule
<1>5. Within(held, Apart, m, Top.seen \ {own})
  BY <1>1 DEF Linked
<1>7. /\ DOMAIN held'.cache = DOMAIN held.cache \cup {m} /\ held'.cache[m] = module
      /\ \A f \in DOMAIN held.cache : held'.cache[f] = held.cache[f]
  BY <1>1, <1>3 DEF Loaded
<1>8. HeldType(held) /\ HeldType(held')
  BY <1>3 DEF Typed, TypedHeld, HeldType
<1>81. Apart \subseteq Apart'
  <2>1. ~Emptied'
    BY <1>7 DEF Emptied, Empty
  <2>. QED
    BY <2>1, ApartGrows
<1>9. \A f, pairs : Within(held, Apart, f, pairs) => Within(held', Apart', f, pairs)
  BY <1>3, <1>7, <1>8, <1>81, WithinMore
<1>10. Within(held', Apart', m, module)
  <2>1. Within(held', Apart', m, Top.seen \ {own})
    BY <1>5, <1>9
  <2>2. m \in Unloaded(held', {m})
    BY <1>1, <1>8, Visits
  <2>3. Within(held', Apart', m, {own} \cap module)
    <3>1. own[1] = m
      OBVIOUS
    <3>. HIDE DEF own, m, module
    <3>. QED
      BY <1>7, <2>2, <3>1 DEF Within
  <2>4. module \ Apart' \subseteq Top.seen
    BY <1>81 DEF Module, Apart
  <2>. HIDE DEF module, m, own
  <2>. QED
    BY <2>1, <2>3, <2>4 DEF Within
<1>. HIDE DEF module, m
<1>11. LinkedIn(held', Apart')
  BY <1>7, <1>9, <1>10 DEF Linked, LinkedIn
<1>12. \A i \in 2..(n - 1) :
        Within(held', Apart', run'.stack[i].file,
               run'.stack[i].seen \ {<<run'.stack[i].file, disk[run'.stack[i].file].text>>})
  <2>1. SUFFICES ASSUME NEW i \in 2..(n - 1)
                 PROVE  Within(held', Apart', run'.stack[i].file,
                            run'.stack[i].seen \ {<<run'.stack[i].file, disk[run'.stack[i].file].text>>})
    OBVIOUS
  <2>2. i \in 2..n /\ i \in 1..(n - 1)
    BY <1>1
  <2>3. Within(held', Apart', run.stack[i].file,
               run.stack[i].seen \ {<<run.stack[i].file, disk[run.stack[i].file].text>>})
    BY <1>9, <2>2 DEF Linked
  <2>4. CASE run'.stack[i].seen = run.stack[i].seen
    BY <1>2, <2>2, <2>3, <2>4
  <2>5. CASE i = n - 1 /\ run'.stack[i].seen = run.stack[i].seen \cup module
    <3>. DEFINE f == run.stack[n - 1].file
                seen == run.stack[n - 1].seen
    <3>1. run'.stack[i].file = f /\ run'.stack[i].seen = seen \cup module
      BY <1>2, <2>2, <2>5
    <3>2. run.stack[n].file = m /\ n - 1 + 1 = n /\ n - 1 \in 2..(n - 1)
      BY <1>1, <2>5 DEF m
    <3>3. f \in held.importers[m]
      <4>1. \A j \in 2..(n - 1) : run.stack[j].file \in held.importers[run.stack[j + 1].file]
        BY DEF Stacked
      <4>. QED
        BY <3>2, <4>1
    <3>4. Within(held', Apart', f, module)
      BY <1>3, <1>7, <1>8, <1>10, <3>3, WithinImporter
    <3>5. Within(held', Apart', f, seen \ {<<f, disk[f].text>>})
      BY <2>3, <2>5
    <3>. HIDE DEF f, seen
    <3>6. Within(held', Apart', f, (seen \cup module) \ {<<f, disk[f].text>>})
      BY <3>4, <3>5 DEF Within
    <3>. QED
      BY <3>1, <3>6
  <2>. QED
    BY <1>2, <2>2, <2>4, <2>5
<1>. QED
  BY <1>2, <1>4, <1>11, <1>12, LinkedRunning

\* A module that runs was begun from what its file says, or said when it was missed.
LEMMA LinkedStill ==
    ASSUME Typed, OneRequest, Stacked, Linked, [Next]_vars, UNCHANGED <<held, run>>
    PROVE  Linked'
<1>1. CASE Emptied'
  <2>1. LinkedIn(held', Apart')
    BY <1>1 DEF Emptied, Empty, LinkedIn
  <2>2. Len(run'.stack) = 0
    BY <1>1 DEF Emptied
  <2>. QED
    BY <2>1, <2>2, LinkedAlone
<1>2. CASE ~Emptied'
  <2>1. Apart \subseteq Apart' /\ missed' \subseteq Apart'
    BY <1>2, ApartGrows DEF Apart
  <2>2. LinkedIn(held, Apart)'
    <3>1. LinkedIn(held', Apart')
      BY LinkedOn DEF Linked
    <3>. QED
      BY <3>1 DEF LinkedIn, Within, Unloaded
  <2>3. ASSUME NEW i \in 2..Len(run.stack), NEW f, f = run.stack[i].file, NEW seen, seen = run.stack[i].seen
        PROVE  Within(held', Apart', f, seen \ {<<f, disk'[f].text>>})
    <3>1. f \in File /\ f \in Loading
      BY <2>3, InLoading DEF Stacked
    <3>2. Within(held', Apart, f, seen \ {<<f, disk[f].text>>})
      BY <2>3 DEF Linked
    <3>3. CASE disk'[f] = disk[f]
      BY <2>1, <3>2, <3>3 DEF Within
    <3>4. CASE disk'[f] # disk[f] /\ IsThere(f)
      <4>1. <<f, disk[f].text>> \in Apart'
        BY <2>1, <3>1, <3>4, WrittenMissed
      <4>. QED
        BY <2>1, <3>2, <4>1 DEF Within
    <3>5. CASE ~IsThere(f)
      <4>1. run.stack \in Seq(Frames) /\ i \in DOMAIN run.stack
        BY <2>3 DEF Typed, TypedRun
      <4>2. seen \subseteq Pair
        <5>1. run.stack[i] \in Frames
          BY <4>1
        <5>. QED
          BY <2>3, <5>1 DEF Frames
      <4>3. <<f, disk[f].text>> \notin seen
        BY <3>1, <3>5, <4>2, PrintOf, WorkerAssumption DEF Pair, WorkerAssumption, Typed
      <4>. QED
        BY <2>1, <3>2, <4>3 DEF Within
    <3>. QED
      BY <3>3, <3>4, <3>5
  <2>4. \A i \in 2..Len(run'.stack) :
            Within(held', Apart', run'.stack[i].file,
                   run'.stack[i].seen \ {<<run'.stack[i].file, disk'[run'.stack[i].file].text>>})
    BY <2>3
  <2>. QED
    BY <2>2, <2>4 DEF Linked, Within, Unloaded
<1>. QED
  BY <1>1, <1>2

LEMMA LinkedKept ==
    ASSUME Typed, OneRequest, Stacked, Linked, [Next]_vars
    PROVE  Linked'
<1>1. ASSUME held'.cache = Empty, run'.stack = <<>> PROVE Linked'
  <2>1. LinkedIn(held', Apart') /\ Len(run'.stack) = 0
    BY <1>1 DEF LinkedIn, Empty
  <2>. QED
    BY <2>1, LinkedAlone
<1>2. CASE Outside \/ Checks
  <2>1. UNCHANGED <<held, run>> \/ (held' = Fresh /\ run' = Waiting)
    BY <1>2 DEF Outside, Checks, Tick, Exit, Write, Receive, TimeOut, GiveUp, Fail, Ask, Dropped, script
  <2>. QED
    BY <1>1, <2>1, LinkedStill DEF Fresh, Waiting
<1>3. ASSUME held' = Current(held), Len(run'.stack) = 1 PROVE Linked'
  <2>1. LinkedIn(held', Apart)
    BY <1>3, CurrentKeeps DEF Linked, Typed, TypedHeld
  <2>. QED
    BY <1>3, <2>1, LinkedOn, LinkedAlone
<1>4. CASE Read
  <2>1. CASE ReadOn(Head(stdin))
    <3>1. held' = Current(held) /\ Len(run'.stack) = 1
      BY <1>4, <2>1, ReadEither, RequestFields DEF ReadOn
    <3>. QED
      BY <1>3, <3>1
  <2>2. CASE ReadAnew(Head(stdin))
    BY <1>1, <2>2 DEF ReadAnew
  <2>. QED
    BY <1>4, <2>1, <2>2, ReadEither
<1>5. CASE BeginProgram \/ EndProgram \/ Reply \/ ReplyFails
  <2>1. held'.cache = held.cache /\ held'.importers = held.importers
    BY <1>5, ProgramSteps, ReplySteps DEF Typed, Reports, ReportsNone, Notes
  <2>2. \E frame : run'.stack \in {<<>>, <<frame>>}
    <3>1. CASE BeginProgram \/ EndProgram
      BY <3>1, ProgramSteps DEF Typed, Steps
    <3>2. CASE Reply \/ ReplyFails
      BY <3>2, ReplySteps DEF Typed, Waiting
    <3>. QED
      BY <1>5, <3>1, <3>2
  <2>3. Len(run'.stack) \in {0, 1}
    BY <2>2
  <2>4. LinkedIn(held', Apart)
    BY <2>1 DEF Linked, LinkedIn, Within, Unloaded
  <2>. QED
    BY <2>3, <2>4, LinkedOn, LinkedAlone
<1>6. CASE BeginBuffer
  <2>1. held' = Current(held) /\ Len(run'.stack) = 1
    BY <1>6, RequestSteps DEF Checking
  <2>. QED
    BY <1>3, <2>1
<1>7. ASSUME NEW m \in File, ImportFails(m) PROVE Linked'
  <2>1. run.stack # <<>> /\ Puts(Noted(m)) /\ TypedHeld' /\ \E frame : run'.stack = <<frame>>
    BY <1>7, ImportFailsSteps DEF Steps, Typed
  <2>2. \A f \in File : held.importers[f] \subseteq Noted(m)[f]
    BY <2>1, NotedType DEF Typed
  <2>3. LinkedIn(held', Apart')
    BY <2>1, <2>2, LinkedNoted
  <2>4. Len(run'.stack) = 1
    BY <2>1
  <2>. QED
    BY <2>3, <2>4, LinkedAlone
<1>8. CASE Script
  <2>1. CASE ReadFails
    BY <2>1, LinkedStill DEF ReadFails, script
  <2>. QED
    BY <1>4, <1>5, <1>6, <1>7, <1>8, <2>1, LinkedLoaded, LinkedBegun, LinkedEnded DEF Script
<1>. QED
  BY <1>2, <1>8, LinkedStill DEF Next, vars, script

-----------------------------------------------------------------------------
(* What a check reads is recent. *)

LEMMA DiskRecent ==
    ASSUME TypedDisk, Reads, asked # None, NEW f \in File, IsThere(f)
    PROVE  <<f, disk[f].text>> \in Recent
  BY PrintOf DEF Reads, Recent, Pair

\* Something runs, or is to be read, only while it is waited for.
LEMMA AskedRunning ==
    ASSUME OneRequest
    PROVE  /\ run.phase # "waiting" => asked # None /\ stdout = <<>>
           /\ stdin # <<>> /\ process = "running" => asked # None /\ stdout = <<>> /\ run = Waiting
  BY DEF OneRequest, Waiting

\* A program that is found as it was says what its files say, but for what was missed.
LEMMA ProgramRecent ==
    ASSUME Typed, ProgramTold, Reads, asked # None, NEW request \in Request, held.key = KeyOf(request)
    PROVE  held.program \subseteq Recent
<1>. SUFFICES ASSUME NEW pair \in held.program PROVE pair \in Recent
  OBVIOUS
<1>1. pair \in Pair /\ pair[1] \in File /\ pair[2] \in Text /\ pair = <<pair[1], pair[2]>>
  BY DEF Typed, TypedHeld, HeldType, Pair
<1>2. CASE pair \in missed
  BY <1>1, <1>2 DEF Recent
<1>3. CASE pair \notin missed
  <2>1. PICK i \in DOMAIN held.key.paths :
          held.key.paths[i] = pair[1] /\ Tells(held.key.fingerprints[i], pair[1], pair[2])
    BY <1>1, <1>3 DEF ProgramTold, KeyTells
  <2>2. held.key.fingerprints[i] = Fingerprint(pair[1])
    BY <2>1 DEF KeyOf
  <2>3. disk[pair[1]].text = pair[2]
    BY <1>1, <2>1, <2>2, SamePrint DEF Typed
  <2>. QED
    BY <1>1, <2>3 DEF Reads, Recent
<1>. QED
  BY <1>2, <1>3

\* What runs is recent.
LEMMA RunningRecent ==
    ASSUME Typed, Reads
    PROVE  /\ Hosting \subseteq Recent
           /\ run.stack # <<>> => Top.seen \subseteq Recent
           /\ run.phase # "waiting" /\ run.stack # <<>> => Module \subseteq Recent
<1>1. run.stack # <<>> => 1 \in DOMAIN run.stack /\ Len(run.stack) \in DOMAIN run.stack /\ Top = run.stack[Len(run.stack)]
  BY TopFrame DEF Typed
<1>2. Hosting \subseteq Recent /\ (run.stack # <<>> => Top.seen \subseteq Recent)
  BY <1>1 DEF Reads, Hosting
<1>. QED
  BY <1>2 DEF Module, Reads

\* What is loaded after `unload-changed` is recent.
LEMMA LoadedRecent ==
    ASSUME Typed, Linked, Told, Reads, asked # None, held.program \subseteq Recent
    PROVE  \A f \in DOMAIN Current(held).cache : Current(held).cache[f] \subseteq Recent
<1>1. Apart \cap Pair \subseteq Recent
  BY RunningRecent DEF Apart, Recent
<1>2. \A f \in File : disk[f].text \in since[f]
  BY DEF Reads
<1>. QED
  BY <1>1, <1>2, CurrentRecent DEF Typed, TypedHeld, Linked, Told

\* All but what a step touches.
LEMMA ReadsKeptBy ==
    ASSUME Reads, UNCHANGED <<disk, since, answer, asked>>, missed \subseteq missed',
           stdout' = stdout \/ stdout' = <<>> \/ \E reply : stdout' = <<reply>> /\ reply.read \subseteq Recent,
           run'.phase # "waiting" => held'.program \subseteq Recent' /\
                                     \A f \in DOMAIN held'.cache : held'.cache[f] \subseteq Recent',
           \A i \in DOMAIN run'.stack : run'.stack[i].seen \subseteq Recent'
    PROVE  Reads'
<1>1. Recent \subseteq Recent'
  BY DEF Recent
<1>2. stdout' # <<>> => Head(stdout').read \subseteq Recent'
  BY <1>1 DEF Reads
<1>. QED
  BY <1>1, <1>2 DEF Reads

LEMMA ReadsOutside ==
    ASSUME Typed, OneRequest, Reads, Outside \/ Checks
    PROVE  Reads'
<1>1. ASSUME UNCHANGED <<asked, stdout, answer, held, run>>, missed \subseteq missed', \A f \in File : since[f] \subseteq since'[f],
             asked # None => \A f \in File : disk'[f].text \in since'[f]
      PROVE  Reads'
  <2>1. Recent \subseteq Recent'
    BY <1>1 DEF Recent, Pair
  <2>. QED
    BY <1>1, <2>1 DEF Reads
<1>2. ASSUME NEW f \in File, NEW text \in Says[f] \cup {None}, Write(f, text) PROVE Reads'
  <2>1. /\ since' = IF asked = None THEN since ELSE [since EXCEPT ![f] = @ \cup {text}]
        /\ missed \subseteq missed'
        /\ disk' = [disk EXCEPT ![f] = IF text = None THEN NoFile
                                       ELSE [text |-> text, second |-> now, stamp |-> writes']]
        /\ UNCHANGED <<asked, stdout, answer, held, run>>
    BY <1>2 DEF Write, rust, pipes, script
  <2>2. \A g \in File : since'[g] = IF g = f /\ asked # None THEN since[f] \cup {text} ELSE since[g]
    BY <2>1 DEF Typed, TypedWorker
  <2>3. disk'[f].text = text /\ \A g \in File \ {f} : disk'[g] = disk[g]
    BY <2>1 DEF Typed, TypedDisk, NoFile
  <2>. QED
    BY <1>1, <2>1, <2>2, <2>3 DEF Reads
<1>3. CASE Tick
  BY <1>1, <1>3 DEF Tick, rust, pipes, script, history, Reads
<1>4. CASE Exit
  <2>1. run'.phase = "waiting" /\ run'.stack = <<>> /\ DOMAIN run'.stack = {}
    BY <1>4 DEF Exit, Waiting
  <2>2. UNCHANGED <<asked, disk, since, answer, stdout, missed>>
    BY <1>4 DEF Exit, rust, history
  <2>. QED
    BY <2>1, <2>2, ReadsKeptBy
<1>5. CASE Receive
  <2>1. stdout # <<>> /\ stdout = <<Head(stdout)>> /\ stdout' = Tail(stdout)
    BY <1>5 DEF Receive, Typed, TypedWorker
  <2>2. stdout' = <<>>
    BY <2>1
  <2>3. answer'.read = Head(stdout).read /\ asked' = None /\ UNCHANGED <<disk, since, missed, held, run>>
    BY <1>5 DEF Receive, Answer, script
  <2>4. Recent' = Recent
    BY <2>3 DEF Recent
  <2>. QED
    BY <2>1, <2>2, <2>3, <2>4 DEF Reads
<1>6. CASE TimeOut \/ Fail
  <2>1. run' = Waiting /\ stdout' = <<>> /\ asked' = None /\ UNCHANGED <<disk, since, missed>>
    BY <1>6 DEF TimeOut, GiveUp, Fail, Dropped
  <2>2. answer'.read = {}
    <3>1. CASE TimeOut
      BY <3>1 DEF TimeOut, GiveUp, Answer
    <3>2. CASE Fail
      BY <3>2 DEF Fail, Answer
    <3>. QED
      BY <1>6, <3>1, <3>2
  <2>3. run'.phase = "waiting" /\ run'.stack = <<>> /\ DOMAIN run'.stack = {}
    BY <2>1 DEF Waiting
  <2>. QED
    BY <2>1, <2>2, <2>3 DEF Reads
<1>7. ASSUME NEW request \in Request, Ask(request) PROVE Reads'
  <2>1. CASE hung.request = request /\ hung.inputs = Inputs(request)
    <3>1. /\ asked = None /\ answer'.read = {}
          /\ UNCHANGED <<asked, disk, since, missed, stdout, held, run>>
      BY <1>7, <2>1 DEF Ask, pipes, script, history
    <3>2. Recent' = Recent
      BY <3>1 DEF Recent
    <3>. QED
      BY <3>1, <3>2 DEF Reads
  <2>2. CASE ~(hung.request = request /\ hung.inputs = Inputs(request))
    <3>1. /\ asked = None /\ answer' = None /\ since' = [f \in File |-> {disk[f].text}]
          /\ UNCHANGED <<disk, stdout, held, run>>
      BY <1>7, <2>2 DEF Ask, script
    <3>2. stdout = <<>> /\ run.phase = "waiting" /\ run.stack = <<>> /\ DOMAIN run.stack = {}
      BY <3>1 DEF OneRequest, Waiting
    <3>. QED
      BY <3>1, <3>2 DEF Reads
  <2>. QED
    BY <2>1, <2>2
<1>. QED
  BY <1>2, <1>3, <1>4, <1>5, <1>6, <1>7 DEF Outside, Checks

LEMMA ReadsScript ==
    ASSUME Typed, OneRequest, Stacked, Linked, Told, ProgramTold, Reads, [Next]_vars, Script
    PROVE  Reads'
<1>1. UNCHANGED <<disk, since, answer, asked>>
  BY DEF Script, Read, ReadFails, BeginProgram, EndProgram, BeginBuffer, EndModule, Reply, ReplyFails,
     ImportLoaded, BeginModule, ImportFails, rust, history
<1>2. \A i \in DOMAIN run.stack : run.stack[i].seen \subseteq Recent
  BY DEF Reads
<1>3. missed \subseteq missed' => Recent \subseteq Recent'
  BY <1>1 DEF Recent
<1>4. ASSUME stdout' = stdout, missed' = missed, NEW request, run' = Checking(request),
             held' = Current(held), asked # None, held.program \subseteq Recent
      PROVE  Reads'
  <2>1. DOMAIN run'.stack = {1} /\ run'.stack[1].seen = {}
    BY <1>4 DEF Checking, Frame
  <2>2. held'.program \subseteq Recent'
    BY <1>3, <1>4, CurrentKeeps DEF Typed, TypedHeld
  <2>3. \A f \in DOMAIN held'.cache : held'.cache[f] \subseteq Recent'
    BY <1>3, <1>4, LoadedRecent
  <2>. QED
    BY <1>1, <1>4, <2>1, <2>2, <2>3, ReadsKeptBy
<1>5. CASE Read
  <2>1. asked # None /\ stdout = <<>> /\ stdout' = stdout
    BY <1>5, AskedRunning DEF Read
  <2>2. CASE ReadOn(Head(stdin))
    <3>1. held.program \subseteq Recent
      BY <1>5, <2>1, <2>2, ReadEither, ProgramRecent DEF ReadOn
    <3>. QED
      BY <1>4, <2>1, <2>2, <3>1 DEF ReadOn
  <2>3. CASE ReadAnew(Head(stdin))
    <3>1. DOMAIN run'.stack = {} /\ held'.program = {} /\ DOMAIN held'.cache = {}
      BY <2>3 DEF ReadAnew, Empty
    <3>2. answer' = None
      BY <1>1, <2>1 DEF Reads
    <3>. QED
      BY <1>1, <2>1, <3>1, <3>2 DEF Reads
  <2>. QED
    BY <1>5, <2>2, <2>3, ReadEither
<1>6. CASE ReadFails
  <2>1. PICK reply : SentError(reply)
    BY <1>6, ReplySent
  <2>2. stdout' = <<reply>> /\ reply.read \subseteq Recent
    BY <2>1 DEF SentError, Sent
  <2>3. UNCHANGED <<held, run, missed>> /\ run.phase = "waiting" /\ DOMAIN run.stack = {}
    BY <1>6 DEF ReadFails, script, history, Waiting
  <2>. QED
    BY <1>1, <2>2, <2>3, ReadsKeptBy
<1>7. CASE BeginProgram
  <2>. DEFINE f == Head(run.todo)
  <2>1. /\ run.phase = "loading" /\ f \in File /\ run'.phase = "loading" /\ held' = held
        /\ IF IsThere(f)
           THEN run'.stack = <<Frame(f, disk[f].text, {<<f, disk[f].text>>})>>
           ELSE run'.stack = <<>>
        /\ missed' = missed
    BY <1>7, ProgramSteps DEF Typed
  <2>2. stdout' = stdout
    BY <1>7 DEF BeginProgram, pipes
  <2>3. IsThere(f) => <<f, disk[f].text>> \in Recent'
    BY <1>3, <2>1, DiskRecent, AskedRunning DEF Typed
  <2>. HIDE DEF f
  <2>4. \A i \in DOMAIN run'.stack : run'.stack[i].seen \subseteq Recent'
    <3>1. CASE IsThere(f)
      <4>1. PICK frame : run'.stack = <<frame>> /\ frame.seen = {<<f, disk[f].text>>}
        BY <2>1, <3>1 DEF Frame
      <4>2. DOMAIN run'.stack = {1} /\ run'.stack[1] = frame
        BY <4>1
      <4>. QED
        BY <2>3, <3>1, <4>1, <4>2
    <3>2. CASE ~IsThere(f)
      BY <2>1, <3>2
    <3>. QED
      BY <3>1, <3>2
  <2>5. held'.program \subseteq Recent' /\ \A g \in DOMAIN held'.cache : held'.cache[g] \subseteq Recent'
    BY <1>3, <2>1 DEF Reads
  <2>. QED
    BY <1>1, <2>1, <2>2, <2>4, <2>5, ReadsKeptBy
<1>8. CASE EndProgram
  <2>1. /\ run.phase = "loading" /\ run.stack # <<>> /\ run'.phase = "loading" /\ run'.stack = <<>>
        /\ held'.program = held.program \cup run.stack[1].seen /\ held'.cache = held.cache
        /\ missed \subseteq missed'
    BY <1>8, ProgramSteps DEF Steps, Typed
  <2>2. stdout' = stdout /\ DOMAIN run'.stack = {}
    BY <1>8, <2>1 DEF EndProgram, pipes
  <2>3. 1 \in DOMAIN run.stack
    BY <2>1, TopFrame DEF Typed
  <2>4. held'.program \subseteq Recent' /\ \A g \in DOMAIN held'.cache : held'.cache[g] \subseteq Recent'
    BY <1>2, <1>3, <2>1, <2>3 DEF Reads
  <2>. QED
    BY <1>1, <2>1, <2>2, <2>4, ReadsKeptBy
<1>9. CASE BeginBuffer
  <2>1. /\ run.phase = "loading" /\ held' = Current(held) /\ run' = Checking(run.request)
        /\ stdout' = stdout /\ missed' = missed
    BY <1>9, RequestSteps DEF BeginBuffer, pipes
  <2>2. asked # None /\ held.program \subseteq Recent
    BY <2>1, AskedRunning DEF Reads
  <2>. QED
    BY <1>4, <2>1, <2>2
<1>10. ASSUME NEW m \in File, ImportLoaded(m) \/ BeginModule(m) \/ ImportFails(m) PROVE Reads'
  <2>1. /\ Puts(Noted(m)) /\ run.stack # <<>> /\ run.phase # "waiting" /\ run'.stack \in Seq(Frames)
    <3>1. Puts(Noted(m)) /\ run.stack # <<>> /\ TypedRun'
      BY <1>10, ImportLoadedSteps, BeginModuleSteps, ImportFailsSteps DEF Typed, Steps
    <3>. QED
      BY <3>1 DEF Stacked, TypedRun
  <2>2. stdout' = stdout /\ missed' = missed
    BY <1>10 DEF ImportLoaded, BeginModule, ImportFails, pipes, history
  <2>3. held'.program = held.program /\ held'.cache = held.cache
    BY <2>1 DEF Puts
  <2>4. held'.program \subseteq Recent' /\ \A g \in DOMAIN held'.cache : held'.cache[g] \subseteq Recent'
    BY <1>3, <2>1, <2>2, <2>3 DEF Reads
  <2>5. ASSUME NEW i \in DOMAIN run'.stack PROVE run'.stack[i].seen \subseteq Recent'
    <3>1. i \in 1..Len(run'.stack) /\ DOMAIN run.stack = 1..Len(run.stack)
      BY <2>1, <2>5, TopFrame DEF Typed
    <3>2. IsThere(m) => <<m, disk[m].text>> \in Recent
      BY <2>1, DiskRecent, AskedRunning DEF Typed
    <3>3. m \in DOMAIN held.cache => held.cache[m] \subseteq Recent
      BY <2>1 DEF Reads
    <3>4. \/ i \in 1..Len(run.stack) /\ run'.stack[i].seen = run.stack[i].seen
          \/ /\ i \in 1..Len(run.stack) /\ m \in DOMAIN held.cache
             /\ run'.stack[i].seen = run.stack[i].seen \cup held.cache[m]
          \/ IsThere(m) /\ run'.stack[i].seen = {<<m, disk[m].text>>}
      BY <1>10, <3>1, FramesAfter
    <3>5. run'.stack[i].seen \subseteq Recent
      BY <1>2, <3>1, <3>2, <3>3, <3>4
    <3>. QED
      BY <1>3, <2>2, <3>5
  <2>. QED
    BY <1>1, <2>2, <2>4, <2>5, ReadsKeptBy
<1>11. CASE EndModule
  <2>1. /\ run.stack # <<>> /\ run.phase # "waiting" /\ run'.stack \in Seq(Frames)
        /\ held'.cache = Loaded(Top.file, Module) /\ held'.program = held.program
    BY <1>11, EndModuleSteps DEF Typed, Steps
  <2>2. stdout' = stdout /\ missed' = missed
    BY <1>11 DEF EndModule, pipes, history
  <2>3. Module \subseteq Recent
    BY <2>1, RunningRecent
  <2>4. held'.program \subseteq Recent' /\ \A g \in DOMAIN held'.cache : held'.cache[g] \subseteq Recent'
    BY <1>3, <2>1, <2>2, <2>3 DEF Reads, Loaded
  <2>5. ASSUME NEW i \in DOMAIN run'.stack PROVE run'.stack[i].seen \subseteq Recent'
    <3>1. i \in 1..Len(run'.stack) /\ DOMAIN run.stack = 1..Len(run.stack) /\ Len(run.stack) \in Nat
      BY <2>1, <2>5, TopFrame DEF Typed
    <3>2. /\ i \in 1..(Len(run.stack) - 1)
          /\ run'.stack[i].seen \in {run.stack[i].seen, run.stack[i].seen \cup Module}
      BY <1>11, <3>1, FramesEnded
    <3>3. i \in DOMAIN run.stack
      BY <3>1, <3>2
    <3>. QED
      BY <1>2, <1>3, <2>2, <2>3, <3>2, <3>3
  <2>. QED
    BY <1>1, <2>2, <2>4, <2>5, ReadsKeptBy
<1>12. CASE Reply \/ ReplyFails
  <2>1. run.stack # <<>> /\ run' = Waiting /\ missed' = missed
    BY <1>12, ReplySteps DEF Typed
  <2>2. PICK reply : stdout' = <<reply>> /\ (reply.read = run.stack[1].seen \/ reply.read = {})
    BY <1>12, ReplySent DEF SentReport, SentError, Sent
  <2>3. 1 \in DOMAIN run.stack
    BY <2>1, TopFrame DEF Typed
  <2>4. reply.read \subseteq Recent
    BY <1>2, <2>2, <2>3
  <2>5. run'.phase = "waiting" /\ DOMAIN run'.stack = {}
    BY <2>1 DEF Waiting
  <2>. QED
    BY <1>1, <2>1, <2>2, <2>4, <2>5, ReadsKeptBy
<1>. QED
  BY <1>5, <1>6, <1>7, <1>8, <1>9, <1>10, <1>11, <1>12 DEF Script

LEMMA ReadsKept ==
    ASSUME Typed, OneRequest, Stacked, Linked, Told, ProgramTold, Reads, [Next]_vars
    PROVE  Reads'
<1>1. CASE UNCHANGED vars
  <2>1. UNCHANGED <<asked, disk, since, missed, answer, stdout, held, run>>
    BY <1>1 DEF vars, rust, pipes, script, history
  <2>2. Recent' = Recent
    BY <2>1 DEF Recent
  <2>. QED
    BY <2>1, <2>2 DEF Reads
<1>. QED
  BY <1>1, ReadsOutside, ReadsScript DEF Next

-----------------------------------------------------------------------------
(* Answers, names, and what hung. *)

LEMMA AnswersMatchKept == OneRequest /\ AnswersMatch /\ [Next]_vars => AnswersMatch'
<1>. SUFFICES ASSUME OneRequest, AnswersMatch, [Next]_vars PROVE AnswersMatch'
  OBVIOUS
<1>1. CASE answer' = answer
  BY <1>1 DEF AnswersMatch
<1>2. CASE Receive
  <2>1. answer'.request = asked /\ answer'.replied = Head(stdout).request
    BY <1>2 DEF Receive, Answer
  <2>2. Head(stdout).request = asked
    BY <1>2 DEF Receive, OneRequest
  <2>. QED
    BY <2>1, <2>2 DEF AnswersMatch
<1>3. CASE TimeOut
  BY <1>3 DEF TimeOut, GiveUp, Answer, AnswersMatch
<1>4. CASE Fail
  BY <1>4 DEF Fail, Answer, AnswersMatch
<1>5. ASSUME NEW request \in Request, Ask(request) PROVE AnswersMatch'
  BY <1>5 DEF Ask, AnswersMatch
<1>6. CASE Outside \/ Script \/ UNCHANGED vars
  BY <1>1, <1>6 DEF Outside, Tick, Exit, Write, Script, Read, ReadFails, BeginProgram, EndProgram, BeginBuffer, EndModule, Reply,
     ReplyFails, ImportLoaded, BeginModule, ImportFails, vars, rust
<1>. QED
  BY <1>2, <1>3, <1>4, <1>5, <1>6 DEF Next, Checks

LEMMA HungTypedKept == Typed /\ HungTyped /\ [Next]_vars => HungTyped'
<1>. SUFFICES ASSUME Typed, HungTyped, [Next]_vars PROVE HungTyped'
  OBVIOUS
<1>1. CASE hung' = hung
  BY <1>1 DEF HungTyped
<1>2. CASE TimeOut
  <2>1. hung' = [request |-> asked, inputs |-> Inputs(asked)] /\ asked \in Request \cup {None}
    BY <1>2 DEF TimeOut, GiveUp, Typed, TypedWorker
  <2>2. DOMAIN Inputs(asked) \subseteq File
    BY DEF Inputs, Follow
  <2>. QED
    BY <2>1, <2>2 DEF HungTyped
<1>3. ASSUME NEW request \in Request, Ask(request) PROVE HungTyped'
  <2>1. hung' = hung \/ hung' = NoHung
    BY <1>3 DEF Ask
  <2>. QED
    BY <1>1, <2>1 DEF NoHung, Empty, HungTyped
<1>4. CASE Outside \/ Script \/ Receive \/ Fail \/ UNCHANGED vars
  BY <1>1, <1>4 DEF Outside, Tick, Exit, Write, Receive, Fail, Script, Read, ReadFails, BeginProgram, EndProgram, BeginBuffer, EndModule, Reply,
     ReplyFails, ImportLoaded, BeginModule, ImportFails, vars, rust
<1>. QED
  BY <1>2, <1>3, <1>4 DEF Next, Checks

\* What is noted and told of goes on to be.
LEMMA NamesToldOn ==
    ASSUME Typed, OneRequest, Stacked, NamesTold, [Next]_vars,
           \A f : Reported(f)' = Reported(f), lost \subseteq lost',
           \A f \in DOMAIN held'.fingerprints \ lost' :
                f \in DOMAIN held.fingerprints /\ held'.cache[f] = held.cache[f]
    PROVE  NamesTold'
<1>1. CASE Emptied'
  <2>1. DOMAIN held'.fingerprints \subseteq DOMAIN held'.cache
    BY AllTyped DEF Typed, TypedHeld, HeldType
  <2>2. DOMAIN held'.fingerprints = {}
    BY <1>1, <2>1 DEF Emptied, Empty
  <2>. QED
    BY <2>2 DEF NamesTold
<1>2. CASE ~Emptied'
  <2>1. missed \subseteq missed'
    BY <1>2, MissedGrows
  <2>. QED
    BY <2>1 DEF NamesTold
<1>. QED
  BY <1>1, <1>2

\* An error reports no names.
LEMMA ErrorTellsNone ==
    ASSUME NEW reply, SentError(reply), names' = names
    PROVE  \A f : Reported(f)' = Reported(f)
<1>1. stdout = <<>> /\ stdout' # <<>> /\ DOMAIN Head(stdout').names = {}
  BY DEF SentError, Sent, Empty
<1>. QED
  BY <1>1 DEF Reported

LEMMA NamesToldKept ==
    ASSUME Typed, OneRequest, Stacked, Told, NamesTold, [Next]_vars
    PROVE  NamesTold'
<1>1. ASSUME UNCHANGED <<stdout, names, lost>>,
             \A f \in DOMAIN held'.fingerprints :
                f \in DOMAIN held.fingerprints /\ held'.cache[f] = held.cache[f]
      PROVE  NamesTold'
  BY <1>1, NamesToldOn DEF Reported
<1>2. CASE held' = Fresh
  BY <1>2 DEF NamesTold, Fresh, Empty
<1>3. CASE Outside
  <2>1. UNCHANGED <<stdout, names, lost>> /\ (held' = held \/ held' = Fresh)
    BY <1>3 DEF Outside, Tick, Exit, Write, rust, pipes, script, history
  <2>. QED
    BY <1>1, <1>2, <2>1
<1>4. CASE Receive
  <2>1. \E reply : stdout = <<reply>> /\ stdout' = Tail(stdout)
    BY <1>4 DEF Receive, Typed, TypedWorker
  <2>2. /\ held' = held /\ stdout # <<>> /\ DOMAIN Head(stdout).names \subseteq File
        /\ names' = [f \in File |-> IF f \in DOMAIN Head(stdout).names
                                    THEN Head(stdout).names[f] ELSE names[f]]
        /\ missed' = missed /\ lost' = lost
    BY <1>4 DEF Receive, Typed, TypedWorker, script
  <2>3. stdout' = <<>>
    BY <2>1
  <2>4. DOMAIN held.fingerprints \subseteq File
    BY DEF Typed, TypedHeld, HeldType
  <2>5. \A f \in File : Reported(f)' = Reported(f)
    BY <2>2, <2>3 DEF Reported
  <2>. QED
    BY <2>2, <2>4, <2>5 DEF NamesTold
<1>5. CASE TimeOut \/ Fail
  BY <1>2, <1>5 DEF TimeOut, Fail, Dropped
<1>6. ASSUME NEW request \in Request, Ask(request) PROVE NamesTold'
  BY <1>1, <1>6 DEF Ask, pipes, script, history
<1>7. ASSUME held' = Current(held), UNCHANGED <<stdout, names, lost>> PROVE NamesTold'
  BY <1>1, <1>7, CurrentKeeps DEF Typed, TypedHeld, HeldType
<1>8. CASE Read
  <2>1. UNCHANGED <<stdout, names, lost>>
    BY <1>8 DEF Read, rust
  <2>2. CASE ReadOn(Head(stdin))
    BY <1>7, <2>1, <2>2 DEF ReadOn
  <2>3. CASE ReadAnew(Head(stdin))
    BY <2>3 DEF ReadAnew, NamesTold, Empty
  <2>. QED
    BY <1>8, <2>2, <2>3, ReadEither
<1>9. CASE ReadFails
  <2>1. PICK reply : SentError(reply)
    BY <1>9, ReplySent
  <2>2. UNCHANGED <<held, lost, names>>
    BY <1>9 DEF ReadFails, rust, script, history
  <2>. QED
    BY <2>1, <2>2, ErrorTellsNone, NamesToldOn
<1>10. CASE BeginProgram \/ EndProgram
  <2>1. held'.fingerprints = held.fingerprints /\ held'.cache = held.cache
    BY <1>10, ProgramSteps DEF Typed
  <2>2. UNCHANGED <<stdout, names, lost>>
    BY <1>10 DEF BeginProgram, EndProgram, rust, pipes, history
  <2>. QED
    BY <1>1, <2>1, <2>2
<1>11. CASE BeginBuffer
  BY <1>7, <1>11 DEF BeginBuffer, rust, pipes, history
<1>12. CASE EndModule
  <2>1. /\ held'.cache = Loaded(Top.file, Module) /\ held'.fingerprints = held.fingerprints
        /\ Top.file \notin DOMAIN held.cache
    BY <1>12, EndModuleSteps DEF Typed
  <2>2. UNCHANGED <<stdout, names, lost>>
    BY <1>12 DEF EndModule, rust, pipes, history
  <2>3. DOMAIN held.fingerprints \subseteq DOMAIN held.cache
    BY DEF Typed, TypedHeld, HeldType
  <2>4. \A f \in DOMAIN held.cache : held'.cache[f] = held.cache[f]
    BY <2>1 DEF Loaded
  <2>. QED
    BY <1>1, <2>1, <2>2, <2>3, <2>4
<1>13. ASSUME NEW m \in File, ImportLoaded(m) \/ BeginModule(m) \/ ImportFails(m) PROVE NamesTold'
  <2>1. Puts(Noted(m))
    BY <1>13, ImportLoadedSteps, BeginModuleSteps, ImportFailsSteps DEF Typed
  <2>2. UNCHANGED <<stdout, names, lost>>
    BY <1>13 DEF ImportLoaded, BeginModule, ImportFails, rust, pipes, history
  <2>. QED
    BY <1>1, <2>1, <2>2 DEF Puts
<1>14. ASSUME NEW reply, SentReport(reply), names' = names, missed' = missed, disk' = disk PROVE NamesTold'
  <2>1. /\ held'.cache = held.cache /\ held'.fingerprints = Fingerprinted(Unnoted)
        /\ lost' = lost \ Unnoted
    BY <1>14 DEF SentReport, Reports, Notes
  <2>2. /\ stdout = <<>> /\ stdout' # <<>> /\ Head(stdout') = reply
        /\ reply.names = [f \in Unnoted |-> disk[f].text]
    BY <1>14 DEF SentReport, Sent
  <2>3. \A f : Reported(f)' = IF f \in Unnoted THEN disk[f].text ELSE names[f]
    BY <1>14, <2>2 DEF Reported
  <2>4. \A f : Reported(f) = names[f]
    BY <2>2 DEF Reported
  <2>5. \A f \in Unnoted : \E text \in Text :
            <<f, text>> \in held.cache[f] /\ (text = disk[f].text \/ <<f, text>> \in missed)
    BY DEF Unnoted, Told, Owned
  <2>6. DOMAIN Fingerprinted(Unnoted) = DOMAIN held.fingerprints \cup Unnoted
    BY DEF Fingerprinted
  <2>7. ASSUME NEW f \in DOMAIN held'.fingerprints \ lost'
        PROVE  \E text \in Text : /\ <<f, text>> \in held'.cache[f]
                                  /\ text = Reported(f)' \/ <<f, text>> \in missed'
    <3>1. CASE f \in Unnoted
      BY <1>14, <2>1, <2>3, <2>5, <3>1
    <3>2. CASE f \notin Unnoted
      <4>1. f \in DOMAIN held.fingerprints \ lost /\ Reported(f)' = Reported(f)
        BY <2>1, <2>3, <2>4, <2>6, <2>7, <3>2
      <4>. QED
        BY <1>14, <2>1, <4>1 DEF NamesTold
    <3>. QED
      BY <3>1, <3>2
  <2>. QED
    BY <2>7 DEF NamesTold
<1>15. ASSUME NEW reply, SentError(reply), ReportsNone, names' = names PROVE NamesTold'
  <2>1. PICK files \in SUBSET Unnoted : Notes(files) /\ lost' = lost \cup files
    BY <1>15 DEF ReportsNone
  <2>2. held'.cache = held.cache /\ DOMAIN held'.fingerprints = DOMAIN held.fingerprints \cup files
    BY <2>1 DEF Notes, Fingerprinted
  <2>3. \A f : Reported(f)' = Reported(f)
    BY <1>15, ErrorTellsNone
  <2>. QED
    BY <2>1, <2>2, <2>3, NamesToldOn
<1>16. CASE Reply \/ ReplyFails
  <2>1. PICK reply : SentReport(reply) \/ (SentError(reply) /\ ReportsNone)
    BY <1>16, ReplySent
  <2>2. UNCHANGED <<names, missed, disk>>
    BY <1>16 DEF Reply, ReplyFails, rust
  <2>. QED
    BY <1>14, <1>15, <2>1, <2>2
<1>17. CASE Script
  BY <1>8, <1>9, <1>10, <1>11, <1>12, <1>13, <1>16, <1>17 DEF Script
<1>18. CASE UNCHANGED vars
  BY <1>1, <1>18 DEF vars, rust, pipes, script, history
<1>. QED
  BY <1>3, <1>4, <1>5, <1>6, <1>17, <1>18 DEF Next, Checks

\* A file that has the stamp it had when a check was given up is as it was: no write
\* takes a stamp that was taken.
Stamped ==
    \A f \in File :
        /\ gaveUp.disk[f].stamp \in 0..writes
        /\ disk[f] # NoFile /\ gaveUp.disk[f] # NoFile /\ disk[f].stamp = gaveUp.disk[f].stamp =>
            disk[f] = gaveUp.disk[f]

LEMMA StampedOn == Typed /\ Stamped /\ gaveUp' = gaveUp /\ [Next]_vars => Stamped'
<1>. SUFFICES ASSUME Typed, Stamped, gaveUp' = gaveUp, [Next]_vars, NEW f \in File
              PROVE  /\ gaveUp.disk[f].stamp \in 0..writes'
                     /\ disk'[f] # NoFile /\ gaveUp.disk[f] # NoFile
                            /\ disk'[f].stamp = gaveUp.disk[f].stamp =>
                        disk'[f] = gaveUp.disk[f]
  BY DEF Stamped
<1>1. writes \in Nat /\ writes <= writes' /\ writes' \in Nat
  <2>1. writes \in Nat /\ writes' \in Nat
    BY DiskSteps, WorkerAssumption DEF TypedDisk, WorkerAssumption, Typed
  <2>2. writes' = writes \/ writes' = writes + 1
    BY DiskStill DEF Next, Outside, Tick, Write, vars
  <2>. QED
    BY <2>1, <2>2
<1>2. gaveUp.disk[f].stamp \in 0..writes
  BY DEF Stamped
<1>3. disk'[f] # disk[f] => disk'[f] = NoFile \/ disk'[f].stamp = writes + 1
  BY DiskSteps DEF Typed
<1>. QED
  BY <1>1, <1>2, <1>3 DEF Stamped

LEMMA HungKept ==
    ASSUME Typed, Hung, [Next]_vars
    PROVE  Hung'
<1>1. gaveUp # NoneGivenUp => Stamped
  BY DEF Hung, Stamped
<1>2. ASSUME UNCHANGED <<hung, gaveUp>> PROVE Hung'
  <2>1. gaveUp' # NoneGivenUp => Stamped'
    BY <1>1, <1>2, StampedOn
  <2>. QED
    BY <1>2, <2>1 DEF Hung, Stamped
<1>3. CASE Outside \/ Script \/ UNCHANGED vars
  BY <1>2, <1>3 DEF Outside, Tick, Exit, Write, Script, Read, ReadFails, BeginProgram, EndProgram,
     BeginBuffer, EndModule, Reply, ReplyFails, ImportLoaded, BeginModule, ImportFails, vars, rust, history
<1>4. CASE Receive \/ Fail
  BY <1>2, <1>4 DEF Receive, Fail
<1>5. CASE TimeOut
  <2>1. /\ asked # None /\ hung' = [request |-> asked, inputs |-> Inputs(asked)]
        /\ gaveUp' = [request |-> asked, began |-> began, disk |-> disk]
        /\ disk' = disk /\ writes' = writes
    BY <1>5 DEF TimeOut, GiveUp
  <2>2. gaveUp'.request = asked /\ gaveUp'.disk = disk /\ NoneGivenUp.request = None
    BY <2>1 DEF NoneGivenUp
  <2>3. gaveUp' # NoneGivenUp
    BY <2>1, <2>2
  <2>4. \A f \in File : disk[f].stamp \in 0..writes
    BY DEF Typed, TypedDisk
  <2>5. hung'.request = asked /\ hung'.inputs = Inputs(asked)
    BY <2>1
  <2>6. \A f \in DOMAIN Inputs(asked) :
            Inputs(asked)[f] = IF disk[f] = NoFile THEN None ELSE disk[f].stamp
    BY DEF Inputs, IsThere
  <2>. QED
    BY <2>1, <2>2, <2>3, <2>4, <2>5, <2>6 DEF Hung
<1>6. ASSUME NEW request \in Request, Ask(request) PROVE Hung'
  <2>1. CASE hung.request = request /\ hung.inputs = Inputs(request)
    BY <1>2, <1>6, <2>1 DEF Ask, history
  <2>2. CASE ~(hung.request = request /\ hung.inputs = Inputs(request))
    <3>1. hung' = NoHung /\ gaveUp' = NoneGivenUp
      BY <1>6, <2>2 DEF Ask
    <3>. QED
      BY <3>1 DEF Hung
  <2>. QED
    BY <2>1, <2>2
<1>. QED
  BY <1>3, <1>4, <1>5, <1>6 DEF Next, Checks

\* A check is refused over what it hung on.
LEMMA RefusedOver ==
    ASSUME Typed, Hung, NEW request \in Request, hung.request = request, hung.inputs = Inputs(request)
    PROVE  /\ request = gaveUp.request
           /\ \A f \in Follow(Starts(request)) : disk[f] = gaveUp.disk[f]
<1>1. request # None /\ None \notin Nat
  BY WorkerAssumption DEF WorkerAssumption
<1>2. hung # NoHung
  BY <1>1 DEF NoHung
<1>3. request = gaveUp.request /\ gaveUp # NoneGivenUp
  BY <1>2 DEF Hung
<1>4. SUFFICES ASSUME NEW f \in Follow(Starts(request)) PROVE disk[f] = gaveUp.disk[f]
  BY <1>3
<1>5. f \in File /\ f \in DOMAIN hung.inputs /\ hung.inputs[f] = IF IsThere(f) THEN disk[f].stamp ELSE None
  BY <1>4 DEF Inputs, Follow
<1>6. hung.inputs[f] = IF gaveUp.disk[f] = NoFile THEN None ELSE gaveUp.disk[f].stamp
  BY <1>2, <1>5 DEF Hung
<1>7. disk[f].stamp \in Nat /\ gaveUp.disk[f].stamp \in Nat
  BY <1>3, <1>5 DEF Hung, Typed, TypedDisk
<1>. QED
  BY <1>1, <1>3, <1>5, <1>6, <1>7 DEF Hung, IsThere

-----------------------------------------------------------------------------
(* The theorems. *)

LEMMA InitWorker == Init => WorkerInv
<1>. SUFFICES ASSUME Init PROVE WorkerInv
  OBVIOUS
<1>1. writes = 0 /\ now = 2 /\ MaxTime \in Nat /\ 2 <= MaxTime /\ MaxWrites \in Nat /\ None \notin Text
  BY WorkerAssumption DEF Init, WorkerAssumption
<1>2. \A f \in File : disk[f] \in [text : Text, second : {0}, stamp : {0}] \/ disk[f] = NoFile
  BY DEF Init
<1>3. TypedDisk
  <2>1. \A f \in File : disk[f] \in [text : Text \cup {None}, second : 0..now, stamp : 0..writes]
    BY <1>1, <1>2 DEF NoFile
  <2>2. disk = [f \in File |-> disk[f]]
    BY DEF Init
  <2>3. disk \in [File -> [text : Text \cup {None}, second : 0..now, stamp : 0..writes]]
    BY <2>1, <2>2
  <2>4. \A f \in File : disk[f].text \in Says[f] \cup {None}
    BY DEF Init
  <2>5. \A f \in File : disk[f].text = None => ~IsThere(f)
    BY <1>1, <1>2 DEF IsThere
  <2>6. writes \in 0..MaxWrites /\ now \in 2..MaxTime
    BY <1>1
  <2>. QED
    BY <2>3, <2>4, <2>5, <2>6 DEF TypedDisk
<1>4. DOMAIN Empty = {} /\ Empty \in [{} -> SUBSET Pair] /\ Empty \in [{} -> FilePrint]
  BY DEF Empty
<1>5. <<>> \in Seq(File) /\ <<>> \in Seq(Frames) /\ <<>> \in Seq(Request) /\ Len(<<>>) = 0
  OBVIOUS
<1>6. TypedHeld
  BY <1>4 DEF Init, Fresh, TypedHeld, HeldType
<1>7. TypedRun
  BY <1>5 DEF Init, Waiting, TypedRun
<1>8. TypedWorker
  <2>1. since \in [File -> SUBSET (Text \cup {None})]
    BY <1>3 DEF Init, TypedDisk
  <2>. QED
    BY <1>5, <2>1 DEF Init, TypedWorker
<1>9. HungTyped /\ OneRequest /\ AnswersMatch
  BY DEF Init, HungTyped, NoHung, Empty, OneRequest, Waiting, AnswersMatch
<1>11. Stacked
  BY <1>5 DEF Init, Waiting, Fresh, Stacked
<1>12. Linked
  BY <1>4, <1>5 DEF Init, Fresh, Waiting, Linked, LinkedIn
<1>13. Told
  BY <1>4, <1>5 DEF Init, Fresh, Waiting, Told, ToldIn
<1>14. ProgramTold
  BY DEF Init, Fresh, Waiting, ProgramTold
<1>15. Reads
  <2>1. DOMAIN run.stack = {} /\ run.phase = "waiting" /\ stdout = <<>> /\ answer = None
    BY DEF Init, Waiting
  <2>2. \A f \in File : disk[f].text \in since[f]
    BY DEF Init
  <2>. QED
    BY <2>1, <2>2 DEF Reads
<1>16. NamesTold
  BY <1>4 DEF Init, Fresh, NamesTold
<1>17. Hung
  BY DEF Init, Hung
<1>. QED
  BY <1>3, <1>6, <1>7, <1>8, <1>9, <1>11, <1>12, <1>13, <1>14, <1>15, <1>16, <1>17
     DEF WorkerInv, TypedInv, Typed

LEMMA StepTyped == TypedInv /\ [Next]_vars => TypedInv'
  BY AllTyped, HungTypedKept, OneRequestKept, StackedKept, AnswersMatchKept DEF TypedInv

LEMMA StepWorker == WorkerInv /\ [Next]_vars => WorkerInv'
<1>. SUFFICES ASSUME WorkerInv, [Next]_vars PROVE WorkerInv'
  OBVIOUS
<1>. USE DEF WorkerInv, TypedInv
<1>1. TypedInv'
  BY StepTyped
<1>. QED
  BY <1>1, LinkedKept, ToldKept, ProgramToldKept, ReadsKept, NamesToldKept, HungKept

\* The types are right, and no module that is loading is loaded, whoever writes.
THEOREM WorkerTypes == Spec => []TypeOK
<1>1. Init => TypedInv
  BY InitWorker DEF WorkerInv
<1>2. TypedInv => TypeOK
  <2>. SUFFICES ASSUME TypedInv PROVE TypeOK
    OBVIOUS
  <2>. USE DEF TypedInv
  <2>1. disk \in [File -> [text : Text \cup {None}, second : 0..MaxTime, stamp : 0..MaxWrites]]
    <3>1. \A f \in File : disk[f] \in [text : Text \cup {None}, second : 0..now, stamp : 0..writes]
      BY DEF Typed, TypedDisk
    <3>2. 0..now \subseteq 0..MaxTime /\ 0..writes \subseteq 0..MaxWrites
      BY WorkerAssumption DEF Typed, TypedDisk, WorkerAssumption
    <3>3. \A f \in File : disk[f] \in [text : Text \cup {None}, second : 0..MaxTime, stamp : 0..MaxWrites]
      BY <3>1, <3>2
    <3>. QED
      BY <3>3 DEF Typed, TypedDisk
  <2>2. Loading \cap DOMAIN held.cache = {}
    BY DEF Loading, Stacked
  <2>3. Len(stdin) + Len(stdout) <= 1
    <3>1. \E reply : stdout = <<>> \/ stdout = <<reply>>
      BY DEF Typed, TypedWorker
    <3>2. Len(stdout) \in {0, 1} /\ (stdout = <<>> => Len(stdout) = 0)
      BY <3>1
    <3>3. stdin = <<>> \/ (stdin = <<asked>> /\ stdout = <<>>)
      BY DEF OneRequest
    <3>4. Len(stdin) \in {0, 1} /\ (stdin # <<>> => Len(stdout) = 0)
      BY <3>2, <3>3
    <3>5. stdin = <<>> => Len(stdin) = 0
      OBVIOUS
    <3>6. Len(stdin) \in {0, 1} /\ Len(stdout) \in {0, 1} /\ (Len(stdin) = 0 \/ Len(stdout) = 0)
      BY <3>2, <3>4, <3>5
    <3>7. \A a, b \in {0, 1} : a = 0 \/ b = 0 => a + b <= 1
      OBVIOUS
    <3>. QED
      BY <3>6, <3>7
  <2>4. process # "running" => held = Fresh /\ run = Waiting
    BY DEF OneRequest
  <2>5. /\ held.cache \in [DOMAIN held.cache -> SUBSET Pair]
        /\ DOMAIN held.cache \subseteq File /\ DOMAIN held.fingerprints \subseteq DOMAIN held.cache
        /\ held.importers \in [File -> SUBSET File]
    BY DEF Typed, TypedHeld, HeldType
  <2>6. run.phase \in {"waiting", "loading", "checking"}
    BY DEF Typed, TypedRun
  <2>7. asked \in Request \cup {None} /\ process \in {"none", "running", "exited"} /\ names \in [File -> Text \cup {None}]
    BY DEF Typed, TypedWorker
  <2>. QED
    BY <2>1, <2>2, <2>3, <2>4, <2>5, <2>6, <2>7 DEF HungTyped, TypeOK
<1>3. TypedInv /\ [Next]_vars => TypedInv'
  BY StepTyped
<1>. QED
  BY <1>1, <1>2, <1>3, PTL DEF Spec

\* What is reported is of that check and of files as they were during it, with whatever
\* was kept from checks before, and the names of what is loaded are known: but for what
\* no fingerprint tells (`missed`), and the names that went with an error (`lost`).
THEOREM CheckedFromFiles == Spec => []CheckedFromDisk
<1>1. Init => WorkerInv
  BY InitWorker
<1>2. WorkerInv => CheckedFromDisk
  <2>. SUFFICES ASSUME WorkerInv PROVE CheckedFromDisk
    OBVIOUS
  <2>. USE DEF WorkerInv, TypedInv
  <2>1. ReadFromDisk
    BY DEF Reads, Recent, ReadFromDisk
  <2>2. asked = None /\ process = "running" => stdout = <<>>
    BY DEF OneRequest
  <2>3. NamesKnown
    BY <2>2 DEF NamesTold, Reported, NamesKnown
  <2>. QED
    BY <2>1, <2>3 DEF CheckedFromDisk
<1>3. WorkerInv /\ [Next]_vars => WorkerInv'
  BY StepWorker
<1>. QED
  BY <1>1, <1>2, <1>3, PTL DEF Spec

\* A check is refused only if it is the last that was given up, and what it reads, as far
\* as that resolves without Janet, is as it was then.
THEOREM RefusedWhileUnchanged == Spec => RefusedUnchanged
<1>1. Init => WorkerInv
  BY InitWorker
<1>2. WorkerInv /\ [Next]_vars =>
        [Refusing =>
            /\ answer'.request = gaveUp.request
            /\ \A f \in Follow(Starts(answer'.request)) : disk[f] = gaveUp.disk[f]]_vars
  <2>. SUFFICES ASSUME WorkerInv, Next, Refusing
                PROVE  /\ answer'.request = gaveUp.request
                       /\ \A f \in Follow(Starts(answer'.request)) : disk[f] = gaveUp.disk[f]
    OBVIOUS
  <2>. USE DEF Refusing
  <2>1. ~(Outside \/ Script)
    BY DEF Outside, Tick, Exit, Write, Script, Read, ReadFails, BeginProgram, EndProgram,
       BeginBuffer, EndModule, Reply, ReplyFails, ImportLoaded, BeginModule, ImportFails, rust
  <2>2. ~(Receive \/ TimeOut \/ Fail)
    <3>1. \A kind, replied, read : Answer(kind, replied, read).kind = kind
      BY DEF Answer
    <3>2. ~Receive
      BY <3>1 DEF Receive
    <3>3. ~TimeOut
      <4>1. TimeOut => answer' = Answer("timed out", asked, {})
        BY DEF TimeOut, GiveUp
      <4>2. TimeOut => answer'.kind = "timed out"
        BY <4>1, <3>1
      <4>3. "timed out" # "refused"
        OBVIOUS
      <4>. QED
        BY <4>2, <4>3
    <3>4. ~Fail
      BY <3>1 DEF Fail
    <3>. QED
      BY <3>2, <3>3, <3>4
  <2>3. PICK request \in Request : Ask(request)
    BY <2>1, <2>2 DEF Next, Checks
  <2>4. hung.request = request /\ hung.inputs = Inputs(request) /\ answer'.request = request
    BY <2>3 DEF Ask
  <2>. QED
    BY <2>4, RefusedOver DEF WorkerInv, TypedInv
<1>3. WorkerInv /\ [Next]_vars => WorkerInv'
  BY StepWorker
<1>. QED
  BY <1>1, <1>2, <1>3, PTL DEF Spec, RefusedUnchanged

=============================================================================
