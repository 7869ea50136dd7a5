------------------------------ MODULE Workspace ------------------------------
(* The index of a workspace: its files, the graph of what they import, and   *)
(* the types inferred from them, kept until something they were read from    *)
(* changes. `&mut self` methods change it, one at a time; `&self` methods    *)
(* fill the types meanwhile, from several threads at once.                   *)
(*                                                                           *)
(* A text is a value and a type is the record of everything inference read   *)
(* to find it, so a type is up to date when reading again gives the same.    *)
EXTENDS Integers, Sequences, FiniteSets, Functions, FiniteSetsExt

CONSTANTS
    Module,         \* paths of .janet files
    Declaration,    \* paths of .d.janet files
    Project,        \* paths of project.janet files
    Installed,      \* modules outside the roots, which are on disk
    Text,           \* what files say
    Says,           \* what each file may say
    Spelling,       \* imports, as written
    Config,         \* what configs add up to: [exports, program, lint]
    Mode,           \* what is reported beyond written signatures
    Names,          \* what a check saw macros of a file bind
    NoNames,        \* no check has reported any
    ImportsOf,      \* the specs a text imports
    PackagesOf,     \* the modules a project.janet provides, each with its spec
    Candidates,     \* where a module's spec may be, in order, packages aside
    Default,        \* the config and the mode of an empty workspace
    MaxChanged      \* bound: files in one event

Path == Module \cup Declaration \cup Project

ASSUME WorkspaceAssumption ==
    /\ Module \cap (Declaration \cup Project) = {}
    /\ Declaration \cap Project = {}
    /\ Installed \subseteq Module
    /\ Says \in [Path -> SUBSET Text]
    /\ ImportsOf \in [Text -> SUBSET Spelling]
    /\ PackagesOf \in [Text -> SUBSET (Spelling \X Module)]
    /\ Candidates \in [Module \cup Project -> [Spelling -> Seq(Module)]]
    /\ \A c \in Config : c.exports \subseteq Declaration /\ c.program \in Seq(Module)
    /\ Default.config \in Config /\ Default.mode \in Mode
    /\ NoNames \notin Names
    /\ MaxChanged \in Nat

\* What a disk holds is finite.
ASSUME FinitePaths == IsFiniteSet(Path)

VARIABLES
    disk,       \* what files outside the index say, read when they are needed
    files,      \* workspace files and open buffers, by path
    external,   \* modules outside the roots that workspace files import
    exported,   \* the declarations libraries export
    packages,   \* what the projects provide, as the last refresh found it
    imports,    \* edges to what a file imports; `importers` is their inverse
    reported,   \* the names, and types of calls, a check reported of a file
    types,      \* what inference read out of a file
    ambient,    \* the declarations in scope, once something asked for them
    config, mode,
    pass,       \* an infer_until under way
    asked       \* the components a `facts` under way has still to infer

vars == <<disk, files, external, exported, packages, imports, reported, types,
          ambient, config, mode, pass, asked>>

-----------------------------------------------------------------------------
(* The index. *)

Nothing == [x \in {} |-> x]
NoPass  == [components |-> {}, depth |-> Nothing, layer |-> 0, left |-> {}, working |-> {},
            stopped |-> FALSE]
NotYet  == [asked |-> FALSE]

Known == DOMAIN files \cup DOMAIN external \cup DOMAIN exported

File(p) ==
    IF p \in DOMAIN files THEN files[p]
    ELSE IF p \in DOMAIN external THEN external[p] ELSE exported[p]

Edges(p)   == IF p \in DOMAIN imports THEN imports[p] ELSE {}
Targets(p) == {e.path : e \in Edges(p)}

\* What `path` is called by those that import it.
Spelled(p) == {e.spec : e \in {f \in UNION Range(imports) : f.path = p}}

\* Under the roots first, then what libraries export.
Declared ==
    [asked |-> TRUE, roots |-> Restrict(files, Declaration \cap DOMAIN files), libraries |-> exported]

\* The files a walk along imports meets from `starts`.
Reach(starts) ==
    {q \in Path : \A S \in SUBSET Path :
        (starts \subseteq S /\ \A x \in S : Targets(x) \subseteq S) => q \in S}

DroppedDirectly(changed) ==
    changed \cup {x \in Path : Targets(x) \cap changed # {}}

\* The files a change of `changed` is felt in: those, what imports them, and so on.
Dropped(changed) ==
    {q \in Path : \A S \in SUBSET Path :
        (changed \subseteq S /\ \A x \in Path : Targets(x) \cap S # {} => x \in S) => q \in S}

-----------------------------------------------------------------------------
(* The graph, from the files. *)

\* What of a `:include` program a file sees as if it included it: the files
\* before it, or all of them.
Includes(fs, program, p) ==
    {program[i] : i \in {i \in DOMAIN program :
                            program[i] \in DOMAIN fs /\ \A j \in 1..i : program[j] # p}}

Provided(fs) == UNION {PackagesOf[fs[p].text] : p \in Project \cap DOMAIN fs}

\* The module `spec` stands for in `from`, if there is one: a package of the
\* workspace, else the first candidate there is.
Resolve(fs, pk, from, spec) ==
    LET There(m) == m \in DOMAIN fs \cup Installed
        packaged == {m \in Module : <<spec, m>> \in pk /\ There(m)}
        lookup   == Candidates[from][spec]
        found    == {i \in DOMAIN lookup : There(lookup[i])}
    IN  IF packaged # {} THEN packaged
        ELSE {lookup[i] : i \in {i \in found : \A j \in found : i <= j}}

IncludeEdges(fs, program, p) ==
    {[spec |-> m, path |-> m, included |-> TRUE] : m \in Includes(fs, program, p)}

ImportEdges(fs, pk, p) ==
    UNION {{[spec |-> s, path |-> m, included |-> FALSE] : m \in Resolve(fs, pk, p, s)} :
                s \in ImportsOf[fs[p].text]}

Graph(fs, pk, c) ==
    [p \in (Module \cup Project) \cap DOMAIN fs |->
        IncludeEdges(fs, c.program, p) \cup ImportEdges(fs, pk, p)]

Dependencies(fs, graph) ==
    {e.path : e \in UNION Range(graph)} \ DOMAIN fs

\* Under changed files `fs` and config `c`. Dependencies are read once and kept.
Regraph(fs, kept, c) ==
    LET graph == Graph(fs, Provided(fs), c)
        Read(p) == IF p \in DOMAIN kept THEN kept[p] ELSE [text |-> disk[p], read |-> c]
    IN  /\ packages' = Provided(fs)
        /\ imports'  = graph
        /\ external' = [p \in Dependencies(fs, graph) |-> Read(p)]

-----------------------------------------------------------------------------
(* Changes: the index is borrowed by nothing else. *)

Idle == pass = NoPass /\ asked = {}

\* Takes what changed out of the types.
Invalidated(changed) ==
    IF changed \cap Declaration # {} THEN Nothing
    ELSE Restrict(types, DOMAIN types \ Dropped(changed))

StaleIfImportsChange(inserted, removed) ==
    \/ \E p \in DOMAIN inserted \cap DOMAIN files :
        ImportsOf[files[p].text] # ImportsOf[inserted[p].text]
    \/ removed \cap DOMAIN files # {}

StaleIfInserted(inserted, removed) ==
    \E p \in DOMAIN inserted :
        \/ p \in Project
        \/ p \notin DOMAIN files
        \/ ImportsOf[files[p].text] # ImportsOf[inserted[p].text]

\* Whether the graph has to be read again, once `insert`ed and `remove`d.
Stale(inserted, removed) ==
    \/ \E p \in DOMAIN inserted :
        \/ p \in Project
        \/ p \notin DOMAIN files
        \/ ImportsOf[files[p].text] # ImportsOf[inserted[p].text]
    \/ removed \cap DOMAIN files # {}

\* Files are opened, edited and closed, or found and lost on disk; then refresh.
Change(texts, removed) ==
    LET inserted == [p \in DOMAIN texts |-> [text |-> texts[p], read |-> config]]
        changed  == DOMAIN texts \cup removed
        now      == [p \in (DOMAIN files \ removed) \cup DOMAIN texts |->
                        IF p \in DOMAIN texts THEN inserted[p] ELSE files[p]]
    IN  /\ Idle
        /\ files' = now
        /\ ambient' = IF changed \cap Declaration # {} THEN NotYet ELSE ambient
        /\ IF Stale(inserted, removed)
           THEN /\ Regraph(now, external, config)
                /\ types' = Restrict(Invalidated(changed),
                                     DOMAIN Invalidated(changed) \cap DOMAIN external)
           ELSE /\ types' = Invalidated(changed)
                /\ UNCHANGED <<packages, imports, external>>
        /\ UNCHANGED <<disk, exported, reported, config, mode, pass, asked>>

\* A check came back with the names it saw macros bind and the calls it typed.
Report(p, names) ==
    /\ Idle
    /\ reported' = [reported EXCEPT ![p] = names]
    /\ IF reported[p] # names
       THEN /\ types' = Invalidated({p})
            /\ ambient' = IF p \in Declaration THEN NotYet ELSE ambient
       ELSE UNCHANGED <<types, ambient>>
    /\ UNCHANGED <<disk, files, external, exported, packages, imports, config, mode, pass, asked>>

SetMode(m) ==
    /\ Idle
    /\ mode' = m
    /\ types' = IF m = mode THEN types ELSE Nothing
    /\ UNCHANGED <<disk, files, external, exported, packages, imports, reported, ambient, config,
                   pass, asked>>

Reconfigured(fs, c) == [p \in DOMAIN fs |-> [fs[p] EXCEPT !.read = c]]

\* The configs add up to something else; then refresh.
SetConfig(c) ==
    /\ Idle
    /\ c # config
    /\ config' = c
    /\ types' = Nothing
    /\ ambient' = NotYet
    /\ files' = Reconfigured(files, c)
    /\ exported' = [d \in c.exports |->
                        IF d \in DOMAIN exported THEN exported[d]
                        ELSE [text |-> disk[d], read |-> c]]
    /\ IF c.program # config.program
       THEN Regraph(files', Reconfigured(external, c), c)
       ELSE /\ external' = Reconfigured(external, c)
            /\ UNCHANGED <<packages, imports>>
    /\ UNCHANGED <<disk, reported, mode, pass, asked>>

\* A dependency is upgraded, a declaration saved: nobody tells the index.
DiskChanges(p, text) ==
    /\ disk' = [disk EXCEPT ![p] = text]
    /\ UNCHANGED <<files, external, exported, packages, imports, reported, types, ambient, config,
                   mode, pass, asked>>

-----------------------------------------------------------------------------
(* Inference. *)

\* What is read of `p` itself.
Own(p) == [file |-> File(p), reported |-> reported[p], edges |-> Edges(p)]

\* What inference of a component `c` is told of a file outside it: the types it
\* has, which are inferred on the spot if they are not there.
Inferred(c, q) == IF q \in DOMAIN types \ c THEN types[q].own ELSE Own(q)

\* What inference reads of `p`, told of other files by `Told`.
Reading(p, declared, Told(_)) ==
    [own   |-> Own(p), mode |-> mode, declared |-> declared,
     after |-> [q \in Reach(Targets(p)) |->
                    [now |-> Own(q), spelled |-> Spelled(q), types |-> Told(q)]]]

\* The components of the graph that `starts` reach.
Components(starts) ==
    LET From == [p \in Reach(starts) |-> Reach({p})]
    IN  {{q \in From[p] : p \in From[q]} : p \in Reach(starts)}

DepthOfDirect(cs) ==
    [c \in cs |-> IF \E d \in cs \ {c}, p \in c : Targets(p) \cap d # {} THEN 1 ELSE 0]

\* How many components deep what a component imports goes.
Depth(cs) ==
    LET Imported(c) == {d \in cs \ {c} : \E p \in c : Targets(p) \cap d # {}}
        depth[c \in cs] ==
            IF Imported(c) = {} THEN 0 ELSE 1 + Max({depth[d] : d \in Imported(c)})
    IN  depth

\* One component: all its files are there already, or all are put there.
Infer(c) ==
    LET declared == IF ambient = NotYet THEN Declared ELSE ambient
        Told(q)  == Inferred(c, q)
    IN  IF c \subseteq DOMAIN types THEN UNCHANGED <<types, ambient>>
        ELSE /\ ambient' = declared
             /\ types' = [p \in DOMAIN types \cup c |->
                            IF p \in c THEN Reading(p, declared, Told) ELSE types[p]]

Unchanging == <<disk, files, external, exported, packages, imports, reported, config, mode>>

\* The components of a pass at the depth `layer`: they import nothing of each other.
Layer(components, depth, layer) == {c \in components : depth[c] = layer}

\* A pass over `starts`: a layer at a time, each by several threads.
BeginPass(starts) ==
    /\ pass = NoPass
    /\ starts # {}
    /\ LET components == Components(starts)
           depth      == Depth(components)
       IN  pass' = [components |-> components, depth |-> depth, layer |-> 0,
                    left |-> Layer(components, depth, 0), working |-> {}, stopped |-> FALSE]
    /\ UNCHANGED <<Unchanging, types, ambient, asked>>

TakeComponent(c) ==
    /\ ~pass.stopped
    /\ c \in pass.left
    /\ pass' = [pass EXCEPT !.left = @ \ {c}, !.working = @ \cup {c}]
    /\ UNCHANGED <<Unchanging, types, ambient, asked>>

InferComponent(c) ==
    /\ c \in pass.working
    /\ pass' = [pass EXCEPT !.working = @ \ {c}]
    /\ Infer(c)
    /\ UNCHANGED <<Unchanging, asked>>

\* Stopped before its last file, a component leaves nothing.
AbandonComponent(c) ==
    /\ pass.stopped
    /\ c \in pass.working
    /\ pass' = [pass EXCEPT !.working = @ \ {c}]
    /\ UNCHANGED <<Unchanging, types, ambient, asked>>

StopPass ==
    /\ pass # NoPass
    /\ ~pass.stopped
    /\ pass' = [pass EXCEPT !.stopped = TRUE]
    /\ UNCHANGED <<Unchanging, types, ambient, asked>>

NextLayer ==
    /\ pass.working = {} /\ pass.left = {}
    /\ ~pass.stopped
    /\ Layer(pass.components, pass.depth, pass.layer + 1) # {}
    /\ pass' = [pass EXCEPT !.layer = @ + 1,
                            !.left = Layer(pass.components, pass.depth, pass.layer + 1)]
    /\ UNCHANGED <<Unchanging, types, ambient, asked>>

EndAfterLayer ==
    /\ pass # NoPass
    /\ pass.working = {}
    /\ pass.stopped \/ pass.left = {}
    /\ pass' = NoPass
    /\ UNCHANGED <<Unchanging, types, ambient, asked>>

EndPass ==
    /\ pass # NoPass
    /\ pass.working = {}
    /\ \/ pass.stopped
       \/ pass.left = {} /\ Layer(pass.components, pass.depth, pass.layer + 1) = {}
    /\ pass' = NoPass
    /\ UNCHANGED <<Unchanging, types, ambient, asked>>

\* A request wants the types of one file, whether or not a pass is under way.
Ask(p) ==
    /\ asked = {}
    /\ p \notin DOMAIN types
    /\ asked' = Components({p})
    /\ UNCHANGED <<Unchanging, types, ambient, pass>>

\* Each component after those it imports.
InferAsked(c) ==
    /\ c \in asked
    /\ \A d \in asked \ {c}, p \in c : Targets(p) \cap d = {}
    /\ Infer(c)
    /\ asked' = asked \ {c}
    /\ UNCHANGED <<Unchanging, pass>>

-----------------------------------------------------------------------------

Init ==
    /\ disk \in [Installed \cup Declaration -> Text]
    /\ \A p \in DOMAIN disk : disk[p] \in Says[p]
    /\ files = Nothing /\ external = Nothing /\ exported = Nothing
    /\ packages = {} /\ imports = Nothing
    /\ reported = [p \in Path |-> NoNames]
    /\ types = Nothing /\ ambient = NotYet
    /\ config = Default.config /\ mode = Default.mode
    /\ pass = NoPass /\ asked = {}

Changes ==
    \/ \E removed \in SUBSET Path, changed \in SUBSET Path :
        /\ removed \cap changed = {}
        /\ Cardinality(removed \cup changed) \in 1..MaxChanged
        /\ \E texts \in [changed -> Text] :
            /\ \A p \in changed : texts[p] \in Says[p]
            /\ Change(texts, removed)
    \/ \E p \in Path, names \in Names : Report(p, names)
    \/ \E m \in Mode : SetMode(m)
    \/ \E c \in Config : SetConfig(c)
    \/ \E p \in DOMAIN disk : \E text \in Says[p] : DiskChanges(p, text)

Infers ==
    \/ \E starts \in SUBSET DOMAIN files : BeginPass(starts)
    \/ \E c \in pass.left : TakeComponent(c)
    \/ \E c \in pass.working : InferComponent(c) \/ AbandonComponent(c)
    \/ \E c \in asked : InferAsked(c)
    \/ StopPass
    \/ NextLayer
    \/ EndPass
    \/ \E p \in Known : Ask(p)

Next == Changes \/ Infers

Spec == Init /\ [][Next]_vars

-----------------------------------------------------------------------------
(* What is to hold. *)

Source == [text : Text, read : Config]
AreSources(f, paths) == DOMAIN f \subseteq paths /\ f \in [DOMAIN f -> Source]

\* The types of the index. Files, dependencies and declarations are sources; a
\* dependency is no workspace file and a declaration file never a module.
TypeOK ==
    /\ disk \in [Installed \cup Declaration -> Text]
    /\ AreSources(files, Path)
    /\ AreSources(external, Module \ DOMAIN files)
    /\ AreSources(exported, Declaration)
    /\ packages \in SUBSET (Spelling \X Module)
    /\ DOMAIN imports \subseteq DOMAIN files
    /\ \A p \in DOMAIN imports : Targets(p) \subseteq Module \cap Known
    /\ reported \in [Path -> Names \cup {NoNames}]
    /\ DOMAIN types \subseteq Path
    /\ config \in Config /\ mode \in Mode
    /\ DOMAIN pass = DOMAIN NoPass
    /\ pass.components \in SUBSET SUBSET Path
    /\ pass.left \subseteq pass.components /\ pass.working \subseteq pass.components
    /\ asked \in SUBSET SUBSET Path

\* What inference reads of `p` if it reads it now.
Facts(p) == Reading(p, Declared, Own)

\* Types kept are types one would infer now: whatever changed in a file, in what
\* it imports however far away, in who imports those and under which name, in
\* the declarations and in the config, the types read from it went with it.
CacheFresh == \A p \in DOMAIN types \cap Known : types[p] = Facts(p)

\* The graph is that of the files there are: `refresh` leaves it alone only
\* when reading it again would change nothing.
GraphCurrent ==
    /\ packages = Provided(files)
    /\ imports = Graph(files, packages, config)
    /\ DOMAIN external = Dependencies(files, imports)

\* When a thread of a pass takes a component, what it imports has its types:
\* the layers are enough, although each thread takes whatever is next.
DependenciesFirst ==
    \A c \in pass.working : \A p \in c : Targets(p) \ c \subseteq DOMAIN types

\* A pass that was not stopped has inferred everything its files reach.
PassReaches ==
    [][pass # NoPass /\ pass' = NoPass
        => pass.stopped \/ UNION pass.components \subseteq DOMAIN types]_vars
=============================================================================
