--------------------------- MODULE WorkspaceProofs ---------------------------
(* Types kept by Workspace.tla are never stale, and a pass infers each file  *)
(* after what it imports, in any workspace.                                  *)
EXTENDS Workspace, TLAPS, WellFoundedInduction, FiniteSetTheorems

\* What is kept of the declarations is what they are.
AmbientFresh == ambient \in {NotYet, Declared}

\* The inductive invariant.
WorkspaceInv ==
    /\ TypeOK
    /\ GraphCurrent
    /\ AmbientFresh
    /\ CacheFresh

-----------------------------------------------------------------------------
(* Walks along the graph. *)

\* Everything a walk meets is a path.
LEMMA ReachPaths == ASSUME NEW starts PROVE Reach(starts) \subseteq Path
BY DEF Reach

\* A walk stays inside a set that is closed under imports.
LEMMA ReachWithin ==
    ASSUME NEW starts, NEW S \in SUBSET Path,
           starts \subseteq S, \A x \in S : Targets(x) \subseteq S
    PROVE  Reach(starts) \subseteq S
BY DEF Reach

\* A walk from nowhere goes nowhere.
LEMMA ReachNothing == Reach({}) = {}
<1>1. {} \in SUBSET Path
  OBVIOUS
<1> QED BY <1>1, ReachWithin

\* What imports nothing has no targets.
LEMMA NoTargets == ASSUME NEW p, p \notin DOMAIN imports PROVE Targets(p) = {}
BY DEF Targets, Edges

\* A file that is kept has not changed, and nothing it reaches has: invalidation
\* walks the importers, inference the imports, and they meet the same files.
LEMMA KeptReachesNoChange ==
    ASSUME NEW changed, NEW p \in Path, p \notin Dropped(changed),
           \A x \in Path : Targets(x) \subseteq Path
    PROVE  p \notin changed /\ Reach(Targets(p)) \cap changed = {}
<1>1. PICK S \in SUBSET Path :
          /\ changed \subseteq S
          /\ \A x \in Path : Targets(x) \cap S # {} => x \in S
          /\ p \notin S
  BY DEF Dropped
<1>2. \A x \in Path \ S : Targets(x) \subseteq Path \ S
  BY <1>1
<1>3. Reach(Targets(p)) \subseteq Path \ S
  BY <1>1, <1>2, ReachWithin
<1> QED BY <1>1, <1>3

\* Imports lead to files the index has.
LEMMA TargetsKnown == ASSUME TypeOK, NEW p PROVE Targets(p) \subseteq Path \cap Known
<1>1. CASE p \in DOMAIN imports
  BY <1>1 DEF TypeOK, Path
<1>2. CASE p \notin DOMAIN imports
  BY <1>2, NoTargets
<1> QED BY <1>1, <1>2

\* So does everything along the way.
LEMMA ReachKnown ==
    ASSUME TypeOK, NEW p PROVE Reach(Targets(p)) \subseteq Path \cap Known
<1>1. \A x \in Path \cap Known : Targets(x) \subseteq Path \cap Known
  BY TargetsKnown
<1>2. Targets(p) \subseteq Path \cap Known
  BY TargetsKnown
<1>3. Path \cap Known \in SUBSET Path
  OBVIOUS
<1> HIDE DEF Known, Path
<1> QED BY <1>1, <1>2, <1>3, ReachWithin

-----------------------------------------------------------------------------
(* What inference reads. *)

\* On an unchanged graph, inference reads the same of a file unless the file or
\* one it reaches changed.
LEMMA FactsStay ==
    ASSUME NEW p,
           imports' = imports, mode' = mode, Declared' = Declared,
           \A q \in {p} \cup Reach(Targets(p)) : File(q)' = File(q) /\ reported'[q] = reported[q]
    PROVE  Facts(p)' = Facts(p)
<1>1. \A q : Edges(q)' = Edges(q) /\ Spelled(q)' = Spelled(q) /\ Targets(q)' = Targets(q)
  BY DEF Edges, Spelled, Targets
<1>2. Reach(Targets(p))' = Reach(Targets(p))
  BY <1>1 DEF Reach
<1>3. \A q \in {p} \cup Reach(Targets(p)) : Own(q)' = Own(q)
  BY <1>1 DEF Own
<1>4. [q \in Reach(Targets(p)) |-> [now |-> Own(q), spelled |-> Spelled(q), types |-> Own(q)]]'
        = [q \in Reach(Targets(p)) |-> [now |-> Own(q), spelled |-> Spelled(q), types |-> Own(q)]]
  BY <1>1, <1>2, <1>3
<1> QED BY <1>3, <1>4 DEF Facts, Reading

\* On any graph, inference reads the same of a file that imports nothing, unless
\* it changed: a dependency keeps its types through a refresh.
LEMMA FactsStayAlone ==
    ASSUME NEW p, p \notin DOMAIN imports, p \notin DOMAIN imports',
           mode' = mode, Declared' = Declared,
           File(p)' = File(p), reported'[p] = reported[p]
    PROVE  Facts(p)' = Facts(p)
<1>1. Targets(p) = {} /\ Targets(p)' = {} /\ Edges(p) = {} /\ Edges(p)' = {}
  BY DEF Edges, Targets
<1>2. Reach(Targets(p)) = {}
  BY <1>1, ReachNothing
<1>3. Reach({})' = {}
  <2>1. {} \in SUBSET Path
    OBVIOUS
  <2> QED BY <2>1 DEF Reach
<1>4. Reach(Targets(p))' = {}
  BY <1>1, <1>3
<1>5. Own(p)' = Own(p)
  BY <1>1 DEF Own
<1> QED BY <1>2, <1>4, <1>5 DEF Facts, Reading

-----------------------------------------------------------------------------
(* The graph. *)

\* An import leads to a module, which is a file of the workspace or installed.
LEMMA GraphTargets ==
    ASSUME NEW fs, AreSources(fs, Path), NEW pk, NEW c \in Config,
           NEW p \in DOMAIN Graph(fs, pk, c), NEW e \in Graph(fs, pk, c)[p]
    PROVE  e.path \in Module \cap (DOMAIN fs \cup Installed)
<1>1. p \in (Module \cup Project) \cap DOMAIN fs
  BY DEF Graph
<1>2. CASE e \in IncludeEdges(fs, c.program, p)
  <2>1. PICK m \in Includes(fs, c.program, p) : e = [spec |-> m, path |-> m, included |-> TRUE]
    BY <1>2 DEF IncludeEdges
  <2>2. c.program \in Seq(Module)
    BY WorkspaceAssumption
  <2>3. m \in Module /\ m \in DOMAIN fs
    BY <2>2 DEF Includes
  <2> QED BY <2>1, <2>3
<1>3. CASE e \in ImportEdges(fs, pk, p)
  <2>1. PICK s \in ImportsOf[fs[p].text] :
            \E m \in Resolve(fs, pk, p, s) : e = [spec |-> s, path |-> m, included |-> FALSE]
    BY <1>3 DEF ImportEdges
  <2>2. PICK m \in Resolve(fs, pk, p, s) : e = [spec |-> s, path |-> m, included |-> FALSE]
    BY <2>1
  <2>3. fs[p].text \in Text
    BY <1>1 DEF AreSources, Source
  <2>4. s \in Spelling
    BY <2>3, WorkspaceAssumption
  <2>5. Candidates[p][s] \in Seq(Module)
    BY <1>1, <2>4, WorkspaceAssumption
  <2>6. m \in Module /\ m \in DOMAIN fs \cup Installed
    BY <2>5 DEF Resolve
  <2> QED BY <2>2, <2>6
<1>4. e \in IncludeEdges(fs, c.program, p) \cup ImportEdges(fs, pk, p)
  BY <1>1 DEF Graph
<1> QED BY <1>2, <1>3, <1>4

\* What a refresh leaves: a graph of the files there are, whose every edge leads
\* to one of them or to a dependency that has been read.
LEMMA Regraphed ==
    ASSUME NEW fs, AreSources(fs, Path), NEW kept, AreSources(kept, Module), NEW c \in Config,
           disk \in [Installed \cup Declaration -> Text],
           Regraph(fs, kept, c), files' = fs, config' = c
    PROVE  /\ AreSources(external', Module \ DOMAIN fs)
           /\ packages' \in SUBSET (Spelling \X Module)
           /\ DOMAIN imports' \subseteq DOMAIN fs
           /\ \A p \in DOMAIN imports' : Targets(p)' \subseteq Module \cap Known'
           /\ GraphCurrent'
<1> DEFINE graph == Graph(fs, Provided(fs), c)
<1>1. imports' = graph /\ packages' = Provided(fs) /\ DOMAIN external' = Dependencies(fs, graph)
  BY DEF Regraph
<1>2. \A p \in DOMAIN graph : \A e \in graph[p] : e.path \in Module \cap (DOMAIN fs \cup Installed)
  BY GraphTargets
<1>3. \A x \in UNION Range(graph) : x.path \in Module \cap (DOMAIN fs \cup Installed)
  BY <1>2 DEF Range
<1>4. Dependencies(fs, graph) \subseteq (Module \cap Installed) \ DOMAIN fs
  BY <1>3 DEF Dependencies
<1>5. AreSources(external', Module \ DOMAIN fs)
  <2> DEFINE read(p) == IF p \in DOMAIN kept THEN kept[p] ELSE [text |-> disk[p], read |-> c]
  <2>1. external' = [p \in Dependencies(fs, graph) |-> read(p)]
    BY DEF Regraph
  <2>2. \A p \in Dependencies(fs, graph) : read(p) \in Source
    BY <1>4 DEF AreSources, Source
  <2> QED BY <1>4, <2>1, <2>2 DEF AreSources
<1>6. packages' \in SUBSET (Spelling \X Module)
  <2>1. \A p \in Project \cap DOMAIN fs : fs[p].text \in Text
    BY DEF AreSources, Source
  <2>2. \A p \in Project \cap DOMAIN fs : PackagesOf[fs[p].text] \in SUBSET (Spelling \X Module)
    BY <2>1, WorkspaceAssumption
  <2> QED BY <1>1, <2>2 DEF Provided
<1>7. DOMAIN imports' \subseteq DOMAIN fs
  BY <1>1 DEF Graph
<1>8. \A p \in DOMAIN imports' : Targets(p)' \subseteq Module \cap Known'
  <2>1. SUFFICES ASSUME NEW p \in DOMAIN graph, NEW e \in graph[p]
                 PROVE  e.path \in Module /\ e.path \in DOMAIN fs \cup Dependencies(fs, graph)
    BY <1>1 DEF Targets, Edges, Known
  <2>2. e \in UNION Range(graph)
    BY DEF Range
  <2> QED BY <1>2, <2>1, <2>2 DEF Dependencies
<1>9. GraphCurrent'
  BY <1>1 DEF GraphCurrent
<1> QED BY <1>5, <1>6, <1>7, <1>8, <1>9

\* The graph of files depends on their paths and imports only.
LEMMA GraphStays ==
    ASSUME NEW fs, NEW gs, NEW pk, NEW c, NEW d,
           DOMAIN gs = DOMAIN fs, d.program = c.program,
           \A p \in DOMAIN fs : ImportsOf[gs[p].text] = ImportsOf[fs[p].text]
    PROVE  Graph(gs, pk, d) = Graph(fs, pk, c)
<1>1. \A p : IncludeEdges(gs, d.program, p) = IncludeEdges(fs, c.program, p)
  BY DEF IncludeEdges, Includes
<1>2. \A p, s : Resolve(gs, pk, p, s) = Resolve(fs, pk, p, s)
  BY DEF Resolve
<1>3. \A p \in DOMAIN fs : ImportEdges(gs, pk, p) = ImportEdges(fs, pk, p)
  BY <1>2 DEF ImportEdges
<1> QED BY <1>1, <1>3 DEF Graph

\* What projects provide depends on what they say only.
LEMMA ProvidedStays ==
    ASSUME NEW fs, NEW gs, DOMAIN gs = DOMAIN fs,
           \A p \in Project \cap DOMAIN fs : gs[p].text = fs[p].text
    PROVE  Provided(gs) = Provided(fs)
BY DEF Provided

-----------------------------------------------------------------------------
(* Each step keeps the invariant. *)

\* Initially there is nothing.
LEMMA InitInv == Init => WorkspaceInv
<1> SUFFICES ASSUME Init PROVE WorkspaceInv
  OBVIOUS
<1>1. DOMAIN Nothing = {}
  BY DEF Nothing
<1>2. TypeOK
  <2>1. AreSources(Nothing, Path) /\ AreSources(Nothing, Declaration)
    BY <1>1 DEF AreSources, Nothing
  <2>2. AreSources(Nothing, Module \ DOMAIN Nothing)
    BY <1>1 DEF AreSources, Nothing
  <2> QED BY <1>1, <2>1, <2>2, WorkspaceAssumption DEF Init, TypeOK, NoPass
<1>3. GraphCurrent
  <2>1. Provided(Nothing) = {}
    BY <1>1 DEF Provided
  <2>2. Graph(Nothing, {}, config) = Nothing
    BY <1>1 DEF Graph, Nothing
  <2>3. Dependencies(Nothing, Nothing) = {}
    BY <1>1 DEF Dependencies, Range
  <2> QED BY <1>1, <2>1, <2>2, <2>3 DEF Init, GraphCurrent
<1>4. AmbientFresh /\ CacheFresh
  BY <1>1 DEF Init, AmbientFresh, CacheFresh
<1> QED BY <1>2, <1>3, <1>4 DEF WorkspaceInv

\* What a change of files leaves of the files and of the graph.
LEMMA ChangeTyped ==
    ASSUME WorkspaceInv, NEW texts, texts \in [DOMAIN texts -> Text], DOMAIN texts \subseteq Path,
           NEW removed \in SUBSET Path, Change(texts, removed)
    PROVE  TypeOK' /\ GraphCurrent'
<1> DEFINE inserted == [p \in DOMAIN texts |-> [text |-> texts[p], read |-> config]]
           changed  == DOMAIN texts \cup removed
           now      == [p \in (DOMAIN files \ removed) \cup DOMAIN texts |->
                           IF p \in DOMAIN texts THEN inserted[p] ELSE files[p]]
<1> USE DEF WorkspaceInv
<1>1. files' = now /\ UNCHANGED <<disk, exported, reported, config, mode, pass, asked>>
  BY DEF Change
<1>2. AreSources(now, Path)
  BY DEF TypeOK, AreSources, Source
<1>3. DOMAIN Invalidated(changed) \subseteq DOMAIN types
  BY DEF Invalidated, Nothing, Restrict
<1>4. CASE Stale(inserted, removed)
  <2>1. /\ Regraph(now, external, config)
        /\ types' = Restrict(Invalidated(changed), DOMAIN Invalidated(changed) \cap DOMAIN external)
    BY <1>4 DEF Change
  <2>2. AreSources(external, Module)
    BY DEF TypeOK, AreSources
  <2>3. /\ AreSources(external', Module \ DOMAIN now)
        /\ packages' \in SUBSET (Spelling \X Module)
        /\ DOMAIN imports' \subseteq DOMAIN now
        /\ \A p \in DOMAIN imports' : Targets(p)' \subseteq Module \cap Known'
        /\ GraphCurrent'
    BY <1>1, <1>2, <2>1, <2>2, Regraphed DEF TypeOK
  <2>4. DOMAIN types' \subseteq Path
    BY <1>3, <2>1 DEF TypeOK, Restrict
  <2>5. TypeOK'
    BY <1>1, <1>2, <2>3, <2>4 DEF TypeOK
  <2> QED BY <2>3, <2>5
<1>5. CASE ~Stale(inserted, removed)
  <2>1. types' = Invalidated(changed) /\ UNCHANGED <<packages, imports, external>>
    BY <1>5 DEF Change
  <2>2. DOMAIN texts \subseteq DOMAIN files /\ removed \cap DOMAIN files = {}
    BY <1>5 DEF Stale
  <2>3. DOMAIN now = DOMAIN files
    BY <2>2
  <2>4. \A p \in DOMAIN files : ImportsOf[now[p].text] = ImportsOf[files[p].text]
    BY <1>5, <2>2 DEF Stale
  <2>5. \A p \in Project \cap DOMAIN files : now[p] = files[p]
    BY <1>5, <2>2 DEF Stale
  <2> HIDE DEF now, changed, inserted
  <2>6. Provided(now) = Provided(files)
    BY <2>3, <2>5, ProvidedStays
  <2>7. Graph(now, packages, config) = Graph(files, packages, config)
    BY <2>3, <2>4, GraphStays
  <2>8. Dependencies(now, imports) = Dependencies(files, imports)
    BY <2>3 DEF Dependencies
  <2>9. GraphCurrent'
    BY <1>1, <2>1, <2>6, <2>7, <2>8 DEF GraphCurrent
  <2>10. Known' = Known
    BY <1>1, <2>1, <2>3 DEF Known
  <2>11. \A p : Targets(p)' = Targets(p)
    BY <2>1 DEF Targets, Edges
  <2>12. AreSources(external', Module \ DOMAIN files')
    BY <1>1, <2>1, <2>3 DEF TypeOK
  <2>13. TypeOK'
    BY <1>1, <1>2, <1>3, <2>1, <2>3, <2>10, <2>11, <2>12 DEF TypeOK
  <2> QED BY <2>9, <2>13
<1> QED BY <1>4, <1>5

\* A change of no declaration leaves the declarations as they were, and what was
\* kept of them; a change of one drops everything.
LEMMA ChangeDeclared ==
    ASSUME WorkspaceInv, NEW texts, NEW removed, Change(texts, removed),
           (DOMAIN texts \cup removed) \cap Declaration = {}
    PROVE  Declared' = Declared
<1>1. Declaration \cap DOMAIN files' = Declaration \cap DOMAIN files
  BY DEF Change
<1>2. \A p \in Declaration \cap DOMAIN files : files'[p] = files[p]
  BY DEF Change
<1>3. exported' = exported
  BY DEF Change
<1> QED BY <1>1, <1>2, <1>3 DEF Declared, Restrict

\* What is kept of the declarations follows.
LEMMA ChangeAmbient ==
    ASSUME WorkspaceInv, NEW texts, NEW removed, Change(texts, removed)
    PROVE  AmbientFresh'
<1>1. CASE (DOMAIN texts \cup removed) \cap Declaration = {}
  <2>1. ambient' = ambient
    BY <1>1 DEF Change
  <2> QED BY <1>1, <2>1, ChangeDeclared DEF AmbientFresh, WorkspaceInv
<1>2. CASE (DOMAIN texts \cup removed) \cap Declaration # {}
  BY <1>2 DEF Change, AmbientFresh
<1> QED BY <1>1, <1>2

\* A change of files keeps no stale types: without a refresh because what is
\* kept reaches nothing that changed, with one because only dependencies keep
\* theirs, which import nothing and are read once.
LEMMA ChangeFresh ==
    ASSUME WorkspaceInv, NEW texts, DOMAIN texts \subseteq Path, NEW removed \in SUBSET Path,
           Change(texts, removed)
    PROVE  CacheFresh'
<1> DEFINE changed  == DOMAIN texts \cup removed
           inserted == [p \in DOMAIN texts |-> [text |-> texts[p], read |-> config]]
<1> USE DEF WorkspaceInv
<1>1. CASE changed \cap Declaration # {}
  <2>1. DOMAIN Invalidated(changed) = {}
    BY <1>1 DEF Invalidated, Nothing
  <2>2. DOMAIN types' = {}
    BY <2>1 DEF Change, Restrict
  <2> QED BY <2>2 DEF CacheFresh
<1>2. CASE changed \cap Declaration = {}
  <2> SUFFICES ASSUME NEW p \in DOMAIN types', p \in Known' PROVE types'[p] = Facts(p)'
    BY DEF CacheFresh
  <2>1. Invalidated(changed) = [q \in DOMAIN types \ Dropped(changed) |-> types[q]]
    BY <1>2 DEF Invalidated, Restrict
  <2>2. p \in DOMAIN types \ Dropped(changed) /\ types'[p] = types[p]
    BY <2>1 DEF Change, Restrict
  <2>3. p \in Path /\ \A x \in Path : Targets(x) \subseteq Path
    BY <2>2, TargetsKnown DEF TypeOK
  <2>4. p \notin changed /\ Reach(Targets(p)) \cap changed = {}
    BY <2>2, <2>3, KeptReachesNoChange
  <2>5. \A q \in Path \ changed : /\ (q \in DOMAIN files' <=> q \in DOMAIN files)
                                  /\ q \in DOMAIN files => files'[q] = files[q]
    BY DEF Change
  <2>6. mode' = mode /\ reported' = reported /\ exported' = exported /\ Declared' = Declared
    BY <1>2, ChangeDeclared DEF Change
  <2>7. CASE ~Stale(inserted, removed)
    <3>1. imports' = imports /\ external' = external
      BY <2>7 DEF Change
    <3>2. \A q \in {p} \cup Reach(Targets(p)) : q \in Path \ changed
      BY <2>3, <2>4, ReachPaths
    <3>3. \A q \in {p} \cup Reach(Targets(p)) : File(q)' = File(q)
      BY <2>5, <2>6, <3>1, <3>2 DEF File
    <3>4. p \in Known
      BY <2>3, <2>4, <2>5, <2>6, <3>1 DEF Known
    <3>5. Facts(p)' = Facts(p)
      BY <2>6, <3>1, <3>3, FactsStay
    <3> QED BY <2>2, <3>4, <3>5 DEF CacheFresh
  <2>8. CASE Stale(inserted, removed)
    <3>1. p \in DOMAIN external
      BY <2>8 DEF Change, Restrict
    <3>2. p \in Module /\ p \notin DOMAIN files /\ p \in Known
      BY <3>1 DEF TypeOK, AreSources, Known
    <3>3. p \notin DOMAIN files'
      BY <2>3, <2>4, <2>5, <3>2
    <3>4. p \notin DOMAIN imports /\ p \notin DOMAIN imports'
      <4>1. DOMAIN imports' \subseteq DOMAIN files'
        BY <2>8 DEF Change, Regraph, Graph
      <4> QED BY <3>2, <3>3, <4>1 DEF TypeOK
    <3>5. p \notin DOMAIN exported'
      BY <2>6, <3>2, WorkspaceAssumption DEF TypeOK, AreSources
    <3>6. p \in DOMAIN external'
      BY <3>3, <3>5 DEF Known
    <3>7. external'[p] = external[p]
      BY <2>8, <3>1, <3>6 DEF Change, Regraph
    <3>8. File(p)' = File(p)
      BY <3>1, <3>2, <3>3, <3>6, <3>7 DEF File
    <3>9. Facts(p)' = Facts(p)
      BY <2>6, <3>4, <3>8, FactsStayAlone
    <3> QED BY <2>2, <3>2, <3>9 DEF CacheFresh
  <2> QED BY <2>7, <2>8
<1> QED BY <1>1, <1>2

\* Files changed or not, a change keeps the invariant.
LEMMA ChangeInv ==
    ASSUME WorkspaceInv, NEW texts, texts \in [DOMAIN texts -> Text], DOMAIN texts \subseteq Path,
           NEW removed \in SUBSET Path, Change(texts, removed)
    PROVE  WorkspaceInv'
BY ChangeTyped, ChangeAmbient, ChangeFresh DEF WorkspaceInv

\* What a check reported of a file is read by those that reach the file.
LEMMA ReportInv ==
    ASSUME WorkspaceInv, NEW r \in Path, NEW names \in Names, Report(r, names)
    PROVE  WorkspaceInv'
<1> USE DEF WorkspaceInv
<1>1. UNCHANGED <<disk, files, external, exported, packages, imports, config, mode, pass, asked>>
  BY DEF Report
<1>2. reported' \in [Path -> Names \cup {NoNames}]
  BY DEF Report, TypeOK
<1>3. Known' = Known /\ Declared' = Declared /\ \A q : Targets(q)' = Targets(q) /\ File(q)' = File(q)
  BY <1>1 DEF Known, Declared, Targets, Edges, File
<1>4. DOMAIN types' \subseteq DOMAIN types
  BY DEF Report, Invalidated, Restrict, Nothing
<1>5. TypeOK'
  BY <1>1, <1>2, <1>3, <1>4 DEF TypeOK, AreSources
<1>6. GraphCurrent'
  BY <1>1 DEF GraphCurrent
<1>7. AmbientFresh'
  BY <1>3 DEF AmbientFresh, Report
<1>8. CacheFresh'
  <2> SUFFICES ASSUME NEW p \in DOMAIN types', p \in Known' PROVE types'[p] = Facts(p)'
    BY DEF CacheFresh
  <2>1. CASE reported[r] = names
    <3>1. reported' = reported /\ types' = types
      BY <2>1 DEF Report, TypeOK
    <3>2. Facts(p)' = Facts(p)
      BY <1>1, <1>3, <3>1, FactsStay
    <3> QED BY <1>3, <3>1, <3>2 DEF CacheFresh
  <2>2. CASE reported[r] # names
    <3>1. types' = Invalidated({r})
      BY <2>2 DEF Report
    <3>2. r \notin Declaration
      BY <3>1 DEF Invalidated, Nothing
    <3>3. p \in DOMAIN types \ Dropped({r}) /\ types'[p] = types[p]
      BY <3>1, <3>2 DEF Invalidated, Restrict
    <3>4. p \in Path /\ \A x \in Path : Targets(x) \subseteq Path
      BY <3>3, TargetsKnown DEF TypeOK
    <3>5. p \notin {r} /\ Reach(Targets(p)) \cap {r} = {}
      BY <3>3, <3>4, KeptReachesNoChange
    <3>6. \A q \in {p} \cup Reach(Targets(p)) : reported'[q] = reported[q]
      <4>1. \A q \in Path : q # r => reported'[q] = reported[q]
        BY DEF Report, TypeOK
      <4> QED BY <3>4, <3>5, <4>1, ReachPaths
    <3>7. Facts(p)' = Facts(p)
      BY <1>1, <1>3, <3>6, FactsStay
    <3> QED BY <1>3, <3>3, <3>7 DEF CacheFresh
  <2> QED BY <2>1, <2>2
<1> QED BY <1>5, <1>6, <1>7, <1>8

\* Another mode drops every type.
LEMMA SetModeInv ==
    ASSUME WorkspaceInv, NEW m \in Mode, SetMode(m)
    PROVE  WorkspaceInv'
<1> USE DEF WorkspaceInv
<1>1. UNCHANGED <<disk, files, external, exported, packages, imports, reported, ambient, config,
                  pass, asked>>
  BY DEF SetMode
<1>2. Known' = Known /\ Declared' = Declared /\ \A q : Targets(q)' = Targets(q) /\ File(q)' = File(q)
  BY <1>1 DEF Known, Declared, Targets, Edges, File
<1>3. TypeOK'
  BY <1>1, <1>2 DEF SetMode, TypeOK, AreSources, Nothing
<1>4. GraphCurrent' /\ AmbientFresh'
  BY <1>1, <1>2 DEF GraphCurrent, AmbientFresh
<1>5. CacheFresh'
  <2>1. CASE m = mode
    <3>1. types' = types /\ mode' = mode
      BY <2>1 DEF SetMode
    <3>2. \A p : Facts(p)' = Facts(p)
      BY <1>1, <1>2, <3>1, FactsStay
    <3> QED BY <1>2, <3>1, <3>2 DEF CacheFresh
  <2>2. CASE m # mode
    BY <2>2 DEF SetMode, CacheFresh, Nothing
  <2> QED BY <2>1, <2>2
<1> QED BY <1>3, <1>4, <1>5

\* Another config drops every type and what was kept of the declarations, and
\* has the graph read again when it changes what is in it.
LEMMA SetConfigInv ==
    ASSUME WorkspaceInv, NEW c \in Config, SetConfig(c)
    PROVE  WorkspaceInv'
<1> USE DEF WorkspaceInv
<1>1. /\ UNCHANGED <<disk, reported, mode, pass, asked>>
      /\ config' = c /\ types' = Nothing /\ ambient' = NotYet /\ files' = Reconfigured(files, c)
  BY DEF SetConfig
<1>2. AmbientFresh' /\ CacheFresh'
  BY <1>1 DEF AmbientFresh, CacheFresh, Nothing
<1>3. \A fs, paths : AreSources(fs, paths) => /\ AreSources(Reconfigured(fs, c), paths)
                                              /\ DOMAIN Reconfigured(fs, c) = DOMAIN fs
                                              /\ \A p \in DOMAIN fs :
                                                    Reconfigured(fs, c)[p].text = fs[p].text
  BY DEF AreSources, Reconfigured, Source
<1>4. AreSources(files', Path) /\ DOMAIN files' = DOMAIN files
      /\ \A p \in DOMAIN files : files'[p].text = files[p].text
  BY <1>1, <1>3 DEF TypeOK
<1>5. AreSources(exported', Declaration)
  BY WorkspaceAssumption DEF SetConfig, TypeOK, AreSources, Source
<1>6. CASE c.program # config.program
  <2>1. Regraph(files', Reconfigured(external, c), c)
    BY <1>6 DEF SetConfig
  <2>2. AreSources(Reconfigured(external, c), Module)
    <3>1. AreSources(external, Module)
      BY DEF TypeOK, AreSources
    <3> QED BY <1>3, <3>1
  <2>3. /\ AreSources(external', Module \ DOMAIN files')
        /\ packages' \in SUBSET (Spelling \X Module)
        /\ DOMAIN imports' \subseteq DOMAIN files'
        /\ \A p \in DOMAIN imports' : Targets(p)' \subseteq Module \cap Known'
        /\ GraphCurrent'
    <3> DEFINE fs == files'
    <3>1. AreSources(fs, Path) /\ Regraph(fs, Reconfigured(external, c), c) /\ files' = fs
      BY <1>4, <2>1
    <3> HIDE DEF fs
    <3> QED BY <1>1, <2>2, <3>1, Regraphed DEF TypeOK
  <2>4. TypeOK'
    BY <1>1, <1>4, <1>5, <2>3 DEF TypeOK, Nothing
  <2> QED BY <1>2, <2>3, <2>4
<1>7. CASE c.program = config.program
  <2>1. external' = Reconfigured(external, c) /\ UNCHANGED <<packages, imports>>
    BY <1>7 DEF SetConfig
  <2>2. AreSources(external', Module \ DOMAIN files') /\ DOMAIN external' = DOMAIN external
    BY <1>3, <1>4, <2>1 DEF TypeOK
  <2>3. Graph(files', packages, c) = Graph(files, packages, config)
    BY <1>4, <1>7, GraphStays
  <2>4. Provided(files') = Provided(files)
    BY <1>4, ProvidedStays
  <2>5. Dependencies(files', imports) = Dependencies(files, imports)
    BY <1>4 DEF Dependencies
  <2>6. GraphCurrent'
    BY <1>1, <2>1, <2>2, <2>3, <2>4, <2>5 DEF GraphCurrent
  <2>7. \A p \in DOMAIN imports' : Targets(p)' \subseteq Module \cap (DOMAIN files \cup DOMAIN external)
    <3>1. \A p \in DOMAIN imports : Targets(p)' = Targets(p)
      BY <2>1 DEF Targets, Edges
    <3>2. Module \cap DOMAIN exported = {}
      BY WorkspaceAssumption DEF TypeOK, AreSources
    <3> QED BY <2>1, <3>1, <3>2 DEF TypeOK, Known
  <2>8. TypeOK'
    BY <1>1, <1>4, <1>5, <2>1, <2>2, <2>7 DEF TypeOK, Nothing, Known
  <2> QED BY <1>2, <2>6, <2>8
<1> QED BY <1>6, <1>7

\* What stays when the types and the walks change alone.
LEMMA Unmoved ==
    ASSUME Unchanging' = Unchanging
    PROVE  /\ Known' = Known /\ Declared' = Declared
           /\ \A p : /\ Targets(p)' = Targets(p) /\ File(p)' = File(p)
                     /\ Own(p)' = Own(p) /\ Facts(p)' = Facts(p)
<1>1. Known' = Known /\ Declared' = Declared
  BY DEF Unchanging, Known, Declared
<1>2. \A p : Targets(p)' = Targets(p) /\ File(p)' = File(p) /\ Own(p)' = Own(p)
  BY DEF Unchanging, Targets, Edges, File, Own
<1>3. imports' = imports /\ mode' = mode /\ reported' = reported
  BY DEF Unchanging
<1>4. \A p : Facts(p)' = Facts(p)
  BY <1>1, <1>2, <1>3, FactsStay
<1> QED BY <1>1, <1>2, <1>4

\* A file of the disk is not read again.
LEMMA DiskChangesInv ==
    ASSUME WorkspaceInv, NEW p \in DOMAIN disk, NEW text \in Says[p], DiskChanges(p, text)
    PROVE  WorkspaceInv'
<1> USE DEF WorkspaceInv
<1>1. UNCHANGED <<files, external, exported, packages, imports, reported, types, ambient, config,
                  mode, pass, asked>>
  BY DEF DiskChanges
<1>2. Known' = Known /\ Declared' = Declared /\ \A q : Targets(q)' = Targets(q) /\ File(q)' = File(q)
  BY <1>1 DEF Known, Declared, Targets, Edges, File
<1>3. text \in Text
  BY WorkspaceAssumption DEF TypeOK, Path
<1>4. TypeOK'
  BY <1>1, <1>2, <1>3 DEF DiskChanges, TypeOK, AreSources
<1>5. \A q : Facts(q)' = Facts(q)
  BY <1>1, <1>2, FactsStay
<1> QED BY <1>1, <1>2, <1>4, <1>5 DEF GraphCurrent, AmbientFresh, CacheFresh

\* Inference of a component leaves what one would infer now, whatever it finds
\* already there: those types are what one would infer too.
LEMMA InferFresh ==
    ASSUME WorkspaceInv, NEW c \in SUBSET Path, Infer(c), Unchanging' = Unchanging
    PROVE  AmbientFresh' /\ CacheFresh' /\ DOMAIN types' \subseteq Path
<1> USE DEF WorkspaceInv
<1> DEFINE declared == IF ambient = NotYet THEN Declared ELSE ambient
           Told(q)  == Inferred(c, q)
<1>1. CASE c \subseteq DOMAIN types
  <2>1. types' = types /\ ambient' = ambient
    BY <1>1 DEF Infer
  <2> QED BY <2>1, Unmoved DEF AmbientFresh, CacheFresh, TypeOK
<1>2. CASE ~(c \subseteq DOMAIN types)
  <2>1. ambient' = declared
    BY <1>2 DEF Infer
  <2>2. types' = [p \in DOMAIN types \cup c |->
                    IF p \in c THEN Reading(p, declared, Told) ELSE types[p]]
    BY <1>2 DEF Infer
  <2>3. declared = Declared
    BY DEF AmbientFresh
  <2>4. ASSUME NEW p \in c PROVE Reading(p, declared, Told) = Facts(p)
    <3>1. \A q \in Reach(Targets(p)) : Told(q) = Own(q)
      <4>1. SUFFICES ASSUME NEW q \in Reach(Targets(p)), q \in DOMAIN types PROVE types[q].own = Own(q)
        BY DEF Inferred
      <4>2. q \in Known
        BY ReachKnown
      <4>3. types[q] = Facts(q)
        BY <4>1, <4>2 DEF CacheFresh
      <4> QED BY <4>3 DEF Facts, Reading
    <3> QED BY <2>3, <3>1 DEF Facts, Reading
  <2>5. CacheFresh'
    <3> SUFFICES ASSUME NEW p \in DOMAIN types', p \in Known' PROVE types'[p] = Facts(p)
      BY Unmoved DEF CacheFresh
    <3>1. CASE p \in c
      BY <2>2, <2>4, <3>1
    <3>2. CASE p \notin c
      BY <2>2, <3>2, Unmoved DEF CacheFresh
    <3> QED BY <3>1, <3>2
  <2>6. AmbientFresh'
    BY <2>1, <2>3, Unmoved DEF AmbientFresh
  <2>7. DOMAIN types' \subseteq Path
    BY <2>2 DEF TypeOK
  <2> QED BY <2>5, <2>6, <2>7
<1> QED BY <1>1, <1>2

\* The components of a walk are sets of paths.
LEMMA ComponentsAreSets == ASSUME NEW starts PROVE Components(starts) \in SUBSET SUBSET Path
BY ReachPaths DEF Components

\* A step of inference keeps the invariant.
LEMMA InfersInv == ASSUME WorkspaceInv, Infers PROVE WorkspaceInv'
<1> USE DEF WorkspaceInv
<1>1. Unchanging' = Unchanging
  BY DEF Infers, BeginPass, TakeComponent, InferComponent, AbandonComponent, StopPass, NextLayer,
         EndPass, Ask, InferAsked
<1>2. GraphCurrent'
  BY <1>1 DEF GraphCurrent, Unchanging
<1>3. AmbientFresh' /\ CacheFresh' /\ DOMAIN types' \subseteq Path
  <2>1. CASE UNCHANGED <<types, ambient>>
    BY <1>1, <2>1, Unmoved DEF AmbientFresh, CacheFresh, TypeOK
  <2>2. CASE \E c \in pass.working : InferComponent(c)
    BY <1>1, <2>2, InferFresh DEF InferComponent, TypeOK
  <2>3. CASE \E c \in asked : InferAsked(c)
    BY <1>1, <2>3, InferFresh DEF InferAsked, TypeOK
  <2> QED BY <2>1, <2>2, <2>3
          DEF Infers, BeginPass, TakeComponent, AbandonComponent, StopPass, NextLayer, EndPass, Ask
<1>4. /\ DOMAIN pass' = DOMAIN NoPass
      /\ pass'.components \in SUBSET SUBSET Path
      /\ pass'.left \subseteq pass'.components /\ pass'.working \subseteq pass'.components
  <2> "components" \in DOMAIN pass /\ "left" \in DOMAIN pass /\ "working" \in DOMAIN pass
    BY DEF TypeOK, NoPass
  <2>1. CASE \E starts \in SUBSET DOMAIN files : BeginPass(starts)
    BY <2>1, ComponentsAreSets DEF BeginPass, NoPass, Layer
  <2>2. CASE \E c \in pass.left : TakeComponent(c)
    BY <2>2 DEF TakeComponent, TypeOK
  <2>3. CASE \E c \in pass.working : InferComponent(c) \/ AbandonComponent(c)
    BY <2>3 DEF InferComponent, AbandonComponent, TypeOK
  <2>4. CASE (\E c \in asked : InferAsked(c)) \/ \E p \in Known : Ask(p)
    BY <2>4 DEF InferAsked, Ask, TypeOK
  <2>5. CASE StopPass
    BY <2>5 DEF StopPass, TypeOK
  <2>6. CASE NextLayer
    BY <2>6 DEF NextLayer, Layer, TypeOK
  <2>7. CASE EndPass
    BY <2>7 DEF EndPass, NoPass
  <2> QED BY <2>1, <2>2, <2>3, <2>4, <2>5, <2>6, <2>7 DEF Infers
<1>5. asked' \in SUBSET SUBSET Path
  <2>1. CASE \E p \in Known : Ask(p)
    BY <2>1, ComponentsAreSets DEF Ask
  <2>2. CASE \E c \in asked : InferAsked(c)
    BY <2>2 DEF InferAsked, TypeOK
  <2>3. CASE asked' = asked
    BY <2>3 DEF TypeOK
  <2> QED BY <2>1, <2>2, <2>3
          DEF Infers, BeginPass, TakeComponent, InferComponent, AbandonComponent, StopPass,
              NextLayer, EndPass
<1>6. TypeOK'
  BY <1>1, <1>3, <1>4, <1>5, Unmoved DEF TypeOK, Unchanging, AreSources
<1> QED BY <1>2, <1>3, <1>6

-----------------------------------------------------------------------------
(* The theorems. *)

\* Every step keeps the invariant.
LEMMA NextInv == ASSUME WorkspaceInv, [Next]_vars PROVE WorkspaceInv'
<1>1. CASE \E removed \in SUBSET Path, changed \in SUBSET Path :
               \E texts \in [changed -> Text] : Change(texts, removed)
  <2>1. PICK removed \in SUBSET Path, changed \in SUBSET Path :
                \E texts \in [changed -> Text] : Change(texts, removed)
    BY <1>1
  <2>2. PICK texts \in [changed -> Text] : Change(texts, removed)
    BY <2>1
  <2>3. texts \in [DOMAIN texts -> Text] /\ DOMAIN texts \subseteq Path
    BY <2>2
  <2> QED BY <2>2, <2>3, ChangeInv
<1>2. CASE \E p \in Path, names \in Names : Report(p, names)
  BY <1>2, ReportInv
<1>3. CASE \E m \in Mode : SetMode(m)
  BY <1>3, SetModeInv
<1>4. CASE \E c \in Config : SetConfig(c)
  BY <1>4, SetConfigInv
<1>5. CASE \E p \in DOMAIN disk : \E text \in Says[p] : DiskChanges(p, text)
  BY <1>5, DiskChangesInv
<1>6. CASE Infers
  BY <1>6, InfersInv
<1>7. CASE UNCHANGED vars
  <2>1. Unchanging' = Unchanging /\ UNCHANGED <<types, ambient, pass, asked>>
    BY <1>7 DEF vars, Unchanging
  <2> QED BY <2>1, Unmoved
          DEF WorkspaceInv, TypeOK, GraphCurrent, AmbientFresh, CacheFresh, Unchanging, AreSources
<1> QED BY <1>1, <1>2, <1>3, <1>4, <1>5, <1>6, <1>7 DEF Next, Changes

\* The invariant holds of every workspace.
THEOREM IndexCorrect == Spec => []WorkspaceInv
<1>1. Init => WorkspaceInv
  BY InitInv
<1>2. WorkspaceInv /\ [Next]_vars => WorkspaceInv'
  BY NextInv
<1> QED BY <1>1, <1>2, PTL DEF Spec

\* The index is well formed: what is imported is there, no dependency is a
\* workspace file.
THEOREM IndexTyped == Spec => []TypeOK
<1>1. WorkspaceInv => TypeOK
  BY DEF WorkspaceInv
<1> QED BY <1>1, IndexCorrect, PTL

\* The graph is always that of the files there are.
THEOREM GraphIsCurrent == Spec => []GraphCurrent
<1>1. WorkspaceInv => GraphCurrent
  BY DEF WorkspaceInv
<1> QED BY <1>1, IndexCorrect, PTL

\* Types kept are types one would infer now.
THEOREM CacheIsFresh == Spec => []CacheFresh
<1>1. WorkspaceInv => CacheFresh
  BY DEF WorkspaceInv
<1> QED BY <1>1, IndexCorrect, PTL

-----------------------------------------------------------------------------
(* What is finite has a least, and what each thing rests on can be counted.  *)

\* A family of sets of finitely many things has a smallest member, in that it
\* contains no other.
LEMMA LeastSet ==
    ASSUME NEW S, IsFiniteSet(S), NEW T \in SUBSET SUBSET S, T # {}
    PROVE  \E X \in T : \A Y \in T : Y \subseteq X => Y = X
<1>1. IsWellFoundedOn(StrictSubsetOrdering(S), FiniteSubsetsOf(S))
  BY FS_StrictSubsetOrderingWellFounded
<1>2. T \subseteq FiniteSubsetsOf(S)
  BY FS_FiniteSubsetsOfFinite
<1>3. PICK X \in T : \A Y \in T : <<Y, X>> \notin StrictSubsetOrdering(S)
  BY <1>1, <1>2, WFMin
<1>4. ASSUME NEW Y \in T, Y \subseteq X, Y # X PROVE FALSE
  <2>1. <<Y, X>> \in (SUBSET S) \X (SUBSET S) /\ <<Y, X>>[1] = Y /\ <<Y, X>>[2] = X
    OBVIOUS
  <2> QED BY <1>3, <1>4, <2>1, Zenon DEF StrictSubsetOrdering
<1> QED BY <1>3, <1>4, Zenon

\* Of finitely many things that have a number, one has the largest.
LEMMA Largest ==
    ASSUME NEW S, IsFiniteSet(S), S # {}, NEW f, \A x \in S : f[x] \in Nat
    PROVE  \E x \in S : \A y \in S : f[y] <= f[x]
<1> DEFINE Over(x) == {y \in S : f[y] > f[x]}
           Overs == {Over(x) : x \in S}
<1>1. Overs \in SUBSET SUBSET S /\ Overs # {}
  OBVIOUS
<1>2. PICK X \in Overs : \A Y \in Overs : Y \subseteq X => Y = X
  <2> HIDE DEF Overs
  <2> QED BY <1>1, LeastSet
<1>3. PICK x \in S : X = Over(x)
  OBVIOUS
<1>4. ASSUME NEW y \in S, f[y] > f[x] PROVE FALSE
  <2>1. Over(y) \subseteq Over(x) /\ y \in Over(x) /\ y \notin Over(y)
    BY <1>4, SMT
  <2>2. Over(y) \in Overs
    OBVIOUS
  <2> QED BY <1>2, <1>3, <2>1, <2>2
<1>5. \A y \in S : f[y] <= f[x]
  BY <1>4, SMT
<1> QED BY <1>5

\* The maximum of such numbers is one of them, and none is larger.
LEMMA MaxIs ==
    ASSUME NEW S, IsFiniteSet(S), S # {}, NEW f, \A x \in S : f[x] \in Nat
    PROVE  \E x \in S : Max({f[y] : y \in S}) = f[x] /\ \A y \in S : f[y] <= f[x]
<1>1. PICK x \in S : \A y \in S : f[y] <= f[x]
  BY Largest
<1> DEFINE M == Max({f[y] : y \in S})
<1>2. f[x] \in {f[y] : y \in S} /\ \A n \in {f[y] : y \in S} : f[x] >= n
  BY <1>1, SMT
<1>3. M \in {f[y] : y \in S} /\ \A n \in {f[y] : y \in S} : M >= n
  BY <1>2, Zenon DEF Max
<1>4. PICK z \in S : M = f[z]
  BY <1>3
<1>5. M >= f[x]
  BY <1>3
<1>6. M <= f[x]
  BY <1>1, <1>4
<1>7. M = f[x]
  BY <1>4, <1>5, <1>6, SMT
<1> QED BY <1>1, <1>7

\* What each of `cs` rests on.
Rests(cs, Under) == \A T \in SUBSET cs : T # {} => \E c \in T : Under[c] \cap T = {}

Counted(Under, g, c) == IF Under[c] = {} THEN 0 ELSE 1 + Max({g[d] : d \in Under[c]})

\* Its height above what rests on nothing is a number.
LEMMA CountedIsNat ==
    ASSUME NEW Under, NEW g, NEW c, IsFiniteSet(Under[c]), \A d \in Under[c] : g[d] \in Nat
    PROVE  Counted(Under, g, c) \in Nat
<1>1. CASE Under[c] = {}
  BY <1>1 DEF Counted
<1>2. CASE Under[c] # {}
  <2>1. PICK d \in Under[c] : Max({g[y] : y \in Under[c]}) = g[d]
    BY <1>2, MaxIs
  <2>2. Max({g[y] : y \in Under[c]}) \in Nat
    BY <2>1
  <2> HIDE <2>1
  <2> QED BY <1>2, <2>2, SMT DEF Counted
<1> QED BY <1>1, <1>2

\* There is a function that counts them all: the largest part counted that is
\* closed under what it rests on is all.
LEMMA CountExists ==
    ASSUME NEW cs, IsFiniteSet(cs), NEW Under, \A c \in cs : Under[c] \subseteq cs,
           Rests(cs, Under)
    PROVE  \E g : g = [c \in cs |-> Counted(Under, g, c)]
<1> DEFINE Counts(D, g) ==
               /\ g = [c \in D |-> g[c]]
               /\ \A c \in D : g[c] = Counted(Under, g, c) /\ Under[c] \subseteq D
           Left == {cs \ D : D \in {E \in SUBSET cs : \E g : Counts(E, g)}}
<1>1. Counts({}, [c \in {} |-> 0])
  OBVIOUS
<1>2. Left \in SUBSET SUBSET cs /\ Left # {}
  <2>1. {} \in {E \in SUBSET cs : \E g : Counts(E, g)}
    BY <1>1
  <2> HIDE DEF Counts
  <2>2. cs \ {} \in Left
    BY <2>1
  <2> QED BY <2>2
<1>3. PICK X \in Left : \A Y \in Left : Y \subseteq X => Y = X
  <2> HIDE DEF Left
  <2> QED BY <1>2, LeastSet
<1>4. PICK D \in SUBSET cs : X = cs \ D /\ \E g : Counts(D, g)
  <2> HIDE DEF Counts
  <2> QED OBVIOUS
<1>5. PICK g : Counts(D, g)
  BY <1>4
<1>6. ASSUME X # {} PROVE FALSE
  <2>1. PICK c \in X : Under[c] \cap X = {}
    BY <1>6, <1>4 DEF Rests
  <2>2. c \in cs /\ c \notin D /\ Under[c] \subseteq D
    BY <2>1, <1>4
  <2> DEFINE h == [x \in D \cup {c} |-> IF x = c THEN Counted(Under, g, c) ELSE g[x]]
  <2>3. \A x \in D : h[x] = g[x]
    BY <2>2
  <2>4. h[c] = Counted(Under, g, c)
    OBVIOUS
  <2>5. h = [x \in D \cup {c} |-> h[x]]
    OBVIOUS
  <2> HIDE DEF h
  <2>6. ASSUME NEW x \in D \cup {c} PROVE h[x] = Counted(Under, h, x) /\ Under[x] \subseteq D
    <3>1. Under[x] \subseteq D
      BY <2>2, <1>5
    <3>2. {h[d] : d \in Under[x]} = {g[d] : d \in Under[x]}
      BY <2>3, <3>1
    <3>3. Counted(Under, h, x) = Counted(Under, g, x)
      BY <3>2, Zenon DEF Counted
    <3>4. h[x] = Counted(Under, g, x)
      BY <1>5, <2>3, <2>4
    <3> QED BY <3>1, <3>3, <3>4
  <2>7. Counts(D \cup {c}, h)
    BY <2>5, <2>6
  <2> HIDE DEF Counts
  <2>8. cs \ (D \cup {c}) \in Left
    BY <2>2, <2>7
  <2>9. cs \ (D \cup {c}) \subseteq X /\ cs \ (D \cup {c}) # X
    BY <1>4, <2>1
  <2> QED BY <1>3, <2>8, <2>9
<1>7. D = cs
  BY <1>4, <1>6
<1>8. g = [c \in cs |-> g[c]] /\ \A c \in cs : g[c] = Counted(Under, g, c)
  BY <1>5, <1>7
<1>9. [c \in cs |-> g[c]] = [c \in cs |-> Counted(Under, g, c)]
  BY <1>8, Zenon
<1> QED BY <1>8, <1>9, Zenon

\* Such a function gives numbers, each larger than those of what it counts; and
\* one that is no 0 is one more than one of those.
LEMMA CountIs ==
    ASSUME NEW cs, IsFiniteSet(cs), NEW Under, \A c \in cs : Under[c] \subseteq cs,
           Rests(cs, Under), NEW g, g = [c \in cs |-> Counted(Under, g, c)]
    PROVE  /\ \A c \in cs : g[c] \in Nat
           /\ \A c \in cs : \A d \in Under[c] : g[d] < g[c]
           /\ \A c \in cs : g[c] # 0 => \E d \in Under[c] : g[c] = g[d] + 1
<1>0. \A c \in cs : IsFiniteSet(Under[c]) /\ g[c] = Counted(Under, g, c)
  <2>1. \A c \in cs : IsFiniteSet(Under[c])
    BY FS_Subset
  <2>2. \A c \in cs : g[c] = Counted(Under, g, c)
    BY Zenon
  <2> QED BY <2>1, <2>2
<1>1. \A c \in cs : g[c] \in Nat
  <2> DEFINE T == {c \in cs : g[c] \notin Nat}
  <2>1. SUFFICES ASSUME T # {} PROVE FALSE
    OBVIOUS
  <2>2. PICK c \in T : Under[c] \cap T = {}
    BY <2>1 DEF Rests
  <2>3. \A d \in Under[c] : g[d] \in Nat
    BY <2>2
  <2>4. Counted(Under, g, c) \in Nat
    BY <1>0, <2>3, CountedIsNat
  <2> QED BY <1>0, <2>4
<1>2. ASSUME NEW c \in cs, Under[c] # {}
      PROVE  /\ \A d \in Under[c] : g[d] < g[c]
             /\ \E d \in Under[c] : g[c] = g[d] + 1
  <2>1. \A d \in Under[c] : g[d] \in Nat
    BY <1>1
  <2>2. PICK z \in Under[c] : /\ Max({g[y] : y \in Under[c]}) = g[z]
                              /\ \A y \in Under[c] : g[y] <= g[z]
    BY <1>0, <1>2, <2>1, MaxIs
  <2>3. g[c] = 1 + Max({g[y] : y \in Under[c]})
    BY <1>0, <1>2, Zenon DEF Counted
  <2>4. g[c] = 1 + g[z]
    BY <2>2, <2>3
  <2>5. \A y \in Under[c] : g[y] < g[c]
    BY <2>1, <2>2, <2>4, SMT
  <2>6. g[c] = g[z] + 1
    BY <2>1, <2>4, SMT
  <2> QED BY <2>5, <2>6
<1>3. \A c \in cs : Under[c] = {} => g[c] = 0
  BY <1>0, Zenon DEF Counted
<1>4. \A c \in cs : \A d \in Under[c] : g[d] < g[c]
  BY <1>2
<1>5. \A c \in cs : g[c] # 0 => \E d \in Under[c] : g[c] = g[d] + 1
  BY <1>2, <1>3
<1> QED BY <1>1, <1>4, <1>5

-----------------------------------------------------------------------------
(* The components of the graph, and how deep each is.                       *)

\* The components `c` imports.
Imported(cs, c) == {d \in cs \ {c} : \E p \in c : Targets(p) \cap d # {}}

\* Imports lead to paths.
Closed == \A p \in Path : Targets(p) \subseteq Path

\* Where a walk starts it has been.
LEMMA ReachStarts == ASSUME NEW starts \in SUBSET Path PROVE starts \subseteq Reach(starts)
BY DEF Reach

\* A walk follows the imports of what it meets.
LEMMA ReachTargets ==
    ASSUME Closed, NEW starts, NEW p \in Reach(starts)
    PROVE  Targets(p) \subseteq Reach(starts)
<1>1. p \in Path
  BY DEF Reach
<1>2. ASSUME NEW q \in Targets(p), NEW S \in SUBSET Path, starts \subseteq S,
             \A x \in S : Targets(x) \subseteq S
      PROVE  q \in S
  <2>1. p \in S
    BY <1>2 DEF Reach
  <2> QED BY <1>2, <2>1
<1>3. Targets(p) \subseteq Path
  BY <1>1 DEF Closed
<1> QED BY <1>2, <1>3 DEF Reach

\* A walk from what a walk meets meets nothing else.
LEMMA ReachOnward ==
    ASSUME Closed, NEW starts, NEW more, more \subseteq Reach(starts)
    PROVE  Reach(more) \subseteq Reach(starts)
<1>1. Reach(starts) \in SUBSET Path
  BY DEF Reach
<1>2. \A x \in Reach(starts) : Targets(x) \subseteq Reach(starts)
  BY ReachTargets
<1> HIDE DEF Closed
<1> QED BY <1>1, <1>2, ReachWithin

\* The files that reach each other with `p`.
Circle(p) == {q \in Reach({p}) : p \in Reach({q})}

LEMMA ComponentsAreCircles ==
    ASSUME Closed, NEW starts
    PROVE  Components(starts) = {Circle(p) : p \in Reach(starts)}
<1> DEFINE From == [p \in Reach(starts) |-> Reach({p})]
<1>1. ASSUME NEW p \in Reach(starts) PROVE {q \in From[p] : p \in From[q]} = Circle(p)
  <2>1. From[p] = Reach({p})
    OBVIOUS
  <2>2. Reach({p}) \subseteq Reach(starts)
    BY ReachOnward
  <2>3. \A q \in Reach({p}) : From[q] = Reach({q})
    BY <2>2
  <2> HIDE DEF From
  <2> QED BY <2>1, <2>3 DEF Circle
<1>2. Components(starts) = {{q \in From[p] : p \in From[q]} : p \in Reach(starts)}
  BY DEF Components
<1> HIDE DEF From
<1> QED BY <1>1, <1>2

\* A walk from a component is one from any of its files, and its files are met by
\* one walk or by none.
LEMMA CircleReach ==
    ASSUME Closed, NEW p \in Path, NEW q \in Circle(p)
    PROVE  Reach({q}) = Reach({p}) /\ Circle(q) = Circle(p)
<1>1. q \in Reach({p}) /\ p \in Reach({q}) /\ q \in Path
  BY DEF Circle, Reach
<1>2. Reach({q}) \subseteq Reach({p}) /\ Reach({p}) \subseteq Reach({q})
  BY <1>1, ReachOnward
<1>3. Reach({q}) = Reach({p})
  BY <1>2
<1>4. ASSUME NEW x PROVE x \in Circle(q) <=> x \in Circle(p)
  <2>1. x \in Reach({p}) => (q \in Reach({x}) <=> p \in Reach({x}))
    <3>1. ASSUME q \in Reach({x}) PROVE p \in Reach({x})
      <4>1. Reach({q}) \subseteq Reach({x})
        BY <3>1, ReachOnward
      <4> QED BY <1>1, <4>1
    <3>2. ASSUME p \in Reach({x}) PROVE q \in Reach({x})
      <4>1. Reach({p}) \subseteq Reach({x})
        BY <3>2, ReachOnward
      <4> QED BY <1>1, <4>1
    <3> QED BY <3>1, <3>2
  <2> QED BY <1>3, <2>1 DEF Circle
<1>5. Circle(q) = Circle(p)
  BY <1>4
<1> QED BY <1>3, <1>5

\* Each file a walk meets is in one component of it.
LEMMA ComponentOf ==
    ASSUME Closed, NEW starts, NEW p \in Reach(starts)
    PROVE  Circle(p) \in Components(starts) /\ p \in Circle(p)
<1>1. p \in Path
  BY DEF Reach
<1>2. p \in Reach({p})
  BY <1>1, ReachStarts
<1>3. p \in Circle(p)
  BY <1>2 DEF Circle
<1>4. Components(starts) = {Circle(x) : x \in Reach(starts)}
  BY ComponentsAreCircles
<1> QED BY <1>3, <1>4

LEMMA ComponentIs ==
    ASSUME Closed, NEW starts, NEW c \in Components(starts), NEW p \in c
    PROVE  c = Circle(p) /\ p \in Reach(starts) /\ p \in Path
<1>1. PICK q \in Reach(starts) : c = Circle(q)
  BY ComponentsAreCircles
<1>2. q \in Path
  BY DEF Reach
<1>3. p \in Reach({q})
  BY <1>1 DEF Circle
<1>4. p \in Reach(starts)
  BY <1>3, ReachOnward
<1>5. c = Circle(p)
  BY <1>1, <1>2, CircleReach
<1>6. p \in Path
  BY <1>4 DEF Reach
<1> QED BY <1>4, <1>5, <1>6

\* Components import each other in no circle: of some of them, one imports none
\* of the others.
LEMMA ComponentsRest ==
    ASSUME Closed, IsFiniteSet(Path), NEW starts,
           NEW Under, Under = [c \in Components(starts) |-> Imported(Components(starts), c)]
    PROVE  Rests(Components(starts), Under)
<1> DEFINE cs == Components(starts)
<1>1. SUFFICES ASSUME NEW T \in SUBSET cs, T # {} PROVE \E c \in T : Under[c] \cap T = {}
  BY DEF Rests
<1> DEFINE Walks == {Reach(c) : c \in T}
<1>2. Walks \in SUBSET SUBSET Path /\ Walks # {}
  <2>1. \A c \in T : Reach(c) \in SUBSET Path
    BY DEF Reach
  <2> QED BY <1>1, <2>1
<1>3. PICK X \in Walks : \A Y \in Walks : Y \subseteq X => Y = X
  <2> HIDE DEF Walks
  <2> QED BY <1>2, LeastSet
<1>4. PICK c \in T : X = Reach(c)
  OBVIOUS
<1>5. ASSUME NEW d \in Under[c] \cap T PROVE FALSE
  <2>1. c \in cs /\ d \in cs /\ d \in Imported(cs, c)
    BY <1>1, <1>5
  <2>2. d # c /\ \E p \in c : Targets(p) \cap d # {}
    BY <2>1 DEF Imported
  <2>3. PICK p \in c, q \in d : q \in Targets(p)
    BY <2>2
  <2>4. c = Circle(p) /\ p \in Path /\ d = Circle(q) /\ q \in Path
    BY <2>1, <2>3, ComponentIs
  <2>5. c \subseteq Path /\ d \subseteq Path
    BY <2>4 DEF Circle, Reach
  <2>6. c \subseteq Reach(c) /\ d \subseteq Reach(d)
    BY <2>5, ReachStarts
  <2>7. q \in Reach(c)
    BY <2>3, <2>6, ReachTargets
  <2>8. d \subseteq Reach(c)
    <3>1. Reach({q}) \subseteq Reach(c)
      BY <2>7, ReachOnward
    <3> QED BY <2>4, <3>1 DEF Circle
  <2>9. Reach(d) \subseteq Reach(c)
    BY <2>8, ReachOnward
  <2>10. Reach(d) = Reach(c)
    BY <1>3, <1>4, <2>9, <1>5
  <2>11. p \in Reach(d)
    BY <2>3, <2>6, <2>10
  <2>12. Reach(d) \subseteq Reach({q})
    <3>1. d \subseteq Reach({q})
      BY <2>4 DEF Circle
    <3> QED BY <3>1, ReachOnward
  <2>13. Reach(c) \subseteq Reach({p})
    <3>1. c \subseteq Reach({p})
      BY <2>4 DEF Circle
    <3> QED BY <3>1, ReachOnward
  <2>14. q \in Circle(p)
    BY <2>7, <2>11, <2>12, <2>13 DEF Circle
  <2>15. Circle(q) = Circle(p)
    BY <2>4, <2>14, CircleReach
  <2> QED BY <2>2, <2>4, <2>15
<1> QED BY <1>5

\* The depth of components: a number, larger than that of what they import, and
\* nothing is left out below it.
LEMMA DepthWorks ==
    ASSUME Closed, IsFiniteSet(Path), NEW starts
    PROVE  LET cs == Components(starts)
               depth == Depth(cs)
           IN  /\ \A c \in cs : depth[c] \in Nat
               /\ \A c \in cs : \A d \in Imported(cs, c) : depth[d] < depth[c]
               /\ \A c \in cs : depth[c] # 0 => \E d \in cs : depth[c] = depth[d] + 1
<1> DEFINE cs == Components(starts)
           Under == [c \in cs |-> Imported(cs, c)]
           Deepest(g, c) == IF Imported(cs, c) = {} THEN 0 ELSE 1 + Max({g[d] : d \in Imported(cs, c)})
<1>1. IsFiniteSet(cs)
  <2>1. cs \in SUBSET SUBSET Path
    BY ComponentsAreSets
  <2> HIDE DEF cs
  <2> QED BY <2>1, FS_SUBSET, FS_Subset
<1>2. Rests(cs, Under)
  <2> HIDE DEF Closed
  <2> QED BY ComponentsRest
<1>3. Depth(cs) = CHOOSE g : g = [c \in cs |-> Deepest(g, c)]
  BY Zenon DEF Depth, Imported
<1>4. \A g : [c \in cs |-> Deepest(g, c)] = [c \in cs |-> Counted(Under, g, c)]
  <2>1. \A g : \A c \in cs : Deepest(g, c) = Counted(Under, g, c)
    <3> HIDE DEF cs
    <3>1. \A c \in cs : Under[c] = Imported(cs, c)
      OBVIOUS
    <3> HIDE DEF Under
    <3> QED BY <3>1, Zenon DEF Counted
  <2> HIDE DEF cs, Under, Deepest
  <2> QED BY <2>1, Zenon
<1> HIDE DEF Deepest
<1>5. \A c \in cs : Under[c] \subseteq cs /\ Under[c] = Imported(cs, c)
  BY DEF Imported
<1> HIDE DEF cs, Under
<1>6. \E g : g = [c \in cs |-> Counted(Under, g, c)]
  BY <1>1, <1>2, <1>5, CountExists
<1>7. PICK g : g = [c \in cs |-> Counted(Under, g, c)]
  BY <1>6
<1>8. g = [c \in cs |-> Deepest(g, c)]
  BY <1>4, <1>7, Zenon
<1>9. Depth(cs) = [c \in cs |-> Deepest(Depth(cs), c)]
  BY <1>3, <1>8, Zenon
<1>10. Depth(cs) = [c \in cs |-> Counted(Under, Depth(cs), c)]
  BY <1>4, <1>9, Zenon
<1>11. PICK depth : depth = Depth(cs)
  OBVIOUS
<1>12. /\ \A c \in cs : depth[c] \in Nat
       /\ \A c \in cs : \A d \in Under[c] : depth[d] < depth[c]
       /\ \A c \in cs : depth[c] # 0 => \E d \in Under[c] : depth[c] = depth[d] + 1
  <2>1. depth = [c \in cs |-> Counted(Under, depth, c)]
    BY <1>10, <1>11, Zenon
  <2> QED BY <1>1, <1>2, <1>5, <2>1, CountIs
<1>13. /\ \A c \in cs : depth[c] \in Nat
       /\ \A c \in cs : \A d \in Imported(cs, c) : depth[d] < depth[c]
       /\ \A c \in cs : depth[c] # 0 => \E d \in cs : depth[c] = depth[d] + 1
  BY <1>5, <1>12
<1> USE DEF cs
<1> QED BY <1>11, <1>13

-----------------------------------------------------------------------------
(* A pass infers in order.                                                  *)

\* What a pass under way has done: its components are those its files reach, cut
\* into layers; the threads work on one layer, and unless the pass was stopped,
\* all before it and what they took of it has its types.
LayersDone ==
    pass # NoPass =>
        /\ \E starts \in SUBSET Path : pass.components = Components(starts)
        /\ pass.depth = Depth(pass.components)
        /\ pass.layer \in Nat
        /\ \A c \in pass.left \cup pass.working : pass.depth[c] = pass.layer
        /\ pass.stopped \/ \A c \in pass.components :
               pass.depth[c] < pass.layer
               \/ (pass.depth[c] = pass.layer /\ c \notin pass.left \cup pass.working)
               => c \subseteq DOMAIN types

\* A pass infers in order.
PassInv == LayersDone /\ DependenciesFirst

LEMMA GraphClosed == ASSUME TypeOK PROVE Closed
BY TargetsKnown DEF Closed

LEMMA InitPass == ASSUME Init PROVE PassInv
<1>1. pass.working = {} /\ pass = NoPass
  BY DEF Init, NoPass
<1> QED BY <1>1 DEF PassInv, LayersDone, DependenciesFirst

\* What a component of a pass imports outside itself, lies in components below it.
LEMMA ImportedBelow ==
    ASSUME TypeOK, NEW starts, NEW cs, cs = Components(starts),
           NEW c \in cs, NEW p \in c, NEW q \in Targets(p), q \notin c
    PROVE  \E d \in cs : q \in d /\ d # c /\ Depth(cs)[d] < Depth(cs)[c]
                         /\ Depth(cs)[d] \in Nat
<1>1. Closed
  BY GraphClosed
<1>2. p \in Reach(starts) /\ p \in Path
  BY <1>1, ComponentIs
<1>3. q \in Reach(starts)
  BY <1>1, <1>2, ReachTargets
<1>4. Circle(q) \in cs /\ q \in Circle(q)
  BY <1>1, <1>3, ComponentOf
<1>5. Circle(q) \in Imported(cs, c)
  BY <1>4 DEF Imported
<1>6. /\ \A x \in cs : Depth(cs)[x] \in Nat
      /\ \A x \in cs : \A d \in Imported(cs, x) : Depth(cs)[d] < Depth(cs)[x]
  <2> HIDE DEF Closed
  <2> QED BY <1>1, FinitePaths, DepthWorks
<1>7. Depth(cs)[Circle(q)] < Depth(cs)[c] /\ Depth(cs)[Circle(q)] \in Nat
  BY <1>4, <1>5, <1>6
<1> QED BY <1>4, <1>7

\* When no component has the depth after `layer`, none lies deeper.
LEMMA NoGap ==
    ASSUME TypeOK, NEW starts, NEW cs, cs = Components(starts),
           NEW layer \in Nat, \A c \in cs : Depth(cs)[c] # layer + 1
    PROVE  \A c \in cs : Depth(cs)[c] \in Nat /\ Depth(cs)[c] <= layer
<1> DEFINE depth == Depth(cs)
           Deeper(c) == {d \in cs : depth[d] > layer /\ depth[d] < depth[c]}
           Family == {Deeper(c) : c \in {d \in cs : depth[d] > layer}}
<1>1. Closed
  BY GraphClosed
<1>2. /\ \A c \in cs : depth[c] \in Nat
      /\ \A c \in cs : depth[c] # 0 => \E d \in cs : depth[c] = depth[d] + 1
  <2> HIDE DEF Closed
  <2> QED BY <1>1, FinitePaths, DepthWorks
<1>3. IsFiniteSet(cs)
  <2>1. cs \in SUBSET SUBSET Path
    BY ComponentsAreSets
  <2> QED BY <2>1, FinitePaths, FS_SUBSET, FS_Subset
<1> HIDE DEF depth
<1>4. ASSUME NEW e \in cs, depth[e] > layer PROVE FALSE
  <2>1. Family \in SUBSET SUBSET cs /\ Family # {}
    BY <1>4
  <2>2. PICK X \in Family : \A Y \in Family : Y \subseteq X => Y = X
    <3> HIDE DEF Family
    <3> QED BY <1>3, <2>1, LeastSet
  <2>3. PICK c \in cs : depth[c] > layer /\ X = Deeper(c)
    OBVIOUS
  <2>4. PICK d \in cs : depth[c] = depth[d] + 1
    BY <1>2, <2>3, SMT
  <2>5. depth[d] > layer
    <3>1. depth[c] # layer + 1
      BY DEF depth
    <3> QED BY <1>2, <2>3, <2>4, <3>1, SMT
  <2>6. Deeper(d) \subseteq Deeper(c) /\ d \in Deeper(c) /\ d \notin Deeper(d)
    BY <1>2, <2>4, <2>5, SMT
  <2>7. Deeper(d) \in Family
    BY <2>5
  <2> QED BY <2>2, <2>3, <2>6, <2>7
<1>5. \A c \in cs : depth[c] \in Nat /\ depth[c] <= layer
  BY <1>2, <1>4, SMT
<1> QED BY <1>5 DEF depth

\* Where no import changes, neither do the components of files nor their depth.
LEMMA SameComponents ==
    ASSUME UNCHANGED imports
    PROVE  /\ \A p : Targets(p)' = Targets(p)
           /\ \A starts : Components(starts)' = Components(starts)
           /\ \A cs : Depth(cs)' = Depth(cs)
<1>1. \A p : Targets(p)' = Targets(p)
  BY DEF Targets, Edges
<1>2. \A starts : Reach(starts)' = Reach(starts)
  BY <1>1 DEF Reach
<1>3. ASSUME NEW starts PROVE Components(starts)' = Components(starts)
  <2> DEFINE From == [p \in Reach(starts) |-> Reach({p})]
  <2>1. From' = From
    BY <1>2
  <2>2. Components(starts) = {{q \in From[p] : p \in From[q]} : p \in Reach(starts)}
    BY DEF Components
  <2>3. Components(starts)' = {{q \in From'[p] : p \in From'[q]} : p \in Reach(starts)'}
    BY DEF Components
  <2> HIDE DEF From
  <2> QED BY <1>2, <2>1, <2>2, <2>3
<1>4. ASSUME NEW cs PROVE Depth(cs)' = Depth(cs)
  <2> DEFINE In(graph, p) == {e.path : e \in IF p \in DOMAIN graph THEN graph[p] ELSE {}}
             Under(graph, c) == {d \in cs \ {c} : \E p \in c : In(graph, p) \cap d # {}}
             Deep(graph) == CHOOSE depth : depth = [c \in cs |->
                 IF Under(graph, c) = {} THEN 0
                 ELSE 1 + Max({depth[d] : d \in Under(graph, c)})]
  <2>1. Depth(cs) = Deep(imports)
    BY Zenon DEF Depth, Targets, Edges
  <2>2. Depth(cs)' = Deep(imports')
    BY Zenon DEF Depth, Targets, Edges
  <2> HIDE DEF Deep
  <2> QED BY <2>1, <2>2
<1> QED BY <1>1, <1>3, <1>4

\* No change happens under a pass, but of a file the index does not look at.
LEMMA ChangesPass == ASSUME PassInv, Changes PROVE PassInv'
<1>1. CASE UNCHANGED <<imports, types, pass>>
  <2>1. /\ \A p : Targets(p)' = Targets(p)
        /\ \A starts : Components(starts)' = Components(starts)
        /\ \A cs : Depth(cs)' = Depth(cs)
    BY <1>1, SameComponents
  <2>2. PICK depth : depth = Depth(pass.components)
    OBVIOUS
  <2>3. Depth(pass.components)' = depth
    BY <1>1, <2>1, <2>2
  <2>4. LayersDone'
    BY <1>1, <2>1, <2>2, <2>3 DEF PassInv, LayersDone
  <2>5. DependenciesFirst'
    BY <1>1, <2>1 DEF PassInv, DependenciesFirst
  <2> QED BY <2>4, <2>5 DEF PassInv
<1>2. CASE pass = NoPass /\ pass' = pass
  <2>1. pass'.working = {}
    BY <1>2 DEF NoPass
  <2>2. pass' = NoPass
    BY <1>2
  <2> HIDE <1>2
  <2> QED BY <2>2, <2>1 DEF PassInv, LayersDone, DependenciesFirst, NoPass
<1> QED BY <1>1, <1>2 DEF Changes, Change, Report, SetMode, SetConfig, DiskChanges, Idle

\* A pass is a record of these six.
LEMMA NoPassIs ==
    /\ NoPass.components = {} /\ NoPass.working = {} /\ NoPass.layer = 0
    /\ NoPass.stopped = FALSE
BY DEF NoPass

\* Inference changes no import and drops no types.
LEMMA InfersKeep == ASSUME Infers PROVE UNCHANGED imports /\ DOMAIN types \subseteq DOMAIN types'
<1>1. ASSUME NEW c, Infer(c) PROVE DOMAIN types \subseteq DOMAIN types'
  BY <1>1 DEF Infer
<1>2. ASSUME NEW c, InferComponent(c) \/ InferAsked(c)
      PROVE UNCHANGED imports /\ DOMAIN types \subseteq DOMAIN types'
  BY <1>1, <1>2 DEF InferComponent, InferAsked, Unchanging
<1>3. ASSUME UNCHANGED <<Unchanging, types>>
      PROVE UNCHANGED imports /\ DOMAIN types \subseteq DOMAIN types'
  BY <1>3 DEF Unchanging
<1> QED
  BY <1>2, <1>3 DEF Infers, BeginPass, TakeComponent, AbandonComponent, StopPass, NextLayer,
                    EndPass, Ask

\* After it, a component has its types.
LEMMA InferGives == ASSUME NEW c, Infer(c) PROVE c \subseteq DOMAIN types'
BY DEF Infer

\* What one step makes of a pass under way, when it only moves components from
\* those left to those worked on, and off those.
LEMMA LayersStay ==
    ASSUME TypeOK, PassInv, UNCHANGED imports, DOMAIN types \subseteq DOMAIN types',
           pass # NoPass,
           pass'.components = pass.components, pass'.depth = pass.depth,
           pass'.layer = pass.layer,
           pass'.left \cup pass'.working \subseteq pass.left \cup pass.working,
           pass.stopped => pass'.stopped,
           \A c \in (pass.left \cup pass.working) \ (pass'.left \cup pass'.working) :
               pass'.stopped \/ c \subseteq DOMAIN types'
    PROVE  LayersDone'
<1>1. /\ \A starts : Components(starts)' = Components(starts)
      /\ \A cs : Depth(cs)' = Depth(cs)
  BY SameComponents
<1>2. PICK starts \in SUBSET Path : pass.components = Components(starts)
  BY DEF PassInv, LayersDone
<1>3. \E s \in SUBSET Path : pass'.components = Components(s)'
  BY <1>1, <1>2
<1>4. PICK depth : depth = Depth(pass.components)
  OBVIOUS
<1>5. Depth(pass.components)' = depth
  BY <1>1, <1>4
<1>6. pass'.depth = Depth(pass.components)'
  BY <1>4, <1>5 DEF PassInv, LayersDone
<1>7. /\ pass'.layer \in Nat
      /\ \A c \in pass'.left \cup pass'.working : pass'.depth[c] = pass'.layer
  BY DEF PassInv, LayersDone
<1>8. pass'.stopped \/ \A c \in pass'.components :
          pass'.depth[c] < pass'.layer
          \/ (pass'.depth[c] = pass'.layer /\ c \notin pass'.left \cup pass'.working)
          => c \subseteq DOMAIN types'
  <2>1. SUFFICES ASSUME ~pass'.stopped, NEW c \in pass.components,
                        pass.depth[c] < pass.layer
                        \/ (pass.depth[c] = pass.layer /\ c \notin pass'.left \cup pass'.working)
                 PROVE  c \subseteq DOMAIN types'
    OBVIOUS
  <2>2. CASE c \in pass.left \cup pass.working
    <3>1. pass.depth[c] = pass.layer /\ pass.layer \in Nat
      BY <2>2 DEF PassInv, LayersDone
    <3>2. c \notin pass'.left \cup pass'.working
      BY <2>1, <3>1, SMT
    <3> QED BY <2>1, <2>2, <3>2
  <2>3. CASE c \notin pass.left \cup pass.working
    BY <2>1, <2>3 DEF PassInv, LayersDone
  <2> QED BY <2>2, <2>3
<1> QED BY <1>3, <1>6, <1>7, <1>8 DEF LayersDone

\* A component a thread works on still has below it what it had.
LEMMA FirstStays ==
    ASSUME PassInv, UNCHANGED imports, DOMAIN types \subseteq DOMAIN types',
           pass'.working \subseteq pass.working
    PROVE  DependenciesFirst'
<1>1. \A p : Targets(p)' = Targets(p)
  BY SameComponents
<1> QED BY <1>1 DEF PassInv, DependenciesFirst

LEMMA BeginPassInv ==
    ASSUME PassInv, TypeOK, NEW starts \in SUBSET DOMAIN files, BeginPass(starts)
    PROVE  PassInv'
<1> DEFINE cs == Components(starts)
           depth == Depth(cs)
<1>1. pass' = [components |-> cs, depth |-> depth, layer |-> 0,
               left |-> Layer(cs, depth, 0), working |-> {}, stopped |-> FALSE]
  BY DEF BeginPass
<1>2. starts \in SUBSET Path
  BY DEF TypeOK, AreSources
<1>3. UNCHANGED imports
  BY DEF BeginPass, Unchanging
<1>4. /\ \A s : Components(s)' = Components(s)
      /\ \A s : Depth(s)' = Depth(s)
  BY <1>3, SameComponents
<1>5. \A c \in cs : depth[c] \in Nat
  <2>1. Closed
    BY GraphClosed
  <2> HIDE DEF Closed
  <2> QED BY <2>1, FinitePaths, DepthWorks
<1> HIDE DEF cs, depth
<1>6. /\ pass'.components = cs /\ pass'.depth = depth /\ pass'.layer = 0
      /\ pass'.left = Layer(cs, depth, 0) /\ pass'.working = {}
  BY <1>1
<1>7. Depth(pass.components)' = depth
  <2>1. Depth(cs) = depth
    BY DEF depth
  <2>2. PICK known : known = cs
    OBVIOUS
  <2>3. Depth(pass.components)' = Depth(known)'
    BY <1>6, <2>2
  <2> QED BY <1>4, <2>1, <2>2, <2>3
<1>8. \E s \in SUBSET Path : pass'.components = Components(s)'
  BY <1>2, <1>4, <1>6 DEF cs
<1>9. \A c \in pass'.left \cup pass'.working : pass'.depth[c] = pass'.layer
  BY <1>6 DEF Layer
<1>10. \A c \in pass'.components :
          pass'.depth[c] < pass'.layer
          \/ (pass'.depth[c] = pass'.layer /\ c \notin pass'.left \cup pass'.working)
          => c \subseteq DOMAIN types'
  <2>1. \A c \in cs : ~(depth[c] < 0)
    BY <1>5, SMT
  <2>2. \A c \in cs : depth[c] = 0 => c \in pass'.left
    BY <1>6 DEF Layer
  <2> QED BY <1>6, <2>1, <2>2
<1>11. LayersDone'
  BY <1>6, <1>7, <1>8, <1>9, <1>10 DEF LayersDone
<1>12. DependenciesFirst'
  BY <1>6 DEF DependenciesFirst
<1> QED BY <1>11, <1>12 DEF PassInv

LEMMA TakeComponentInv ==
    ASSUME PassInv, TypeOK, NEW c \in pass.left, TakeComponent(c)
    PROVE  PassInv'
<1>1. /\ pass'.components = pass.components /\ pass'.depth = pass.depth
      /\ pass'.layer = pass.layer /\ pass'.stopped = pass.stopped
      /\ pass'.left = pass.left \ {c} /\ pass'.working = pass.working \cup {c}
  BY DEF TakeComponent, TypeOK, NoPass
<1>2. pass # NoPass
  <2>1. NoPass.left = {}
    BY DEF NoPass
  <2> QED BY <2>1
<1>3. UNCHANGED <<imports, types>> /\ ~pass.stopped
  BY DEF TakeComponent, Unchanging
<1>4. LayersDone'
  BY <1>1, <1>2, <1>3, LayersStay
<1>5. PICK starts \in SUBSET Path : pass.components = Components(starts)
  BY <1>2 DEF PassInv, LayersDone
<1>6. ASSUME NEW p \in c, NEW q \in Targets(p), q \notin c PROVE q \in DOMAIN types
  <2>1. c \in pass.components /\ pass.depth = Depth(pass.components) /\ pass.depth[c] = pass.layer
    BY <1>2 DEF TypeOK, PassInv, LayersDone
  <2>2. PICK d \in pass.components : q \in d /\ pass.depth[d] < pass.layer
    BY <1>5, <1>6, <2>1, ImportedBelow
  <2>3. d \subseteq DOMAIN types
    BY <1>2, <1>3, <2>2 DEF PassInv, LayersDone
  <2> QED BY <2>2, <2>3
<1>7. \A p : Targets(p)' = Targets(p)
  BY <1>3, SameComponents
<1>8. DependenciesFirst'
  BY <1>1, <1>3, <1>6, <1>7 DEF PassInv, DependenciesFirst
<1> QED BY <1>4, <1>8 DEF PassInv

LEMMA InferComponentInv ==
    ASSUME PassInv, TypeOK, Infers, NEW c \in pass.working, InferComponent(c)
    PROVE  PassInv'
<1>1. /\ pass'.components = pass.components /\ pass'.depth = pass.depth
      /\ pass'.layer = pass.layer /\ pass'.stopped = pass.stopped
      /\ pass'.left = pass.left /\ pass'.working = pass.working \ {c}
  BY DEF InferComponent, TypeOK, NoPass
<1>2. pass # NoPass
  BY NoPassIs
<1>3. UNCHANGED imports /\ DOMAIN types \subseteq DOMAIN types'
  BY InfersKeep
<1>4. c \subseteq DOMAIN types'
  BY InferGives DEF InferComponent
<1>5. LayersDone'
  BY <1>1, <1>2, <1>3, <1>4, LayersStay
<1>6. DependenciesFirst'
  BY <1>1, <1>3, FirstStays
<1> QED BY <1>5, <1>6 DEF PassInv

LEMMA AbandonComponentInv ==
    ASSUME PassInv, TypeOK, NEW c \in pass.working, AbandonComponent(c)
    PROVE  PassInv'
<1>1. /\ pass'.components = pass.components /\ pass'.depth = pass.depth
      /\ pass'.layer = pass.layer /\ pass'.stopped = pass.stopped
      /\ pass'.left = pass.left /\ pass'.working = pass.working \ {c}
  BY DEF AbandonComponent, TypeOK, NoPass
<1>2. pass # NoPass
  BY NoPassIs
<1>3. UNCHANGED <<imports, types>> /\ pass.stopped
  BY DEF AbandonComponent, Unchanging
<1>4. LayersDone'
  BY <1>1, <1>2, <1>3, LayersStay
<1>5. DependenciesFirst'
  BY <1>1, <1>3, FirstStays
<1> QED BY <1>4, <1>5 DEF PassInv

LEMMA StopPassInv == ASSUME PassInv, TypeOK, StopPass PROVE PassInv'
<1>1. /\ pass'.components = pass.components /\ pass'.depth = pass.depth
      /\ pass'.layer = pass.layer /\ pass'.stopped = TRUE
      /\ pass'.left = pass.left /\ pass'.working = pass.working
  BY DEF StopPass, TypeOK, NoPass
<1>2. UNCHANGED <<imports, types>> /\ pass # NoPass
  BY DEF StopPass, Unchanging
<1>3. LayersDone'
  BY <1>1, <1>2, LayersStay
<1>4. DependenciesFirst'
  BY <1>1, <1>2, FirstStays
<1> QED BY <1>3, <1>4 DEF PassInv

\* The next layer begins when the one before it is done.
LEMMA NextLayerInv == ASSUME PassInv, TypeOK, NextLayer PROVE PassInv'
<1>1. /\ pass'.components = pass.components /\ pass'.depth = pass.depth
      /\ pass'.layer = pass.layer + 1 /\ pass'.stopped = pass.stopped
      /\ pass'.left = Layer(pass.components, pass.depth, pass.layer + 1)
      /\ pass'.working = pass.working
  BY DEF NextLayer, TypeOK, NoPass
<1>2. UNCHANGED <<imports, types>> /\ ~pass.stopped /\ pass.left = {} /\ pass.working = {}
  BY DEF NextLayer, Unchanging
<1>3. pass # NoPass
  <2>1. Layer(NoPass.components, NoPass.depth, NoPass.layer + 1) = {}
    BY NoPassIs DEF Layer
  <2> QED BY <2>1 DEF NextLayer
<1>4. /\ \A s : Components(s)' = Components(s)
      /\ \A s : Depth(s)' = Depth(s)
  BY <1>2, SameComponents
<1>5. PICK starts \in SUBSET Path : pass.components = Components(starts)
  BY <1>3 DEF PassInv, LayersDone
<1>6. PICK depth : depth = Depth(pass.components)
  OBVIOUS
<1>7. Depth(pass.components)' = depth /\ pass.depth = depth /\ pass.layer \in Nat
  BY <1>1, <1>3, <1>4, <1>6 DEF PassInv, LayersDone
<1>8. \A c \in pass.components : depth[c] \in Nat
  <2>1. Closed
    BY GraphClosed
  <2> HIDE DEF Closed
  <2> QED BY <1>5, <1>6, <2>1, FinitePaths, DepthWorks
<1>9. \A c \in pass.components : depth[c] <= pass.layer => c \subseteq DOMAIN types
  <2>1. \A c \in pass.components : depth[c] < pass.layer \/ depth[c] = pass.layer
                                   => c \subseteq DOMAIN types
    BY <1>2, <1>3, <1>7 DEF PassInv, LayersDone
  <2> QED BY <1>7, <1>8, <2>1, SMT
<1>10. \A c \in pass'.components :
          pass'.depth[c] < pass'.layer
          \/ (pass'.depth[c] = pass'.layer /\ c \notin pass'.left \cup pass'.working)
          => c \subseteq DOMAIN types'
  <2>1. \A c \in pass.components : depth[c] < pass.layer + 1 => depth[c] <= pass.layer
    BY <1>7, <1>8, SMT
  <2>2. \A c \in pass.components : depth[c] = pass.layer + 1 => c \in pass'.left
    BY <1>1, <1>7 DEF Layer
  <2> QED BY <1>1, <1>2, <1>7, <1>9, <2>1, <2>2
<1>11. \A c \in pass'.left \cup pass'.working : pass'.depth[c] = pass'.layer
  BY <1>1, <1>2 DEF Layer
<1>12. \E s \in SUBSET Path : pass'.components = Components(s)'
  BY <1>1, <1>4, <1>5
<1>13. pass'.layer \in Nat /\ pass'.depth = Depth(pass.components)'
  BY <1>1, <1>7
<1>14. LayersDone'
  BY <1>10, <1>11, <1>12, <1>13 DEF LayersDone
<1>15. DependenciesFirst'
  BY <1>1, <1>2 DEF DependenciesFirst
<1> QED BY <1>14, <1>15 DEF PassInv

LEMMA InfersPass == ASSUME PassInv, TypeOK, Infers PROVE PassInv'
<1>1. CASE \E starts \in SUBSET DOMAIN files : BeginPass(starts)
  BY <1>1, BeginPassInv
<1>2. CASE \E c \in pass.left : TakeComponent(c)
  BY <1>2, TakeComponentInv
<1>3. CASE \E c \in pass.working : InferComponent(c) \/ AbandonComponent(c)
  BY <1>3, InferComponentInv, AbandonComponentInv
<1>4. CASE StopPass
  BY <1>4, StopPassInv
<1>5. CASE NextLayer
  BY <1>5, NextLayerInv
<1>6. CASE EndPass
  <2>1. pass' = NoPass
    BY <1>6 DEF EndPass
  <2> QED BY <2>1, NoPassIs DEF PassInv, LayersDone, DependenciesFirst
<1>7. CASE (\E c \in asked : InferAsked(c)) \/ \E p \in Known : Ask(p)
  <2>1. UNCHANGED pass
    BY <1>7 DEF InferAsked, Ask
  <2>2. UNCHANGED imports /\ DOMAIN types \subseteq DOMAIN types'
    BY InfersKeep
  <2>3. DependenciesFirst'
    BY <2>1, <2>2, FirstStays
  <2>4. CASE pass = NoPass
    BY <2>1, <2>3, <2>4 DEF PassInv, LayersDone
  <2>5. CASE pass # NoPass
    <3>1. LayersDone'
      BY <2>1, <2>2, <2>5, LayersStay
    <3> QED BY <2>3, <3>1 DEF PassInv
  <2> QED BY <2>4, <2>5
<1> QED BY <1>1, <1>2, <1>3, <1>4, <1>5, <1>6, <1>7 DEF Infers

LEMMA NextPass == ASSUME WorkspaceInv, PassInv, [Next]_vars PROVE PassInv'
<1>1. TypeOK
  BY DEF WorkspaceInv
<1>2. CASE Changes
  BY <1>2, ChangesPass
<1>3. CASE Infers
  BY <1>1, <1>3, InfersPass
<1>4. CASE UNCHANGED vars
  <2>1. UNCHANGED <<imports, types, pass>>
    BY <1>4 DEF vars
  <2>2. DependenciesFirst'
    BY <2>1, FirstStays
  <2>3. CASE pass = NoPass
    BY <2>1, <2>2, <2>3 DEF PassInv, LayersDone
  <2>4. CASE pass # NoPass
    <3>1. LayersDone'
      BY <1>1, <2>1, <2>4, LayersStay
    <3> QED BY <2>2, <3>1 DEF PassInv
  <2> QED BY <2>3, <2>4
<1> QED BY <1>2, <1>3, <1>4 DEF Next

\* A pass that ends unstopped has types for all its files: no component lies
\* deeper than its last layer.
LEMMA EndReaches ==
    ASSUME TypeOK, PassInv, EndPass, ~pass.stopped
    PROVE  UNION pass.components \subseteq DOMAIN types
<1>1. /\ pass # NoPass /\ pass.working = {} /\ pass.left = {}
      /\ Layer(pass.components, pass.depth, pass.layer + 1) = {}
  BY DEF EndPass
<1>2. PICK starts \in SUBSET Path : pass.components = Components(starts)
  BY <1>1 DEF PassInv, LayersDone
<1>3. pass.depth = Depth(pass.components) /\ pass.layer \in Nat
  BY <1>1 DEF PassInv, LayersDone
<1>4. \A c \in pass.components : pass.depth[c] # pass.layer + 1
  BY <1>1 DEF Layer
<1>5. \A c \in pass.components : pass.depth[c] \in Nat /\ pass.depth[c] <= pass.layer
  BY <1>2, <1>3, <1>4, NoGap
<1>6. \A c \in pass.components : pass.depth[c] < pass.layer \/ pass.depth[c] = pass.layer
  BY <1>3, <1>5, SMT
<1>7. \A c \in pass.components : c \subseteq DOMAIN types
  BY <1>1, <1>6 DEF PassInv, LayersDone
<1> QED BY <1>7

\* Only the end of a pass ends it.
LEMMA StepReaches ==
    ASSUME TypeOK, PassInv, [Next]_vars, pass # NoPass, pass' = NoPass
    PROVE  pass.stopped \/ UNION pass.components \subseteq DOMAIN types
<1>1. CASE EndPass
  BY <1>1, EndReaches
<1>2. CASE Changes \/ UNCHANGED vars \/ (\E c \in asked : InferAsked(c)) \/ \E p \in Known : Ask(p)
  <2>1. pass' = pass
    BY <1>2 DEF Changes, Change, Report, SetMode, SetConfig, DiskChanges, vars, InferAsked, Ask
  <2> QED BY <2>1
<1>3. CASE \E starts \in SUBSET DOMAIN files : BeginPass(starts)
  BY <1>3 DEF BeginPass
<1>4. CASE \E c \in pass.left : TakeComponent(c)
  <2>1. pass'.working # {}
    BY <1>4 DEF TakeComponent, TypeOK, NoPass
  <2> QED BY <2>1, NoPassIs
<1>5. CASE \E c \in pass.working : InferComponent(c) \/ AbandonComponent(c)
  <2>1. pass'.components = pass.components
    BY <1>5 DEF InferComponent, AbandonComponent, TypeOK, NoPass
  <2>2. pass.components # {}
    BY <1>5 DEF TypeOK
  <2> QED BY <2>1, <2>2, NoPassIs
<1>6. CASE StopPass
  <2>1. pass'.stopped = TRUE
    BY <1>6 DEF StopPass, TypeOK, NoPass
  <2> QED BY <2>1, NoPassIs
<1>7. CASE NextLayer
  <2>1. pass'.layer = pass.layer + 1 /\ pass.layer \in Nat
    BY <1>7 DEF NextLayer, TypeOK, NoPass, PassInv, LayersDone
  <2>2. pass'.layer # 0
    BY <2>1, SMT
  <2> QED BY <2>2, NoPassIs
<1> QED BY <1>1, <1>2, <1>3, <1>4, <1>5, <1>6, <1>7 DEF Next, Infers

\* The order of inference holds of every workspace.
LEMMA PassCorrect == Spec => [](WorkspaceInv /\ PassInv)
<1>1. Init => WorkspaceInv /\ PassInv
  BY InitInv, InitPass
<1>2. WorkspaceInv /\ PassInv /\ [Next]_vars => (WorkspaceInv /\ PassInv)'
  BY NextInv, NextPass
<1> QED BY <1>1, <1>2, PTL DEF Spec

\* When a thread of a pass takes a component, and for as long as it works on it,
\* everything the component imports has its types.
THEOREM ImportsInferredFirst == Spec => []DependenciesFirst
<1>1. PassInv => DependenciesFirst
  BY DEF PassInv
<1> QED BY <1>1, PassCorrect, PTL

\* A pass that was not stopped ends with types for every file its files reach,
\* although it ends at the first layer that is empty.
THEOREM PassesReach == Spec => PassReaches
<1>1. WorkspaceInv /\ PassInv /\ [Next]_vars
      => [pass # NoPass /\ pass' = NoPass
          => pass.stopped \/ UNION pass.components \subseteq DOMAIN types]_vars
  BY StepReaches DEF WorkspaceInv
<1> QED BY <1>1, PassCorrect, PTL DEF Spec, PassReaches
=============================================================================
