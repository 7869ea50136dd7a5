----------------------------- MODULE ImportOrder -----------------------------
(* The order a workspace infers its files in: Tarjan's walk over the imports *)
(* and the layers its components are cut into. A graph is a function from a  *)
(* file to the sequence of files it imports.                                 *)
EXTENDS Integers, Sequences, FiniteSets, FiniteSetsExt, SequencesExt

CONSTANT Files  \* bound: so many files are walked

VARIABLE written  \* what each file imports, in the order it is written

Out == 1000  \* usize::MAX: the file's component is out

Smaller(a, b) == IF a < b THEN a ELSE b

\* A walk: when each file was reached, the files of no component yet, the
\* components in order, and the earliest file on the stack the last visit met.
NewWalk == [index |-> [file \in {} |-> 0], stack |-> <<>>, components |-> <<>>, low |-> Out]

CloseStillIn(walk, path) ==
    LET at == CHOOSE i \in DOMAIN walk.stack : walk.stack[i] = path
    IN  [walk EXCEPT !.stack = SubSeq(@, 1, at - 1),
                     !.components = Append(@, {walk.stack[i] : i \in at..Len(walk.stack)})]

\* The files above `path` on the stack are a component with it, and leave.
Close(walk, path) ==
    LET at        == CHOOSE i \in DOMAIN walk.stack : walk.stack[i] = path
        component == {walk.stack[i] : i \in at..Len(walk.stack)}
    IN  [walk EXCEPT !.stack = SubSeq(@, 1, at - 1),
                     !.components = Append(@, component),
                     !.index = [file \in DOMAIN @ |-> IF file \in component THEN Out ELSE @[file]]]

\* Walks what `path` imports.
RECURSIVE Connect(_, _, _)
Connect(graph, walk, path) ==
    LET index == Cardinality(DOMAIN walk.index)
        begun == [walk EXCEPT !.index = [file \in DOMAIN @ \cup {path} |->
                                            IF file = path THEN index ELSE @[file]],
                              !.stack = Append(@, path),
                              !.low = index]
        Visit(so_far, next) ==
            LET met == IF next \in DOMAIN so_far.index
                       THEN [so_far EXCEPT !.low = so_far.index[next]]
                       ELSE Connect(graph, so_far, next)
            IN  [met EXCEPT !.low = Smaller(so_far.low, @)]
        done  == FoldLeft(Visit, begun, graph[path])
    IN  IF done.low = index THEN Close(done, path) ELSE done

\* Every component reached from `starts`, one after the other.
ComponentsFrom(graph, starts) ==
    LET Start(walk, path) == IF path \in DOMAIN walk.index THEN walk ELSE Connect(graph, walk, path)
    IN  FoldLeft(Start, NewWalk, starts).components

\* How deep each component is, from those before it.
LayerOf(graph, components) ==
    LET Below(depths, c) ==
            {depths[i] + 1 : i \in {i \in DOMAIN depths :
                \E p \in c, q \in components[i] : q \in Range(graph[p])}}
        Add(depths, c) == Append(depths, Max({0} \cup Below(depths, c)))
    IN  FoldLeft(Add, <<>>, components)

-----------------------------------------------------------------------------
(* What the walk is for, on every small graph. *)

\* A file imports one more, or one less.
Edit(p, q) ==
    written' = [written EXCEPT ![p] = IF q \in Range(@) THEN Remove(@, q) ELSE Append(@, q)]

\* The files met from `starts`, by as many steps as there are files.
Met(graph, starts) ==
    LET step[i \in 0..Files] ==
            IF i = 0 THEN starts
            ELSE step[i - 1] \cup UNION {Range(graph[p]) : p \in step[i - 1]}
    IN  step[Files]

\* Files that import each other, however indirectly, are one component.
IsComponents(components, graph, starts) ==
    LET met == [p \in DOMAIN graph |-> Met(graph, {p})]
    IN  /\ Range(components) = {{q \in met[p] : p \in met[q]} : p \in UNION {met[s] : s \in starts}}
        /\ Cardinality(Range(components)) = Len(components)

\* Each component comes after those it imports, and a layer below the next.
IsOrder(components, layers, graph) ==
    \A i \in DOMAIN components : \A p \in components[i], j \in DOMAIN components :
        Range(graph[p]) \cap components[j] # {} /\ i # j => j < i /\ layers[j] < layers[i]

\* Whatever the files import and wherever the walk starts, the components are
\* those of files that import each other, each after what it imports, and the
\* layers they are cut into import only from layers before them.
WalksInOrder ==
    \A first, second \in DOMAIN written :
        LET starts     == <<first, second>>
            components == ComponentsFrom(written, starts)
        IN  /\ IsComponents(components, written, Range(starts))
            /\ IsOrder(components, LayerOf(written, components), written)
=============================================================================
