------------------------------ MODULE References ------------------------------
(* What a name refers to across the files of a workspace, where it occurs, and     *)
(* whether it may be renamed (references.rs, the imports of modules.rs and the       *)
(* definitions of definitions.rs). A workspace is a function from modules to their    *)
(* files; an import that names a module finds it.                                     *)
EXTENDS Scopes

CONSTANTS
    Core,           \* the names Janet defines
    MaxReexports    \* MAX_REEXPORTS: how many re-exports a name is followed through, 8 there

----
(* What a file says of others (modules.rs).                                     *)

\* `literal`, of what names a module or a name.
IsLiteral(node) == node.k \in {"symbol", "string"}

\* `option`: the value after a key among arguments two by two.
Option(args, key) ==
    LET at == {i \in 1 .. Len(args) \div 2 : args[2 * i - 1] .k = "keyword" /\ args[2 * i - 1].name = <<key>>}
    IN  IF at = {} THEN <<>> ELSE <<args[2 * Min(at)]>>

\* `import_prefix`: `:as` wins over `:prefix`, then the last segment of the module. A
\* prefix is the segments written before a name.
ImportPrefix(spec, options) ==
    CASE Option(options, "as") # <<>> -> Option(options, "as")[1].name
      [] Option(options, "as") = <<>> /\ Option(options, "prefix") # <<>> -> Option(options, "prefix")[1].name
      [] OTHER -> <<Last(spec.name)>>

\* `names`, `quoted_names`: the names a list limits an import to.
NamesIn(collection) == {collection.nodes[i].name : i \in {i \in DOMAIN collection.nodes : IsLiteral(collection.nodes[i])}}
Unquoted(node) ==
    IF node.k = "quote" THEN node.nodes[1].nodes
    ELSE [i \in DOMAIN node.nodes |-> IF node.nodes[i].k = "quote" THEN node.nodes[i].nodes[1] ELSE node.nodes[i]]
QuotedNames(node) ==
    IF \/ (node.k = "quote" /\ IsCollection(node.nodes[1]))
       \/ (IsCollection(node) /\ \A i \in DOMAIN node.nodes : node.nodes[i].k = "quote")
    THEN IF \A i \in DOMAIN Unquoted(node) : IsSymbol(Unquoted(node)[i])
         THEN {Unquoted(node)[i].name : i \in DOMAIN Unquoted(node)} ELSE {}
    ELSE {}

Import(spec, prefix, every, names, exported) ==
    [to |-> Last(spec.name), prefix |-> prefix, every |-> every, names |-> names, exported |-> exported]

\* `imports`: the modules a call loads. A call of any other name at the top of the file
\* may be a helper that re-exports.
ImportWith(spec, options) ==
    <<Import(spec, ImportPrefix(spec, options), Option(options, "only") = <<>>,
             IF Option(options, "only") = <<>> THEN {} ELSE NamesIn(Option(options, "only")[1]),
             Option(options, "export") # <<>> /\ Option(options, "export")[1].name \notin {<<"false">>, <<"nil">>})>>
UseOf(args) == LET named == SelectSeq(args, IsLiteral) IN [i \in DOMAIN named |-> Import(named[i], <<>>, TRUE, {}, FALSE)]
Imports(head, args, top) ==
    CASE IsOne(head, {"use"}) -> UseOf(args)
      [] IsOne(head, {"import"}) /\ args # <<>> /\ IsLiteral(args[1]) -> ImportWith(args[1], Tail(args))
      [] IsOne(head, {"import*"}) /\ args # <<>> /\ args[1].k = "string" -> ImportWith(args[1], Tail(args))
      [] IsOne(head, {"require", "dofile"}) /\ args # <<>> /\ args[1].k = "string" ->
            <<Import(args[1], <<>>, FALSE, {}, FALSE)>>
      [] /\ ~IsOne(head, {"use", "import", "import*", "require", "dofile"}) /\ top /\ head # NoName
         /\ Len(args) = 2 /\ args[1].k = "string" /\ QuotedNames(args[2]) # {} ->
            <<Import(args[1], <<>>, FALSE, QuotedNames(args[2]), TRUE)>>
      [] OTHER -> <<>>

\* `loaded`: the forms in a form that run as the module loads.
Runs(node) ==
    /\ node.k \notin {"quote", "quasiquote"}
    /\ node.k = "list" => /\ ~IsOne(HeadOf(node), {"fn", "quote", "quasiquote"} \cup FunctionDefiners)
                          /\ IsOne(HeadOf(node), {"comment"}) => IsUpscope(node)
RECURSIVE Loaded(_)
Loaded(node) ==
    IF Runs(node) THEN FlattenSeq([i \in DOMAIN node.nodes |-> <<node.nodes[i]>> \o Loaded(node.nodes[i])]) ELSE <<>>

\* `import_specs`: the imports of a file, in order.
ImportsAt(node, top) == IF node.k = "list" /\ node.nodes # <<>> THEN Imports(HeadOf(node), Tail(node.nodes), top) ELSE <<>>
ImportsIn(node) ==
    ImportsAt(node, TRUE) \o FlattenSeq([i \in DOMAIN Loaded(node) |-> ImportsAt(Loaded(node)[i], FALSE)])
ImportSpecs(file) == FlattenSeq([i \in DOMAIN file.nodes |-> ImportsIn(file.nodes[i])])

\* `definitions`: what the forms at the top of a file define, and those of upscopes there.
Targets(target) ==
    IF IsSymbol(target) THEN {target} ELSE {node \in Symbols(target) : node.name # <<"&">>}
RECURSIVE Defined(_)
Defined(node) ==
    CASE node.k = "list" /\ Len(node.nodes) > 1 /\ IsOne(ReadAs(HeadOf(node)), Definers) -> Targets(node.nodes[2])
      [] node.k = "list" /\ ~IsOne(ReadAs(HeadOf(node)), Definers) /\ IsUpscope(node) ->
            UNION {Defined(node.nodes[i]) : i \in DOMAIN node.nodes}
      [] OTHER -> {}
Defines(file) == {symbol.name : symbol \in UNION {Defined(file.nodes[i]) : i \in DOMAIN file.nodes}}

\* A workspace, read. The edges of its graph lead to the modules there are.
Indexed(file) == [file |-> file, symbols |-> Symbols(file), scopes |-> Read(file), imports |-> ImportSpecs(file),
                  defines |-> Defines(file)]
Workspace(files) == [module \in DOMAIN files |-> Indexed(files[module])]
ImportsOf(workspace, module) == SelectSeq(workspace[module].imports, LAMBDA import : import.to \in DOMAIN workspace)
ImportersOf(workspace, module) ==
    UNION {{[from |-> from, edge |-> edge] : edge \in {edge \in Range(workspace[from].imports) : edge.to = module}}
           : from \in DOMAIN workspace}

----
(* What a name refers to.                                                       *)

Allows(edge, name) == edge.every \/ name \in edge.names
Strip(prefix, name) == SubSeq(name, Len(prefix) + 1, Len(name))
Says(edge, name) == IsStrictPrefix(edge.prefix, name) /\ Allows(edge, Strip(edge.prefix, name))

Nowhere == [k |-> "none"]
LocalTarget(module, local) == [k |-> "local", module |-> module, local |-> local]
ModuleTarget(module, name)  == [k |-> "module", module |-> module, name |-> name]
Known(k)                    == [k |-> k]

\* `find_map`: what the first of some edges answers.
FirstFound(answers) ==
    LET found == {i \in DOMAIN answers : answers[i] # Nowhere}
    IN  IF found = {} THEN Nowhere ELSE answers[Min(found)]

\* `defining`: where what a module exports as a name is defined, and as what.
RECURSIVE Defining(_, _, _, _)
Through(workspace, edge, name, hops) ==
    IF hops > 0 /\ edge.exported /\ Says(edge, name)
    THEN Defining(workspace, edge.to, Strip(edge.prefix, name), hops - 1) ELSE Nowhere
Defining(workspace, module, name, hops) ==
    IF name \in workspace[module].defines THEN ModuleTarget(module, name)
    ELSE FirstFound([i \in DOMAIN ImportsOf(workspace, module) |->
                        Through(workspace, ImportsOf(workspace, module)[i], name, hops)])

\* `resolve_path`. (Patterns of `peg`, forms of the type language, `project.janet` and
\* ambient declarations are left out.)
Imported(workspace, edge, name) ==
    IF Says(edge, name) THEN Defining(workspace, edge.to, Strip(edge.prefix, name), MaxReexports) ELSE Nowhere
Unbound(name) == CASE IsOne(name, Core) -> Known("core")
                   [] ~IsOne(name, Core) /\ Len(name) > 1 -> Nowhere
                   [] OTHER -> Known("form")
OrUnbound(found, name) == IF found = Nowhere THEN Unbound(name) ELSE found
Resolve(workspace, module, symbol) ==
    CASE symbol.at \in DOMAIN workspace[module].scopes.uses -> LocalTarget(module, workspace[module].scopes.uses[symbol.at])
      [] /\ symbol.at \notin DOMAIN workspace[module].scopes.uses
         /\ symbol.name \in workspace[module].defines -> ModuleTarget(module, symbol.name)
      [] OTHER ->
            OrUnbound(FirstFound([i \in DOMAIN ImportsOf(workspace, module) |->
                                    Imported(workspace, ImportsOf(workspace, module)[i], symbol.name)]),
                      symbol.name)

\* `importers`: who sees a name of a module, and what they write before it.
RECURSIVE Importers(_, _, _, _)
FurtherBare(workspace, from, edge, name, hops) ==
    IF edge.exported /\ hops > 0
    THEN {[from |-> seen.from, prefix |-> seen.prefix] : seen \in Importers(workspace, from, name, hops - 1)} ELSE {}
Further(workspace, from, edge, name, hops) ==
    IF edge.exported /\ hops > 0
    THEN {[from |-> seen.from, prefix |-> seen.prefix \o edge.prefix]
          : seen \in Importers(workspace, from, edge.prefix \o name, hops - 1)}
    ELSE {}
Importers(workspace, module, name, hops) ==
    UNION {{[from |-> seen.from, prefix |-> seen.edge.prefix]}
              \cup Further(workspace, seen.from, seen.edge, name, hops)
           : seen \in {seen \in ImportersOf(workspace, module) : Allows(seen.edge, name)}}
Seers(workspace, target) ==
    {[from |-> target.module, prefix |-> <<>>]} \cup Importers(workspace, target.module, target.name, MaxReexports)

\* `occurrences`: the places of a target, each in its file.
NamedIn(workspace, module, spelled) ==
    {[module |-> module, at |-> symbol.at]
     : symbol \in {symbol \in workspace[module].symbols :
                    symbol.name = spelled /\ symbol.at \notin DOMAIN workspace[module].scopes.uses}}
Occurrences(workspace, target) ==
    CASE target.k = "module" ->
            UNION {NamedIn(workspace, seer.from, seer.prefix \o target.name) : seer \in Seers(workspace, target)}
      [] target.k = "local" ->
            LET uses == workspace[target.module].scopes.uses
            IN  {[module |-> target.module, at |-> at] : at \in {at \in DOMAIN uses : uses[at] = target.local}}
      [] OTHER -> {}

\* `capture`: a symbol spelled so that no inner local binds, or an occurrence an inner
\* local of that name hides.
CapturesUses(indexed, module, spelled, region, inner, own) ==
    \E symbol \in indexed.symbols :
        /\ symbol.name = spelled /\ region.at < symbol.at /\ symbol.at <= region.to
        /\ ~(symbol.at \in DOMAIN indexed.scopes.uses /\ indexed.scopes.uses[symbol.at] \in inner)
Captures(indexed, module, spelled, region, inner, own) ==
    LET scopes == indexed.scopes
    IN  \/ \E symbol \in indexed.symbols :
              /\ symbol.name = spelled /\ region.at < symbol.at /\ symbol.at <= region.to
              /\ ~(symbol.at \in DOMAIN scopes.uses /\ scopes.uses[symbol.at] \in inner)
        \/ \E occurrence \in own : \E local \in inner :
              /\ occurrence.module = module
              /\ local \in VisibleAt(scopes, occurrence.at) /\ scopes.locals[local].name = spelled

\* `rename_conflict`.
WholeFile == [at |-> 0, to |-> Everywhere]
InnerOf(locals, renamed) ==
    {i \in DOMAIN locals : locals[i].at > renamed.at /\ locals[i].to <= renamed.to}
LocalConflict(workspace, module, renamed, new, own) ==
    Captures(workspace[module], module, new, renamed, InnerOf(workspace[module].scopes.locals, renamed), own)
ModuleConflict(workspace, seer, new, own) ==
    \/ seer.prefix \o new \in workspace[seer.from].defines
    \/ Captures(workspace[seer.from], seer.from, seer.prefix \o new, WholeFile,
                DOMAIN workspace[seer.from].scopes.locals, own)
NameOf(workspace, target) ==
    IF target.k = "local" THEN workspace[target.module].scopes.locals[target.local].name ELSE target.name
RenameConflict(workspace, target, new, own) ==
    /\ NameOf(workspace, target) # new
    /\ \/ target.k = "local" /\ LocalConflict(workspace, target.module,
                                              workspace[target.module].scopes.locals[target.local], new, own)
       \/ target.k = "module" /\ \E seer \in Seers(workspace, target) : ModuleConflict(workspace, seer, new, own)

----
(* Renaming (`rename` of lsp/handlers.rs).                                      *)

\* `is_quoted`: data, which is not what a rename may start from.
IsQuote(node) == node.k = "quote" \/ (node.k = "list" /\ IsOne(HeadOf(node), {"quote"}))
QuotedIn(node) == {symbol.at : symbol \in Symbols(node) \ (IF node.k = "list" THEN {node.nodes[1]} ELSE {})}
Deeper(node, depth) ==
    CASE QuasiOf(node) = "quasiquote" -> depth + 1
      [] QuasiOf(node) = "unquote" /\ depth > 0 -> depth - 1
      [] OTHER -> depth
RECURSIVE QuotedPlaces(_, _)
QuotedPlaces(node, depth) ==
    CASE IsSymbol(node) -> IF depth > 0 THEN {node.at} ELSE {}
      [] depth = 0 /\ IsQuote(node) -> QuotedIn(node)
      [] OTHER -> UNION {QuotedPlaces(node.nodes[i], Deeper(node, depth)) : i \in DOMAIN node.nodes}

\* `renamable`: what the symbols of a file that are code refer to, if that has a name.
RenamableBut(workspace, module, quoted) ==
    {Resolve(workspace, module, symbol) : symbol \in {symbol \in workspace[module].symbols : symbol.at \notin quoted}}
Renamable(workspace, module) ==
    {target \in RenamableBut(workspace, module, QuotedPlaces(workspace[module].file, 0)) :
        target.k \in {"local", "module"}}

\* The edits applied: an occurrence is the last part of a symbol.
RECURSIVE Rewritten(_, _, _, _)
Respelled(name, old, new) == SubSeq(name, 1, Len(name) - Len(old)) \o new
Rewritten(node, places, old, new) ==
    IF IsSymbol(node) THEN (IF node.at \in places THEN [node EXCEPT !.name = Respelled(@, old, new)] ELSE node)
    ELSE [node EXCEPT !.nodes = [i \in DOMAIN @ |-> Rewritten(@[i], places, old, new)]]
PlacesIn(own, module) == {occurrence.at : occurrence \in {occurrence \in own : occurrence.module = module}}
Renamed(workspace, own, old, new) ==
    Workspace([module \in DOMAIN workspace |->
                    Rewritten(workspace[module].file, PlacesIn(own, module), old, new)])

----
(* What is to hold.                                                             *)

\* Quoted data, outside of templates: a symbol there refers to nothing.
RECURSIVE DataPlaces(_)
DataPlaces(node) ==
    CASE IsQuote(node) -> QuotedIn(node)
      [] ~IsQuote(node) /\ QuasiOf(node) = "quasiquote" -> {}
      [] OTHER -> UNION {DataPlaces(node.nodes[i]) : i \in DOMAIN node.nodes}

\* What every symbol refers to, and after a name was changed: locals keep their places.
Refers(workspace) ==
    UNION {{<<module, symbol.at, Resolve(workspace, module, symbol)>> :
                symbol \in {symbol \in workspace[module].symbols :
                                symbol.at \notin DataPlaces(workspace[module].file)}}
           : module \in DOMAIN workspace}
Changed(found, target, new) == IF target.k = "module" /\ found = target THEN ModuleTarget(target.module, new) ELSE found

\* "`None` when the rename is safe" (references.rs:233): a rename that is let through
\* changes what no name refers to.
RenameKeeps(workspace, refers, target, new, own) ==
    \/ RenameConflict(workspace, target, new, own)
    \/ Refers(Renamed(workspace, own, NameOf(workspace, target), new))
            = {<<said[1], said[2], Changed(said[3], target, new)>> : said \in refers}
RenamesOf(workspace, refers, targets, names) ==
    \A target \in targets : \A new \in names :
        RenameKeeps(workspace, refers, target, new, Occurrences(workspace, target))
RenamesKept(workspace, names) ==
    RenamesOf(workspace, Refers(workspace), UNION {Renamable(workspace, module) : module \in DOMAIN workspace}, names)

\* "a quoted symbol is data, not a name to rename" (lsp/handlers.rs:767): no rename that
\* is let through writes one anew. In a file that imports they may be names after all,
\* those that an import is limited to.
Data(indexed) == IF indexed.imports = <<>> THEN DataPlaces(indexed.file) ELSE {}
QuotedSpared(workspace, names) ==
    \A module \in DOMAIN workspace : \A target \in Renamable(workspace, module) : \A new \in names :
        \/ RenameConflict(workspace, target, new, Occurrences(workspace, target))
        \/ \A occurrence \in Occurrences(workspace, target) :
                occurrence.at \notin Data(workspace[occurrence.module])
=============================================================================
