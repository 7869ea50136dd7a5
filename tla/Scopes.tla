-------------------------------- MODULE Scopes --------------------------------
(* Which binding a name in a Janet file refers to (scopes.rs): a walk over its     *)
(* forms that binds names as the compiler would and closes their scopes behind it.  *)
(* A form is a tree; its symbols are told apart by their place in the text.         *)
EXTENDS Integers, Sequences, SequencesExt, FiniteSets, FiniteSetsExt, Functions

CONSTANT LintAs     \* `:lint-as` of the config: names that are read as definers

----
(* Forms. A name is a sequence, <<"shapes", "area">> for `shapes/area`.           *)

Form(k, name, nodes) == [k |-> k, name |-> name, nodes |-> nodes]
Symbol(name) == Form("symbol", name, <<>>)
Word(name)   == Form("keyword", name, <<>>)
Text(name)   == Form("string", name, <<>>)
List(nodes)  == Form("list", <<>>, nodes)
Square(nodes) == Form("tuple", <<>>, nodes)
Braces(nodes) == Form("struct", <<>>, nodes)
Quoted(node) == Form("quote", <<>>, <<node>>)
Quasi(node)  == Form("quasiquote", <<>>, <<node>>)
Unquote(node) == Form("unquote", <<>>, <<node>>)

IsSymbol(node) == node.k = "symbol"
IsCollection(node) == node.k \in {"tuple", "struct", "list"}

\* A form where it is in the text: `at` its first place, `to` its last.
RECURSIVE Placed(_, _)
PlacedNext(sofar, node, at) == Append(sofar, Placed(node, IF sofar = <<>> THEN at ELSE Last(sofar).to + 1))
Spanning(node, nodes, at) ==
    [k |-> node.k, name |-> node.name, nodes |-> nodes, at |-> at, to |-> IF nodes = <<>> THEN at ELSE Last(nodes).to]
Placed(node, at) ==
    Spanning(node, FoldLeft(LAMBDA sofar, inner : PlacedNext(sofar, inner, at), <<>>, node.nodes), at)

\* The symbols in a form.
RECURSIVE Symbols(_)
Symbols(node) == IF IsSymbol(node) THEN {node} ELSE UNION {Symbols(node.nodes[i]) : i \in DOMAIN node.nodes}

IsOne(name, words) == Len(name) = 1 /\ name[1] \in words

\* The name a list is called by.
NoName == <<>>
HeadOf(list) == IF list.nodes # <<>> /\ IsSymbol(list.nodes[1]) THEN list.nodes[1].name ELSE NoName

----
(* The walk: the bindings in scope, innermost last, the names the file defines, and  *)
(* what it found, `locals` and the local each place of one refers to.               *)

Everywhere == 1000      \* the end of the file
NothingYet == [env |-> <<>>, globals |-> {}, locals |-> <<>>, uses |-> <<>>, calls |-> {}, definers |-> <<>>]

Bound(walk, name) == {i \in DOMAIN walk.env : walk.env[i].name = name}
UsedAt(walk, at, local) == [walk EXCEPT !.uses = (at :> local) @@ @]

Reference(walk, symbol) ==
    IF Bound(walk, symbol.name) = {} THEN walk
    ELSE UsedAt(walk, symbol.at, walk.env[Max(Bound(walk, symbol.name))].local)

BoundAs(walk, symbol, local) ==
    UsedAt([walk EXCEPT !.locals = Append(@, [name |-> symbol.name, at |-> symbol.at, to |-> Everywhere]),
                        !.env = Append(@, [name |-> symbol.name, local |-> local])],
           symbol.at, local)
BindName(walk, symbol) == BoundAs(walk, symbol, Len(walk.locals) + 1)

\* `scoped`: what was bound since `before` is visible up to `end`.
Scoped(before, after, end) ==
    LET ended == {after.env[i].local : i \in Len(before.env) + 1 .. Len(after.env)}
    IN  [after EXCEPT !.env = SubSeq(@, 1, Len(before.env)),
                      !.locals = [i \in DOMAIN @ |-> IF i \in ended THEN [@[i] EXCEPT !.to = end] ELSE @[i]]]

RECURSIVE Walk(_, _, _)
Forms(walk, nodes) == FoldLeft(LAMBDA now, node : Walk(now, node, FALSE), walk, nodes)

\* `pattern`: every symbol of a destructuring pattern is bound, and the keys of a
\* struct in it are expressions.
Markers == {"&", "&opt", "&keys", "&named"}
RECURSIVE Destructured(_, _)
KeyOrValue(walk, nodes, i) == IF i % 2 = 1 THEN Walk(walk, nodes[i], FALSE) ELSE Destructured(walk, nodes[i])
Destructured(walk, node) ==
    CASE IsSymbol(node) -> IF IsOne(node.name, Markers) THEN walk ELSE BindName(walk, node)
      [] node.k = "struct" ->
            FoldLeft(LAMBDA now, i : KeyOrValue(now, node.nodes, i), walk,
                     [i \in 1 .. 2 * (Len(node.nodes) \div 2) |-> i])
      [] node.k \in {"tuple", "list"} -> FoldLeft(Destructured, walk, node.nodes)
      [] OTHER -> Walk(walk, node, FALSE)

\* `template`: of quasiquoted code only what is unquoted is evaluated here.
QuasiOf(node) ==
    CASE node.k \in {"unquote", "quasiquote"} -> node.k
      [] IsOne(HeadOf(node), {"unquote"}) /\ node.k = "list" -> "unquote"
      [] IsOne(HeadOf(node), {"quasiquote"}) /\ node.k = "list" -> "quasiquote"
      [] OTHER -> "none"
QuasiArgs(node) == IF node.k = "list" THEN Tail(node.nodes) ELSE node.nodes
RECURSIVE Template(_, _, _)
TemplateAt(walk, node, depth, quasi) ==
    CASE quasi = "unquote" /\ depth <= 1 -> Forms(walk, QuasiArgs(node))
      [] quasi = "unquote" /\ depth > 1 ->
            FoldLeft(LAMBDA now, inner : Template(now, inner, depth - 1), walk, QuasiArgs(node))
      [] quasi = "quasiquote" ->
            FoldLeft(LAMBDA now, inner : Template(now, inner, depth + 1), walk, QuasiArgs(node))
      [] OTHER -> FoldLeft(LAMBDA now, inner : Template(now, inner, depth), walk, node.nodes)
Template(walk, node, depth) == TemplateAt(walk, node, depth, QuasiOf(node))

\* `bindings`: each value sees the patterns before it, and not its own.
Bindings(walk, vector) ==
    LET nodes == vector.nodes
        pair(now, i) == IF 2 * i > Len(nodes) THEN Destructured(now, nodes[2 * i - 1])
                        ELSE Destructured(Walk(now, nodes[2 * i], FALSE), nodes[2 * i - 1])
    IN  IF ~IsCollection(vector) THEN Walk(walk, vector, FALSE)
        ELSE FoldLeft(pair, walk, [i \in 1 .. (Len(nodes) + 1) \div 2 |-> i])

\* `params_and_body`: the parameters are the first tuple.
Parameters(nodes) == {i \in DOMAIN nodes : nodes[i].k \in {"tuple", "list"}}
ParamsAt(walk, nodes, at) ==
    Forms(Destructured(Forms(walk, SubSeq(nodes, 1, at - 1)), nodes[at]), SubSeq(nodes, at + 1, Len(nodes)))
ParamsAndBody(walk, nodes) ==
    IF Parameters(nodes) = {} THEN Forms(walk, nodes) ELSE ParamsAt(walk, nodes, Min(Parameters(nodes)))

\* `(fn name? [params] body…)`.
Function(walk, args) ==
    IF args # <<>> /\ IsSymbol(args[1]) THEN ParamsAndBody(BindName(walk, args[1]), Tail(args))
    ELSE ParamsAndBody(walk, IF args # <<>> /\ args[1].k = "keyword" THEN Tail(args) ELSE args)

\* `(defn name … [params] body…)`: the name is bound first, so that it can recurse.
Named(walk, name, top) ==
    CASE IsSymbol(name) /\ top  -> [walk EXCEPT !.globals = @ \cup {name.name}]
      [] IsSymbol(name) /\ ~top -> BindName(walk, name)
      [] OTHER -> walk
Inside(before, args, end) == Scoped(before, ParamsAndBody(before, args), end)
DefineFunction(walk, args, top, end) ==
    IF args = <<>> THEN walk ELSE Inside(Named(walk, args[1], top), Tail(args), end)

\* `(def pattern … value)`: the value does not see the binding.
Targeted(walk, target, top) ==
    CASE ~top -> Destructured(walk, target)
      [] top /\ IsSymbol(target) -> [walk EXCEPT !.globals = @ \cup {target.name}]
      [] OTHER -> walk
Define(walk, args, top) == IF args = <<>> THEN walk ELSE Targeted(Forms(walk, Tail(args)), args[1], top)

\* `(let [pattern value …] body…)`.
Let(walk, args) == IF args = <<>> THEN walk ELSE Forms(Bindings(walk, args[1]), Tail(args))

\* `(if-let [pattern value …] then else?)`, `(if-with …)`: the bindings reach `then` only.
Then(before, bound, args) ==
    Forms(Scoped(before, Walk(bound, args[2], FALSE), args[2].to), SubSeq(args, 3, Len(args)))
IfLet(walk, args) == IF Len(args) < 2 THEN Forms(walk, args) ELSE Then(walk, Bindings(walk, args[1]), args)

\* `[binding constructor destructor?]`.
WithHead(walk, head) ==
    IF head.nodes = <<>> THEN walk ELSE Destructured(Forms(walk, Tail(head.nodes)), head.nodes[1])
With(walk, args)   == IF args = <<>> THEN walk ELSE Forms(WithHead(walk, args[1]), Tail(args))
IfWith(walk, args) == IF Len(args) < 2 THEN Forms(walk, args) ELSE Then(walk, WithHead(walk, args[1]), args)

\* `(for i from to body…)`, `(each x ds body…)`, `(as-> value x forms…)`.
For(walk, args) ==
    IF Len(args) < 3 THEN Forms(walk, args)
    ELSE Forms(Destructured(Forms(walk, SubSeq(args, 2, 3)), args[1]), SubSeq(args, 4, Len(args)))
EachOf(walk, args) ==
    IF Len(args) < 2 THEN Forms(walk, args)
    ELSE Forms(Destructured(Walk(walk, args[2], FALSE), args[1]), SubSeq(args, 3, Len(args)))
As(walk, args) ==
    IF Len(args) < 2 THEN Forms(walk, args)
    ELSE Forms(Destructured(Walk(walk, args[1], FALSE), args[2]), SubSeq(args, 3, Len(args)))

\* `(loop [binding :verb object, :modifier argument …] body…)`.
RECURSIVE LoopHead(_, _)
LoopHead(walk, nodes) ==
    CASE Len(nodes) >= 2 /\ nodes[1].k = "keyword" ->
            LoopHead(IF nodes[1].name = <<"let">> THEN Bindings(walk, nodes[2]) ELSE Walk(walk, nodes[2], FALSE),
                     SubSeq(nodes, 3, Len(nodes)))
      [] Len(nodes) >= 3 /\ nodes[1].k # "keyword" ->
            LoopHead(Destructured(Walk(walk, nodes[3], FALSE), nodes[1]), SubSeq(nodes, 4, Len(nodes)))
      [] OTHER -> Forms(walk, nodes)
Loop(walk, args) == IF args = <<>> THEN walk ELSE Forms(LoopHead(walk, args[1].nodes), Tail(args))

\* `(with-syms [names] body…)`, `(label name body…)`.
WithNames(walk, args) == IF args = <<>> THEN walk ELSE Forms(Destructured(walk, args[1]), Tail(args))

\* `(try body ([error fiber?] handler…))`.
Catch(walk, clause) == Forms(Destructured(walk, clause[1]), Tail(clause))
Try(walk, args) ==
    IF Len(args) = 2 /\ args[2].k = "list" /\ args[2].nodes # <<>> /\ IsCollection(args[2].nodes[1])
    THEN Catch(Scoped(walk, Walk(walk, args[1], FALSE), args[1].to), args[2].nodes)
    ELSE Forms(walk, args)

\* `match_pattern`: a symbol again in one pattern is the same binding; `clause` is where
\* those of the pattern start.
RECURSIVE MatchPattern(_, _, _)
MatchValue(walk, nodes, i, clause) ==
    IF i % 2 = 1 THEN Walk(walk, nodes[i], FALSE) ELSE MatchPattern(walk, nodes[i], clause)
MatchName(walk, symbol, clause) ==
    CASE IsOne(symbol.name, {"_", "&"}) -> walk
      [] \E i \in Bound(walk, symbol.name) : i > clause -> Reference(walk, symbol)
      [] OTHER -> BindName(walk, symbol)
MatchCall(walk, nodes, clause) ==
    CASE nodes = <<>> -> walk
      [] Len(nodes) = 2 /\ nodes[1].name = <<"@">> -> Walk(walk, nodes[2], FALSE)
      [] OTHER -> Forms(MatchPattern(walk, nodes[1], clause), Tail(nodes))
MatchPattern(walk, node, clause) ==
    CASE IsSymbol(node) -> MatchName(walk, node, clause)
      [] node.k = "list" -> MatchCall(walk, node.nodes, clause)
      [] node.k = "struct" ->
            FoldLeft(LAMBDA now, i : MatchValue(now, node.nodes, i, clause), walk,
                     [i \in 1 .. 2 * (Len(node.nodes) \div 2) |-> i])
      [] node.k = "tuple" -> FoldLeft(LAMBDA now, inner : MatchPattern(now, inner, clause), walk, node.nodes)
      [] OTHER -> Walk(walk, node, FALSE)

\* `(match value pattern body … default?)`.
Clause(walk, pattern, body) ==
    Scoped(walk, Walk(MatchPattern(walk, pattern, Len(walk.env)), body, FALSE), body.to)
Match(walk, args) ==
    LET clause(now, i) == IF 2 * i + 1 > Len(args) THEN Walk(now, args[2 * i], FALSE)
                          ELSE Clause(now, args[2 * i], args[2 * i + 1])
    IN  IF args = <<>> THEN walk
        ELSE FoldLeft(clause, Walk(walk, args[1], FALSE), [i \in 1 .. Len(args) \div 2 |-> i])

\* `scope`: the arguments of a form that is no definition.
Scope(walk, name, args) ==
    CASE IsOne(name, {"fn"}) -> Function(walk, args)
      [] IsOne(name, {"let", "when-let"}) -> Let(walk, args)
      [] IsOne(name, {"if-let"}) -> IfLet(walk, args)
      [] IsOne(name, {"for", "forv"}) -> For(walk, args)
      [] IsOne(name, {"each", "eachk", "eachp", "eachy"}) -> EachOf(walk, args)
      [] IsOne(name, {"loop", "seq", "catseq", "generate", "tabseq"}) -> Loop(walk, args)
      [] IsOne(name, {"with", "when-with"}) -> With(walk, args)
      [] IsOne(name, {"if-with"}) -> IfWith(walk, args)
      [] IsOne(name, {"with-syms", "label"}) -> WithNames(walk, args)
      [] IsOne(name, {"as->", "as?->"}) -> As(walk, args)
      [] IsOne(name, {"try"}) -> Try(walk, args)
      [] IsOne(name, {"match"}) -> Match(walk, args)
      [] IsOne(name, {"import", "use", "quote"}) -> walk
      [] IsOne(name, {"quasiquote"}) -> FoldLeft(LAMBDA now, arg : Template(now, arg, 1), walk, args)
      [] OTHER -> Forms(walk, args)

\* `list`: what a call binds goes by its head, which a local or a definition above may
\* shadow, unless the compiler knows it itself; `:lint-as` reads it as another.
Specials == {"def", "var", "fn", "do", "quote", "if", "splice", "while", "break", "set", "quasiquote", "unquote",
             "upscope"}
Definers == {"def", "def-", "defn", "defn-", "defmacro", "defmacro-", "var", "var-", "varfn", "defglobal",
             "varglobal", "defdyn"}
FunctionDefiners == {"defn", "defn-", "defmacro", "defmacro-", "varfn"}
Shadowed(walk, name) ==
    name # NoName /\ ~IsOne(name, Specials) /\ (name \in walk.globals \/ Bound(walk, name) # {})
IsUpscope(list) ==
    \/ IsOne(HeadOf(list), {"upscope", "compwhen", "compif"})
    \/ IsOne(HeadOf(list), {"comment"}) /\ Len(list.nodes) > 1 /\ list.nodes[2].k = "keyword"
ReadAs(name) == IF name \in DOMAIN LintAs /\ ~IsOne(name, Definers) THEN LintAs[name] ELSE name

Call(walk, list, top, shadowed, name) ==
    CASE IsOne(name, FunctionDefiners) -> DefineFunction(walk, Tail(list.nodes), top, list.to)
      [] IsOne(name, Definers \ (FunctionDefiners \cup {"defdyn"})) -> Define(walk, Tail(list.nodes), top)
      [] ~shadowed /\ IsUpscope(list) -> FoldLeft(LAMBDA now, arg : Walk(now, arg, top), walk, Tail(list.nodes))
      [] OTHER -> Scoped(walk, Scope(walk, name, Tail(list.nodes)), list.to)
Marked(walk, head, shadowed) ==
    IF shadowed THEN [walk EXCEPT !.calls = @ \cup {head.at}]
    ELSE IF IsSymbol(head) /\ ReadAs(head.name) # head.name
         THEN [walk EXCEPT !.definers = (head.at :> ReadAs(head.name)) @@ @]
    ELSE walk
Headed(walk, list, top, shadowed) ==
    Call(Marked(walk, list.nodes[1], shadowed), list, top, shadowed,
         IF shadowed THEN NoName ELSE ReadAs(HeadOf(list)))
Listed(walk, list, top) ==
    IF list.nodes = <<>> THEN walk ELSE Headed(walk, list, top, Shadowed(walk, HeadOf(list)))

\* `form`: where `top`, definitions are the file's, and not local.
Walk(walk, node, top) ==
    CASE IsSymbol(node) -> Reference(walk, node)
      [] node.k = "quote" -> walk
      [] node.k = "quasiquote" -> Template(walk, node, 0)
      [] node.k = "list" -> Listed(IF node.nodes = <<>> THEN walk ELSE Walk(walk, node.nodes[1], FALSE), node, top)
      [] OTHER -> Forms(walk, node.nodes)

\* `Scopes::read`, of a file that is placed.
Read(file) == FoldLeft(LAMBDA now, node : Walk(now, node, TRUE), NothingYet, file.nodes)

\* `visible_at`: the locals to be seen at a place, one for each name.
VisibleAt(scopes, at) ==
    LET around == {i \in DOMAIN scopes.locals : scopes.locals[i].at < at /\ at <= scopes.locals[i].to}
    IN  {i \in around : \A j \in around : scopes.locals[j].name = scopes.locals[i].name
                                          => scopes.locals[j].at <= scopes.locals[i].at}
=============================================================================
