----------------------------- MODULE MCReferences -----------------------------
(* The workspaces References.tla is checked on: one file with a local form in       *)
(* another, and three modules that import one another.                             *)
EXTENDS References, TLC

CONSTANT Limited    \* whether an import under a prefix may be limited to some names

Names == {"a", "b"}
New == {<<"a">>, <<"b">>, <<"c">>}

sym(name) == Symbol(<<name>>)
under(prefix, name) == Symbol(<<prefix, name>>)
Ends == {sym(name) : name \in Names}
Def(name, value) == List(<<sym("def"), sym(name), value>>)
LetOf(name, value, body) == List(<<sym("let"), Square(<<sym(name), value>>), body>>)
File(nodes) == Placed(Form("file", <<>>, nodes), 1)

----
(* A function with a form that binds a name in it: what the binding is given, and    *)
(* what sees it. A name binds once in a pattern, and no value defines one: there the  *)
(* order of the text is not the order of the bindings, which the code takes it for.   *)

Binders(name, given, body) ==
    {LetOf(name, given, body),
     List(<<sym("bind"), Square(<<sym(name), given, sym("b"), body>>), sym("a")>>),
     List(<<sym("fn"), Square(<<sym(name)>>), given, body>>),
     List(<<sym("fn"), sym(name), Square(<<>>), given, body>>),
     List(<<sym("do"), Def(name, given), body>>),
     List(<<sym("do"), Def(name, body), given>>),
     List(<<sym("do"), List(<<sym("defn"), sym(name), Square(<<sym("b")>>), given>>), body>>),
     List(<<sym("if-let"), Square(<<sym(name), given>>), body, sym("b")>>),
     List(<<sym("if-with"), Square(<<sym(name), given>>), body, sym("b")>>),
     List(<<sym("each"), sym(name), given, body>>),
     List(<<sym("for"), sym(name), given, sym("a"), body>>),
     List(<<sym("loop"), Square(<<sym(name), Word(<<"in">>), given, Word(<<"let">>), Square(<<sym("b"), body>>)>>),
            sym(name)>>),
     List(<<sym("with"), Square(<<sym(name), given>>), body>>),
     List(<<sym("try"), body, List(<<Square(<<sym(name)>>), given>>)>>),
     List(<<sym("match"), given, Square(<<sym(name), sym(name)>>), body, sym("a")>>),
     List(<<sym("match"), given, List(<<sym(name), body>>), List(<<sym("@"), sym("b")>>), sym("a")>>),
     List(<<sym("as->"), given, sym(name), body>>),
     List(<<sym("with-syms"), Square(<<sym(name)>>), Quasi(Square(<<sym(name), Unquote(given)>>)), body>>),
     List(<<sym("def"), Braces(<<given, sym(name)>>), body>>)}

Inner ==
    Ends \cup {LetOf("b", sym("a"), sym("b")), LetOf("a", sym("b"), sym("b")),
               List(<<sym("fn"), Square(<<sym("a")>>), sym("b")>>),
               List(<<sym("do"), Def("b", sym("a")), sym("b")>>),
               List(<<sym("let"), Square(<<sym("b"), sym("b")>>), sym("a"), sym("b")>>), Quoted(sym("a"))}

Alone(form, param) == Workspace("m" :> File(<<List(<<sym("defn"), sym("a"), Square(<<sym(param)>>), form>>)>>))

----
(* `m` defines, `n` imports it and may pass on what it defines, `o` imports `n`.     *)

From(module, options) == List(<<sym("import"), sym(module)>> \o options)
Only(name) == <<Word(<<"only">>), Square(<<sym(name)>>)>>
Export == <<Word(<<"export">>), sym("true")>>
Lowest == {<<Def("a", sym("b"))>>, <<Def("a", sym("c")), Def("b", sym("a"))>>}
Middle ==
    {<<import, form>> :
        import \in {List(<<sym("use"), sym("m")>>), From("m", <<>>), From("m", Export),
                    From("m", <<Word(<<"as">>), sym("o")>> \o Export),
                    From("m", <<Word(<<"prefix">>), Text(<<>>)>> \o Only("a") \o Export),
                    List(<<sym("declare-from"), Text(<<"m">>), Quoted(Square(<<sym("a")>>))>>)}
                   \cup (IF Limited THEN {From("m", Only("a"))} ELSE {}),
        form \in {Def("c", under("m", "a")), Def("c", sym("a")), LetOf("b", sym("a"), sym("a")),
                  LetOf("m", sym("a"), under("m", "a")), Def("b", sym("c"))}}
Highest ==
    {<<import, form>> :
        import \in {List(<<sym("use"), sym("n")>>), From("n", <<>>), From("m", <<>>),
                    List(<<sym("upscope"), From("n", <<>>), List(<<sym("require"), Text(<<"m">>)>>)>>)},
        form \in {sym("a"), LetOf("b", sym("c"), sym("a")), under("m", "a"), Def("b", under("n", "a")),
                  Symbol(<<"n", "m", "a">>), under("n", "b")}}

\* Every name that is not a local is found in one way.
Ways(workspace, module, name) ==
    {i \in DOMAIN ImportsOf(workspace, module) : Imported(workspace, ImportsOf(workspace, module)[i], name) # Nowhere}
    \cup {own \in {0} : name \in workspace[module].defines}
Unambiguous(workspace) ==
    \A module \in DOMAIN workspace : \A symbol \in workspace[module].symbols :
        Cardinality(Ways(workspace, module, symbol.name)) <= 1

Three(lowest, middle, highest) ==
    Workspace(("m" :> File(lowest)) @@ ("n" :> File(middle)) @@ ("o" :> File(highest)))
=============================================================================
