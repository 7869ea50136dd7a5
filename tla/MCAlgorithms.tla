----------------------------- MODULE MCAlgorithms -----------------------------
(* The algorithms of janet-check's types and the installation of the Zed          *)
(* extension, on small instances, for TLC. A behaviour is of one part: of those    *)
(* that are functions it chooses an input and checks what comes out.               *)
EXTENDS Narrowing, Unify, TLC

CONSTANTS
    x,          \* a local
    None,       \* no directory
    Checked,    \* which parts there are behaviours of
    LintAs, Core, MaxReexports, Limited,    \* of names and modules
    Single      \* whether the workspace is one project, or has another inside

VARIABLES
    part,       \* what the behaviour is of
    input,      \* of a function: what it is given
    learnt,     \* what inference knows, after some calls
    made,       \* the calls
    dirs, extension, janet, cached, call, answer    \* of the Zed extension

typeVars    == <<input>>
callVars    == <<learnt, made>>
walkVars    == <<mutable, locals, narrowed, forms, stops, reach>>
installVars == <<dirs, extension, janet, cached, call, answer>>

E == INSTANCE Install WITH Version <- {1, 2}
ASSUME WalkAssumption
ASSUME E!InstallAssumption
R == INSTANCE MCReferences
I == INSTANCE Imports WITH
        Roots <- IF Single THEN <<<<>>>> ELSE <<<<>>, <<"a">>>>,
        Projects <- IF Single THEN {} ELSE {<<>>, <<"a">>}

----
(* Values, and types that tell them apart.                                      *)

Truth(is) == [t |-> "boolean", is |-> is]
One  == [t |-> "number", is |-> "1"]
Two  == [t |-> "number", is |-> "2"]
Text == [t |-> "string"]
A    == [t |-> "struct", at |-> ("kind" :> Word("a")) @@ ("n" :> One)]
B    == [t |-> "struct", at |-> ("kind" :> Word("b"))]
C    == [t |-> "struct", at |-> ("kind" :> Word("a"))]
Ats  == UNION {[keys -> {Word("a"), Word("b"), One}] : keys \in {{"kind"}, {"n"}, {"kind", "n"}}}
        \cup {("n" :> B), ("n" :> C), ("n" :> Truth("true")), ("n" :> Two), <<>>, ("n" :> C) @@ ("kind" :> Word("a"))}
Data ==
    {Nil, Truth("true"), False, One, Two, Text, Word("a"), Word("b")}
    \cup [t : {"tuple"}, items : {<<One>>, <<Word("a")>>, <<Nil>>, <<Word("a"), One>>, <<Word("b"), One>>,
                                   <<Word("b"), Word("a")>>, <<One, One>>, <<One, Nil>>, <<Word("a"), Text>>, <<Two>>}]
    \cup [t : {"array"}, items : {<<One>>, <<Word("a"), One>>, <<Text>>}]
    \cup [t : {"struct"}, at : Ats]
    \cup [t : {"table"}, at : {("kind" :> Word("a")), ("n" :> One), ("n" :> Text)}]
Calls ==
    [t : {"function"}, arities : {{0}, {1}, {2}, {1, 2}}, refuses : {{}, {One}, {Nil}, {Word("a")}, {Text}},
     gives : {One, Nil, Word("a"), Word("b")}]

number == Keyword("number")
string == Keyword("string")
a  == Keyword("a")
b  == Keyword("b")
ab == Enum({"a", "b"})
K(of) == Struct("kind" :> of, NoRest)
N(of) == Struct("n" :> of, NoRest)
F(params, gives) == Fn(params, NoType, gives)

MCTypedefs ==
    [shape |-> [vars |-> <<>>, of |-> Or(<<Struct([kind |-> a, n |-> number], NoRest), K(b)>>)],
     box   |-> [vars |-> <<90>>, of |-> N(Var(90))],
     list  |-> [vars |-> <<>>, of |-> Nullable(Tuple(<<number, Named("list", <<>>)>>))]]
Shape == Named("shape", <<>>)

Simple == {nil, any, never, number, a, ab}
          \cup {Keyword(name) : name \in {"boolean", "keyword", "function", "tuple", "struct", "table"}}
Parted == {any, number, a, ab, Or(<<a, number>>), Nullable(number), Dynamic(a)}
Shapes ==
    {Tuple(<<of>>) : of \in Parted} \cup {K(of) : of \in Parted \cup {nil}}
    \cup {Tuple(<<a, number>>), Tuple(<<b, number>>), Tuple(<<a, string>>), Array(<<number>>), Array(<<string>>)}
    \cup {Struct([kind |-> of, n |-> number], NoRest) : of \in {a, b, number}} \cup {N(number), N(K(a)), N(Nullable(a))}
    \cup {Struct("kind" :> a, 1), Struct("n" :> number, 2), Table("kind" :> a, NoRest), Table("n" :> number, NoRest)}
    \cup {Dict(key, value) : key \in {Keyword("keyword"), Keyword("n")}, value \in {number, a}}
Functions ==
    {F(<<>>, number), F(<<number>>, number), F(<<number>>, a), F(<<a>>, number), F(<<Nullable(number)>>, ab),
     F(<<ab>>, Nullable(number)), F(<<number, number>>, number), F(<<number, Nullable(number)>>, number)}
Names == {Shape, Named("box", <<number>>), Named("box", <<>>), Named("list", <<>>), Named("unknown", <<>>)}
Unionized ==
    {Nullable(number), Nullable(a), Or(<<a, b>>), Or(<<number, string>>), Or(<<a, Shape>>), Or(<<K(a), K(b)>>),
     Or(<<Tuple(<<a, number>>), Tuple(<<b, number>>)>>), Open(<<a, b>>), Open(<<number>>), Dynamic(number),
     Dynamic(Or(<<a, number>>)), Dynamic(N(number)), Or(<<Keyword("boolean"), F(<<number>>, a)>>)}
Nested ==
    {Or(<<K(a), K(b), nil>>), Open(<<K(a), K(b)>>), Or(<<N(K(a)), N(K(b))>>), Or(<<N(K(a)), K(a)>>),
     Open(<<Tuple(<<a, number>>)>>), Nullable(Open(<<a>>)), Or(<<a, Open(<<K(a)>>)>>), Or(<<ab, nil>>),
     Or(<<a, number, Keyword("boolean")>>), Or(<<Dynamic(K(a)), K(b)>>), N(Or(<<K(a), K(b)>>)), N(Open(<<K(a)>>)),
     N(Nullable(K(a))), N(Shape), Nullable(Dynamic(number))}
Compared == Simple \cup Shapes \cup Functions \cup Names \cup Unionized
Read     == Simple \cup Shapes \cup Names \cup Unionized \cup Nested

\* Parameters in variables, each written once.
Linear == {Var(1), Nullable(Var(1)), Tuple(<<Var(1)>>), Tuple(<<Var(1), Var(2)>>), Array(<<Var(1)>>),
           Or(<<Tuple(<<Var(1)>>), Array(<<Var(2)>>)>>), K(Var(1)), Struct("kind" :> Var(1), 3),
           Table("kind" :> Var(1), NoRest), Dict(Var(1), Var(2)), F(<<Var(1), Var(2)>>, Var(3)), Named("box", <<Var(1)>>)}

Atomic == {nil, any, number, a, b, ab, Enum({"a"}), Keyword("c"), Nullable(a), Or(<<a, number>>), Open(<<a>>), Dynamic(a),
           Dynamic(Nullable(a)), Nullable(Open(<<b>>)), K(a)}

Given(k, first) == [k |-> k, first |-> first]

----
(* Functions.                                                                   *)

Choose(k, first, second) == input' = [k |-> k, first |-> first, second |-> second]

\* The first of what is chosen, and then the rest.
First ==
    /\ input.k = "none"
    /\ \/ \E ty \in Compared : input' = Given("fit", ty)
       \/ \E ty \in Read : input' = Given("read", ty)
       \/ \E ty \in Atomic : input' = Given("join", ty)

Fitted == input.k = "fit" /\ \E ty \in Compared \cup Linear : Choose("fitted", input.first, ty)
Joint  == input.k = "join" /\ \E one, other \in Atomic : Choose("joined", input.first, <<one, other>>)
Sided ==
    /\ input.k = "read"
    /\ \/ \E names \in {{"nil"}, {"boolean"}, {"nil", "boolean"}, {"string"}, {"struct"}, {"struct", "table"},
                        {"keyword"}, {"function"}, {"tuple", "array"}} : Choose("split", input.first, names)
       \/ \E keys \in {<<>>, <<"kind">>, <<"n">>, <<"first">>, <<"second">>, <<"n", "kind">>} :
            \E literal \in {a, b, nil, number} :
                Choose("equal", input.first, <<keys, literal>>)
       \/ \E pattern \in {"kind" :> NoType, "n" :> NoType, "kind" :> a, "kind" :> b, [kind |-> a, n |-> NoType],
                          "first" :> NoType, "first" :> a} : Choose("shaped", input.first, pattern)

Values == Data \cup Calls

\* A value is in a union exactly if it is in a member, however unions are nested,
\* folded and found too wide.
UnionSound == input.k = "joined" => UnionHolds(<<input.first>> \o input.second, Data)

\* "Only contradictions that hold under every reading are kept" (types/infer/calls.rs).
FitSound ==
    input.k = "fitted" => /\ Variables(input.second) = {} => NoMeansNo(input.first, input.second, Values)
                          /\ PinSpares(input.second, input.first)

\* A test never puts a value on the side it is not on.
NarrowSound ==
    /\ input.k = "split" => SplitHolds(input.first, input.second, Data)
    /\ input.k = "equal" => EqualHolds(input.first, input.second[1], input.second[2], Data)
    /\ input.k = "shaped" => ShapedHolds(input.first, input.second, Data)
    /\ input.k = "read" => TagsHold(input.first, Data)
    /\ part = "walk" => TypesSound

----
(* Renames.                                                                     *)

MCLintAs == (<<"bind">> :> <<"let">>)

\* A function with one form in another, and three modules.
Begun ==
    /\ input.k = "none"
    /\ \/ \E form \in R!Inner, param \in R!Names : input' = [k |-> "form", form |-> form, param |-> param]
       \/ \E lowest \in R!Lowest, middle \in R!Middle : input' = [k |-> "modules", of |-> <<lowest, middle>>]
Alone ==
    /\ input.k = "form"
    /\ \E name \in R!Names, other \in R!Ends :
         \E form \in R!Binders(name, other, input.form) \cup R!Binders(name, input.form, other) :
            input' = [k |-> "workspace", files |-> R!Alone(form, input.param)]
Together ==
    /\ input.k = "modules"
    /\ \E highest \in R!Highest : input' = [k |-> "workspace", files |-> R!Three(input.of[1], input.of[2], highest)]

\* Up to three files, and a file or a folder of them moved, or two.
Folders == {<<>>, <<"a">>, <<"b">>, <<"a", "b">>}
Places == {I!Place(folder, name) : folder \in Folders, name \in {"x", "init"}} \cup {I!Place(<<>>, "y")}
FilesMoved(places) ==
    {<<I!MoveFile(old, new)>> : old \in places, new \in Places \ places}
    \cup {<<I!MoveFolder(old, new)>> : old \in Folders \ {<<>>}, new \in {<<"b">>, <<"c">>, <<"b", "c">>}}
    \cup {<<I!MoveFile(old, I!Place(<<"c">>, "x")), I!MoveFolder(<<"a">>, <<"c", "b">>)>> : old \in places}
MovedTo(places, moves) == {I!NewPlace(moves, place) : place \in places}
Written(places) ==
    {[I!SpecOf(k, <<>>, from, to) EXCEPT !.extension = written] :
        k \in {"relative", "rooted"}, from \in places, to \in places, written \in BOOLEAN}
    \cup {I!Spec("relative", Len(from.dir), I!ModulePath(to), FALSE, TRUE) : from \in places, to \in places}
InForms(specs) == {[spec EXCEPT !.top = FALSE] : spec \in specs}
Filed ==
    /\ input.k = "none"
    /\ \E places \in SUBSET Places : Cardinality(places) \in 2 .. 3 /\ input' = [k |-> "files", places |-> places]
Moved ==
    /\ input.k = "files"
    /\ \E moves \in FilesMoved(input.places) : input' = [k |-> "moved", places |-> input.places, moves |-> moves]

\* "`None` when the rename is safe" (references.rs:233): a rename that is not refused
\* changes what no name of the workspace refers to.
RenamesKept ==
    input.k = "workspace" /\ R!Unambiguous(input.files) => R!RenamesKept(input.files, R!New)

\* "A quoted symbol is data, not a name to rename" (lsp/handlers.rs:767): a rename that is not
\* refused leaves the quoted symbols of files that import nothing as they are.
QuotedSpared ==
    input.k = "workspace" /\ R!Unambiguous(input.files) => R!QuotedSpared(input.files, R!New)

\* Files that move are imported as before, and so is what they import; what is offered for
\* import leads to what it is offered for (lsp/imports.rs). Said of a workspace that is one
\* project, of imports at the top of their files, and not of `./x/init.janet` (`Rewritable`).
MovesKept ==
    /\ input.k = "files" /\ I!Apart(input.places) => I!OffersLead(input.places)
    /\ input.k = "moved" =>
            I!MovesKept(input.places, MovedTo(input.places, input.moves), input.moves,
                        Written(input.places) \cup InForms({spec \in Written(input.places) : ~spec.extension}))

Follow(specs) ==
    input.k = "moved" => I!AllKept(input.places, MovedTo(input.places, input.moves), input.moves, specs)

\* "The imports a move breaks, written again" (lsp/imports.rs:350), of imports in forms, which
\* load with the module too (modules.rs:164).
FormsFollow == Follow(InForms({spec \in Written(input.places) : ~spec.extension}))

\* The same of imports that name an `init.janet` with its extension.
InitFollow == Follow(Written(input.places))

\* The same of imports from a root, in a workspace with a project inside.
RootsFollow == Follow({spec \in Written(input.places) : spec.k = "rooted" /\ ~spec.extension})

----
(* Calls one after the other, of a function with two locals nothing is known of.  *)

Locals == {21, 22}
Signatures ==
    {F(<<Var(1)>>, Var(1)), F(<<Var(1), Var(1)>>, Var(1)), F(<<Nullable(Var(1))>>, Var(1)), F(<<number>>, number),
     F(<<Or(<<Tuple(<<Var(1)>>), Array(<<Var(1)>>)>>)>>, Nullable(Var(1))), F(<<Struct("kind" :> Var(1), 2)>>, Var(1)),
     F(<<F(<<Var(1)>>, Var(2)), Tuple(<<Var(1)>>)>>, Tuple(<<Var(2)>>))}
Unknown == {Var(21), Var(22), Tuple(<<Var(21)>>), F(<<Var(21)>>, Var(22))}
Closed == {nil, number, a, Nullable(number), Dynamic(number), Tuple(<<number>>), K(a), F(<<number>>, a)}
Arity(signature) == Len(signature.params) + IF signature.more = NoType THEN 0 ELSE 1

Call ==
    /\ Len(made) < 2
    /\ \E signature \in Signatures :
       \E arguments \in [1 .. Arity(signature) -> Unknown \cup Closed \cup {made[i].gives : i \in DOMAIN made}] :
          /\ \E i \in DOMAIN arguments : arguments[i] \notin Closed
          /\ LET called == Called(signature, arguments, made, learnt)
             IN  made' = called.made /\ learnt' = called.now

\* What is known of a local is never unlearnt, and what a call took is never refused.
CallsKept ==
    [][CallsStand(made', learnt', Data) /\ \A var \in Locals : SettledStays(var, learnt, learnt')]_callVars

----
(* The walk (Narrowing.tla), over a local that is one of two forms, a number or nil. *)

MCLiteral == (Nil :> nil) @@ (One :> number) @@ (Word("a") :> a)
Test_ ==
    {[k |-> "not", of |-> [k |-> "equal", local |-> x, keys |-> <<"kind">>, value |-> Word("a")], local |-> x],
     [k |-> "and", local |-> x, parts |-> <<[k |-> "not", local |-> x, of |-> [k |-> "is", local |-> x, atoms |-> {"number"}]],
                                            [k |-> "some", local |-> x]>>]}
MCDeclared == {Nullable(Or(<<Shape, number>>))}
MCValue == {Nil, One, Text, A, B}
MCAssigned == {One}
MCPattern == {[k |-> "shape", local |-> x, pattern |-> ("kind" :> a)]}
MCIsOf(value, ty) == MemberOf(value, ty)
MCPasses(test, env) == Holds(test, env)
MCTestSides(test, now) == Tested(test, now)
MCWiden(ty, value) == Widening(ty, value)
MCSupplied(now, local, value) == Defaulted(now, local, value)

----
NoInput == [k |-> "none"]
MCInit ==
    /\ part \in Checked
    /\ input = NoInput /\ learnt = Nothing(30) /\ made = <<>>
    /\ Init /\ (part # "walk" => mutable = {})
    /\ E!Init /\ (part # "install" => dirs = <<>> /\ extension = 1 /\ janet = None)

MCNext ==
    /\ UNCHANGED part
    /\ \/ part = "function" /\ (First \/ Fitted \/ Joint \/ Sided) /\ UNCHANGED <<callVars, walkVars, installVars>>
       \/ part = "rename" /\ (Begun \/ Alone \/ Together \/ Filed \/ Moved) /\ UNCHANGED <<callVars, walkVars, installVars>>
       \/ part = "calls" /\ Call /\ UNCHANGED <<typeVars, walkVars, installVars>>
       \/ part = "walk" /\ Next /\ UNCHANGED <<typeVars, callVars, installVars>>
       \/ part = "install" /\ E!Next /\ UNCHANGED <<typeVars, callVars, walkVars>>

MCSpec == MCInit /\ [][MCNext]_<<part, input, learnt, made, walkVars, installVars>>

\* What is answered is whole, and one download takes nothing of another (Install.tla).
Kept == [][E!Keeps]_installVars
=============================================================================
