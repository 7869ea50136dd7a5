--------------------------------- MODULE Fit ---------------------------------
(* Whether a value of one type can stand where another is expected              *)
(* (analysis/types/fit.rs), and what a call's arguments pin a signature's        *)
(* variables to (`bind` of analysis/types.rs). Only a No is ever a finding: the   *)
(* properties say what a No has to mean for the values of the two types.         *)
EXTENDS Types

CONSTANT Depth      \* FIT_DEPTH and EXPANSION: how deep types are followed, 16 and 8 there

NoSubst == <<>>     \* no variable stands for anything

\* What rules a union on the actual side out: nothing, a member that does not fit,
\* or no member fitting.
Modes == {"Lenient", "Every", "Some"}

----
(* What the variables stand for.                                                *)

\* `spliced`: a form with the keys its row was bound to, and theirs, so many rows far.
RECURSIVE SplicedFor(_, _, _)
SplicedFor(subst, form, rows) ==
    IF rows = 0 \/ form.rest \notin DOMAIN subst \/ subst[form.rest].k \notin {"struct", "table"} THEN form
    ELSE LET more == subst[form.rest]
         IN  SplicedFor(subst, [form EXCEPT !.fields = @ @@ more.fields, !.rest = more.rest], rows - 1)

Spliced(subst, form) == SplicedFor(subst, form, Depth)

\* `kind`: what `(type x)` answers for every value of the type, where it says.
NoKind == "none"
KindOf(ty) ==
    CASE ty \in {any, never} -> NoKind
      [] ty.k = "keyword" -> IF ty.name \in Atom THEN ty.name ELSE "keyword"
      [] ty.k = "enum" -> "keyword"
      [] ty.k = "dict" -> "struct"
      [] ty.k = "fn" -> "function"
      [] ty.k \in {"tuple", "array", "struct", "table"} -> ty.k
      [] OTHER -> NoKind

----
(* Answers put together.                                                        *)

\* Mutant of AnyNo: a shape is ruled out unless every part fits.
AllOrNo(answers) == IF answers \subseteq {"Yes"} THEN "Maybe" ELSE "No"

EveryOf(answers) == IF answers \subseteq {"Yes"} THEN "Yes" ELSE "Maybe"
AnyNo(answers)   == IF "No" \in answers THEN "No" ELSE "Maybe"
NoOrEvery(answers) == IF "No" \in answers THEN "No" ELSE EveryOf(answers)
OneOf(answers) ==
    CASE "Yes" \in answers -> "Yes"
      [] "Yes" \notin answers /\ "Maybe" \in answers -> "Maybe"
      [] OTHER -> "No"

\* `by_kind`: an atom expected.
ByKind(actual, wanted) ==
    CASE KindOf(actual) = NoKind -> "Maybe"
      [] KindOf(actual) = wanted -> "Yes"
      [] OTHER -> "No"

\* `by_values`: keywords against the keywords allowed.
ByValues(values, allowed) ==
    CASE values \subseteq allowed -> "Yes"
      [] values \cap allowed = {} -> "No"
      [] OTHER -> "Maybe"

\* A keyword, one or several, where these are allowed.
ByKeyword(actual, allowed) ==
    CASE IsLiteral(actual) -> ByValues({actual.name}, allowed)
      [] actual.k = "enum" -> ByValues(actual.values, allowed)
      [] OTHER -> ByKind(actual, "keyword")

\* `callable`: only `nil` and a boolean never take arguments.
Callable(actual) == IF KindOf(actual) \in {"nil", "boolean"} THEN "No" ELSE "Maybe"

\* A guess, through the variables that stand for it; too deep it is none.
RECURSIVE IsGuess(_, _, _)
IsGuess(ty, subst, depth) ==
    CASE ty.k = "dynamic" -> TRUE
      [] ty.k = "var" /\ depth > 0 /\ ty.var \in DOMAIN subst -> IsGuess(subst[ty.var], subst, depth - 1)
      [] OTHER -> FALSE

----
RECURSIVE Fits(_, _, _, _, _)

\* `union`: one with a guess among its members is a guess as a whole.
UnionFits(items, expected, mode, subst, depth) ==
    LET guess   == \E i \in DOMAIN items : IsGuess(items[i], subst, depth)
        held    == IF mode = "Every" /\ guess THEN "Some" ELSE mode
        answers == {Fits(items[i], expected, held, subst, depth - 1) : i \in DOMAIN items}
        ruled   == CASE held = "Lenient" -> FALSE
                     [] held = "Every" -> "No" \in answers
                     [] held = "Some" -> answers = {"No"}
    IN  IF ruled THEN "No" ELSE EveryOf(answers)

\* What a function takes at a position, NoType past its last.
TakenAt(function, i) == IF i <= Len(function.params) THEN function.params[i] ELSE function.more

\* `functions`: parameters the other way round, what it gives as it stands; a
\* parameter the call leaves out is `nil`, one it does not have refuses the call.
FunctionFits(given, wanted, mode, subst, depth) ==
    LET deeper(actual, expected) == Fits(actual, expected, mode, subst, depth - 1)
        positions == 1 .. (IF Len(given.params) >= Len(wanted.params)
                           THEN Len(given.params) ELSE Len(wanted.params))
        param(i)  == LET takes  == TakenAt(given, i)
                         passed == TakenAt(wanted, i)
                     IN  CASE takes = NoType -> "No"
                           [] takes # NoType /\ passed = NoType -> AnyNo({deeper(nil, takes)})
                           [] OTHER -> deeper(passed, takes)
        more      == IF NoType \in {given.more, wanted.more} THEN "Yes"
                     ELSE deeper(wanted.more, given.more)
    IN  NoOrEvery({param(i) : i \in positions} \cup {more, deeper(given.gives, wanted.gives)})

\* `shapes`: a form expected, compared by what both are said to hold.
ShapeFits(actual, expected, mode, subst, depth) ==
    LET deeper(left, right) == Fits(left, right, mode, subst, depth - 1)
        Indexed == {"tuple", "array"}
        Keyed  == {"struct", "table"}
        atom   == KindOf(actual)
    IN  CASE actual.k \in Indexed /\ expected.k \in Indexed /\ Len(expected.items) = 1 ->
                AnyNo({deeper(actual.items[i], expected.items[1]) : i \in DOMAIN actual.items})
          [] actual.k \in Indexed /\ expected.k \in Indexed /\ Len(expected.items) # 1 ->
                IF Len(actual.items) # Len(expected.items) THEN "Maybe"
                ELSE AnyNo({deeper(actual.items[i], expected.items[i]) : i \in DOMAIN actual.items})
          [] actual.k \in Keyed /\ expected.k \in Keyed ->
                LET left  == Spliced(subst, actual).fields
                    right == Spliced(subst, expected).fields
                IN  AnyNo({deeper(left[key], right[key]) : key \in DOMAIN left \cap DOMAIN right})
          [] actual.k = "dict" /\ expected.k = "dict" ->
                AnyNo({deeper(actual.key, expected.key), deeper(actual.value, expected.value)})
          [] actual.k \in Keyed /\ expected.k = "dict" ->
                AnyNo({deeper(actual.fields[key], expected.value) : key \in DOMAIN actual.fields})
          [] OTHER ->  \* the kinds decide; a struct for a table, a tuple for an array
                IF \/ NoKind \in {atom, KindOf(expected)}
                   \/ atom = KindOf(expected)
                   \/ {atom, KindOf(expected)} \subseteq Keyed
                   \/ {atom, KindOf(expected)} \subseteq Indexed
                THEN "Maybe" ELSE "No"

\* `fits`, with the types no variable, guess or name stands in front of.
WrittenFits(actual, expected, mode, subst, depth) ==
    LET deeper(left, right) == Fits(left, right, mode, subst, depth - 1)
        each(items) == {deeper(actual, items[i]) : i \in DOMAIN items}
    IN  CASE actual.k = "or" -> UnionFits(actual.items, expected, mode, subst, depth)
          [] actual.k = "open" ->
                IF mode = "Every" THEN AnyNo({UnionFits(actual.items, expected, mode, subst, depth)})
                ELSE "Maybe"
          [] actual.k = "nullable" -> UnionFits(<<nil, actual.of>>, expected, mode, subst, depth)
          [] OTHER ->
             CASE expected.k = "or" -> OneOf(each(expected.items))
               [] expected.k = "open" -> EveryOf({OneOf(each(expected.items))})
               [] expected.k = "nullable" -> OneOf({ByKind(actual, "nil"), deeper(actual, expected.of)})
               [] expected = Keyword("function") -> Callable(actual)
               [] expected.k = "enum" -> ByKeyword(actual, expected.values)
               [] IsLiteral(expected) -> ByKeyword(actual, {expected.name})
               [] expected.k = "keyword" /\ expected.name \in Atom \ {"function"} ->
                     ByKind(actual, expected.name)
               [] expected.k = "fn" ->
                     IF actual.k = "fn" THEN FunctionFits(actual, expected, mode, subst, depth)
                     ELSE Callable(actual)
               [] OTHER -> ShapeFits(actual, expected, mode, subst, depth)

\* `fits`: "Yes", "No" or "Maybe"; too deep, or through a variable or a name that
\* stands for nothing known, it is Maybe.
Fits(actual, expected, mode, subst, depth) ==
    LET deeper(left, right) == Fits(left, right, mode, subst, depth - 1)
        through(left, right) == IF NoType \in {left, right} THEN "Maybe" ELSE deeper(left, right)
        bound(ty) == IF ty.var \in DOMAIN subst THEN subst[ty.var] ELSE NoType
        sameName == /\ actual.k = "named" /\ expected.k = "named"
                    /\ actual.name = expected.name /\ Len(actual.args) = Len(expected.args)
    IN  IF depth = 0 THEN "Maybe"
        ELSE IF actual.k = "var" THEN through(bound(actual), expected)
        ELSE IF expected.k = "var" THEN through(actual, bound(expected))
        ELSE IF expected = any \/ actual = never THEN "Yes"
        ELSE IF expected = never \/ actual = any THEN "Maybe"
        ELSE IF actual.k = "dynamic" /\ mode # "Lenient"
             THEN AnyNo({Fits(actual.of, expected, "Some", subst, depth - 1)})
        ELSE IF "dynamic" \in {actual.k, expected.k} THEN "Maybe"
        ELSE IF sameName THEN NoOrEvery({deeper(actual.args[i], expected.args[i]) : i \in DOMAIN actual.args})
        ELSE IF actual.k = "named" THEN through(Expand(actual.name, actual.args), expected)
        ELSE IF expected.k = "named" THEN through(actual, Expand(expected.name, expected.args))
        ELSE WrittenFits(actual, expected, mode, subst, depth)

----
(* What a call's arguments say of the variables of a signature.                 *)

\* A position as it is lined up: one element stands for every element.
LineUp(left, right) ==
    IF Len(left) = 1 /\ Len(right) # 1 THEN <<<<left[1], Unions(right)>>>>
    ELSE [i \in 1 .. (IF Len(left) <= Len(right) THEN Len(left) ELSE Len(right)) |-> <<left[i], right[i]>>]

\* `bind`: the first binding of a variable holds. With `pin` it is from what is
\* static alone: no guess, no variable, no union of options. (The keys of a form are
\* taken in some order.)
RECURSIVE Bind(_, _, _, _, _)
Bind(ty, actual, bound, pin, depth) ==
    LET deeper(sofar, pair) == Bind(pair[1], pair[2], sofar, pin, depth)
        pairs(list) == FoldLeft(deeper, bound, list)
        expanded(left, right) == IF depth = 0 \/ NoType \in {left, right} THEN bound
                                 ELSE Bind(left, right, bound, pin, depth - 1)
    IN  IF actual = any \/ (pin /\ actual.k \in {"dynamic", "var"}) THEN bound
        ELSE IF actual.k = "dynamic" THEN pairs(<<<<ty, actual.of>>>>)
        ELSE IF ty.k = "var" THEN bound @@ (ty.var :> actual)
        ELSE IF ty.k = "named" /\ actual.k = "named" /\ ty.name = actual.name
                /\ Len(ty.args) = Len(actual.args)
             THEN pairs([i \in DOMAIN ty.args |-> <<ty.args[i], actual.args[i]>>])
        ELSE IF ty.k = "named" THEN expanded(Expand(ty.name, ty.args), actual)
        ELSE IF actual.k = "named" THEN expanded(ty, Expand(actual.name, actual.args))
        ELSE IF ty.k \in {"or", "open"}
             THEN IF pin THEN bound ELSE pairs([i \in DOMAIN ty.items |-> <<ty.items[i], actual>>])
        ELSE IF ty.k = "nullable"
             THEN IF actual = nil THEN bound
                  ELSE pairs(<<<<ty.of, IF actual.k = "nullable" THEN actual.of ELSE actual>>>>)
        ELSE IF ty.k = "dynamic" THEN pairs(<<<<ty.of, actual>>>>)
        ELSE IF ty.k \in {"tuple", "array"} /\ actual.k \in {"array", ty.k}
             THEN pairs(LineUp(ty.items, actual.items))
        ELSE IF ty.k \in {"struct", "table"} /\ actual.k \in {"table", ty.k}
             THEN pairs(SetToSeq({<<ty.fields[key], actual.fields[key]>> :
                                     key \in DOMAIN ty.fields \cap DOMAIN actual.fields}))
        ELSE IF ty.k = "dict" /\ actual.k = "dict"
             THEN pairs(<<<<ty.key, actual.key>>, <<ty.value, actual.value>>>>)
        ELSE IF ty.k = "fn" /\ actual.k = "fn"
             THEN pairs(Append(LineUp(ty.params, actual.params), <<ty.gives, actual.gives>>))
        ELSE bound

\* `bindings`: the arguments of a call against what a signature takes, in order;
\* NoType for an argument nothing is known of.
Bindings(signature, arguments, pin) ==
    LET taken == {i \in DOMAIN arguments : TakenAt(signature, i) # NoType /\ arguments[i] # NoType}
        one(bound, i) == IF i \in taken THEN Bind(TakenAt(signature, i), arguments[i], bound, pin, Depth)
                         ELSE bound
    IN  FoldLeft(one, NoSubst, [i \in DOMAIN arguments |-> i])

----
(* What an answer has to mean.                                                  *)

OfType(values, ty) == {v \in values : Member(v, ty)}

RECURSIVE HasFunction(_)
HasFunction(ty) == ty.k = "fn" \/ \E i \in DOMAIN Parts(ty) : HasFunction(Parts(ty)[i])

\* A form with a key that may be left out is held to a dictionary as if it were there.
LeavesOut(actual, expected) ==
    /\ expected.k = "dict" /\ actual.k \in {"struct", "table"}
    /\ \E key \in DOMAIN actual.fields : Member(Nil, actual.fields[key])

\* A No of the lenient mode, which inference and narrowing ask for: no value is of both
\* types or, of functions, some are not of the one expected. A No of the strict mode:
\* what someone wrote lists a value that is not of the type expected. The strict mode
\* rules out all the lenient one does, and neither a type where it is expected itself.
NoMeansNo(actual, expected, values) ==
    LET given  == OfType(values, actual)
        wanted == OfType(values, expected)
        lenient(left, right) == Fits(left, right, "Lenient", NoSubst, Depth)
        strict(left, right)  == Fits(left, right, "Every", NoSubst, Depth)
    IN  /\ lenient(actual, expected) = "No" => strict(actual, expected) = "No"
        /\ "No" \notin {lenient(actual, actual), strict(actual, actual)}
        /\ ~LeavesOut(actual, expected) =>
              /\ lenient(actual, expected) = "No" =>
                    IF HasFunction(actual) /\ HasFunction(expected) THEN ~(given \subseteq wanted)
                    ELSE given \cap wanted = {}
              /\ strict(actual, expected) = "No" => ~(OfType(values, Listed(actual)) \subseteq wanted)

\* A parameter held to what an argument of its call pins its variables to does not
\* rule out that argument, unless it did without.
PinSpares(param, argument) ==
    LET pinned == Substituted(param, Bind(param, argument, NoSubst, TRUE, Depth))
    IN  \A mode \in {"Lenient", "Every"} :
            Fits(argument, pinned, mode, NoSubst, Depth) = "No" =>
            Fits(argument, param, mode, NoSubst, Depth) = "No"
=============================================================================
