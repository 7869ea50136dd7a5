-------------------------------- MODULE Unify --------------------------------
(* How two types meet during inference (analysis/types/infer/unify.rs): what the *)
(* variables stand for, the rows of keys a form has besides the ones it lists,    *)
(* and the merge of two types, which never fails. What the walk knows is a record *)
(* of the substitution and the next variable; an operator that learns something   *)
(* answers one, with the type or the types it came to.                            *)
EXTENDS Fit

CONSTANT InferDepth     \* INFER_DEPTH: how deep types are followed, 24 there

Nothing(first) == [subst |-> NoSubst, next |-> first]
As(now, ty)    == [ty |-> ty, subst |-> now.subst, next |-> now.next]
Learnt(now, var, ty) == [ty |-> ty, subst |-> (var :> ty) @@ now.subst, next |-> now.next]

----
(* What a variable stands for.                                                  *)

\* `root`: the variable at the end of a chain of them.
RECURSIVE Root(_, _, _)
Root(subst, var, depth) ==
    IF depth > 0 /\ var \in DOMAIN subst /\ subst[var].k = "var"
    THEN Root(subst, subst[var].var, depth - 1) ELSE var

\* `outside`: what stands behind variables and guesses.
RECURSIVE Behind(_, _, _)
Behind(subst, ty, depth) ==
    CASE depth > 0 /\ ty.k = "var" /\ ty.var \in DOMAIN subst -> Behind(subst, subst[ty.var], depth - 1)
      [] depth > 0 /\ ty.k = "dynamic" -> Behind(subst, ty.of, depth - 1)
      [] OTHER -> ty

\* `occurs`: a variable inside a type, through those it stands for.
RECURSIVE Occurs(_, _, _, _)
Occurs(var, ty, subst, depth) ==
    /\ depth > 0
    /\ \/ ty = Var(var)
       \/ ty.k = "var" /\ ty.var \in DOMAIN subst /\ Occurs(var, subst[ty.var], subst, depth - 1)
       \/ \E i \in DOMAIN Parts(ty) : Occurs(var, Parts(ty)[i], subst, depth - 1)

\* A type over what its parts stand for, a union put together again.
NullableOf(inner) ==
    CASE inner.k \in {"nullable", "or", "dynamic"} -> Unions(<<inner, nil>>)
      [] inner \in {any, nil} -> inner
      [] OTHER -> Nullable(inner)
Settled(ty, parts) ==
    CASE ty.k = "nullable" -> NullableOf(parts[1])
      [] ty.k = "dynamic" -> Guessed(parts[1])
      [] ty.k = "or" -> Unions(parts)
      [] ty.k = "open" -> Unions(<<Open(parts)>>)
      [] OTHER -> Rebuilt(ty, parts)

\* `zonk`: every variable replaced by what it stands for.
WithRow(subst, ty) == IF ty.k \in {"struct", "table"} THEN Spliced(subst, ty) ELSE ty
RECURSIVE Zonk(_, _, _)
ZonkParts(subst, ty, depth) == Settled(ty, [i \in DOMAIN Parts(ty) |-> Zonk(subst, Parts(ty)[i], depth)])
Zonk(subst, ty, depth) ==
    CASE depth = 0 -> any
      [] depth > 0 /\ ty.k = "var" ->
            IF ty.var \in DOMAIN subst THEN Zonk(subst, subst[ty.var], depth - 1) ELSE ty
      [] OTHER -> ZonkParts(subst, WithRow(subst, ty), depth - 1)

----
(* Two types together.                                                          *)

RECURSIVE Unify(_, _, _, _)

\* `positional`: two lists by position, keeping what only one of them has.
NextItem(sofar, met) == [items |-> Append(sofar.items, met.ty), subst |-> met.subst, next |-> met.next]
ByPosition(longer, shorter, now, depth) ==
    FoldLeft(LAMBDA sofar, i : NextItem(sofar, IF i <= Len(shorter) THEN Unify(longer[i], shorter[i], sofar, depth)
                                               ELSE As(sofar, longer[i])),
             [items |-> <<>>, subst |-> now.subst, next |-> now.next], [i \in DOMAIN longer |-> i])
Positional(left, right, now, depth) ==
    ByPosition(IF Len(left) >= Len(right) THEN left ELSE right, IF Len(left) >= Len(right) THEN right ELSE left,
               now, depth)

\* `elements`: one element stands for every element.
OneItem(met) == [items |-> <<met.ty>>, subst |-> met.subst, next |-> met.next]
Elements(left, right, now, depth) ==
    LET one  == IF Len(left) = 1 THEN left[1] ELSE right[1]
        many == IF Len(left) = 1 THEN right ELSE left
    IN  IF 1 \in {Len(left), Len(right)} /\ Len(many) # 1
        THEN OneItem(FoldLeft(LAMBDA sofar, ty : Unify(sofar.ty, ty, sofar, depth), As(now, one), many))
        ELSE Positional(left, right, now, depth)

\* `spread`: parameters past those the other function names meet its rest, while
\* that is still a variable.
SpreadRest(params, beyond, more, now, depth) ==
    IF more = NoType \/ Behind(now.subst, more, InferDepth).k # "var" THEN now
    ELSE FoldLeft(LAMBDA sofar, ty : Unify(more, ty, sofar, depth), now,
                  SubSeq(params, beyond + 1, Len(params)))

\* `(Fn, Fn)`.
BothSpread(left, right, now, depth) ==
    SpreadRest(left.params, Len(right.params), right.more,
               SpreadRest(right.params, Len(left.params), left.more, now, depth), depth)
UnifyRest(left, right, now, depth) ==
    CASE left.more = NoType -> As(now, right.more)
      [] left.more # NoType /\ right.more = NoType -> As(now, left.more)
      [] OTHER -> Unify(left.more, right.more, now, depth)
FnOf(params, more, gives) == As(gives, Fn(params, more, gives.ty))
FnGiving(left, right, params, more, depth) ==
    FnOf(params.items, more.ty, Unify(left.gives, right.gives, more, depth))
FnTaking(left, right, params, depth) ==
    FnGiving(left, right, params, UnifyRest(left, right, params, depth), depth)
UnifyFunctions(left, right, now, depth) ==
    FnTaking(left, right, Positional(left.params, right.params, BothSpread(left, right, now, depth), depth), depth)

\* `bind_row`: the keys a row turned out to have.
BindRow(row, fields, rest, now) == Learnt(now, row, Struct(fields, rest))

\* `merge`: a key of both holds both types; a row stands for the keys only the other
\* form lists, and two rows share a fresh one.
Only(form, other) == Restrict(form.fields, DOMAIN form.fields \ DOMAIN other.fields)
NextField(sofar, key, met) ==
    [fields |-> [sofar.fields EXCEPT ![key] = met.ty], subst |-> met.subst, next |-> met.next]
KeysMet(one, other, now, depth) ==
    FoldLeft(LAMBDA sofar, key : NextField(sofar, key, Unify(one.fields[key], other.fields[key], sofar, depth)),
             [fields |-> one.fields @@ Only(other, one), subst |-> now.subst, next |-> now.next],
             SetToSeq(DOMAIN one.fields \cap DOMAIN other.fields))
RowsMet(kind, one, other, met) ==
    LET formed(after, rest) == As(after, [k |-> kind, fields |-> met.fields, rest |-> rest])
        shared == [met EXCEPT !.next = @ + 1]
    IN  CASE one.rest = other.rest -> formed(met, one.rest)
          [] NoRest \notin {one.rest, other.rest} /\ one.rest # other.rest ->
                formed(BindRow(other.rest, Only(one, other), met.next,
                               BindRow(one.rest, Only(other, one), met.next, shared)), met.next)
          [] one.rest # NoRest /\ other.rest = NoRest ->
                formed(BindRow(one.rest, Only(other, one), NoRest, met), NoRest)
          [] one.rest = NoRest /\ other.rest # NoRest ->
                formed(BindRow(other.rest, Only(one, other), NoRest, met), NoRest)
MergeWritten(kind, one, other, now, depth) == RowsMet(kind, one, other, KeysMet(one, other, now, depth))
Merge(kind, left, right, now, depth) ==
    MergeWritten(kind, Spliced(now.subst, left), Spliced(now.subst, right), now, depth)

\* `shaped_alike`.
ShapedAlike(left, right) ==
    \E kinds \in {{"tuple", "array"}, {"struct", "table"}} : {left.k, right.k} \subseteq kinds

\* `merged`: a type meets the first member of a union it is shaped like; nothing alike,
\* and the union grows by one.
Alike(items, other) ==
    LET same == {i \in DOMAIN items : items[i].k = other.k}
    IN  IF same # {} THEN same ELSE {i \in DOMAIN items : ShapedAlike(items[i], other)}
Grown(union, at, met) ==
    LET grown == [union.items EXCEPT ![at] = met.ty]
    IN  As(met, Unions(IF union.k = "open" THEN <<Open(grown)>> ELSE grown))
MeetFirst(union, at, other, now, depth) == Grown(union, at, Unify(union.items[at], other, now, depth))
Merged(union, other, now, depth) ==
    LET alike == Alike(union.items, other)
    IN  CASE other \in Range(union.items) -> As(now, union)
          [] other \notin Range(union.items) /\ alike = {} -> As(now, Unions(<<union, other>>))
          [] OTHER -> MeetFirst(union, CHOOSE i \in alike : \A j \in alike : i <= j, other, now, depth)

\* `assign`: a variable is bound to what it turned out to be, merging what it stood
\* for already.
\* Mutant of Rebound: what it stood for is forgotten.
ReboundAnew(var, ty, met) == Learnt(met, var, ty)
Rebound(var, ty, met) == Learnt(met, var, met.ty)
Assign(var, ty, now, depth) ==
    CASE var \in DOMAIN now.subst -> Rebound(var, ty, Unify(now.subst[var], ty, now, depth))
      [] var \notin DOMAIN now.subst /\ Occurs(var, ty, now.subst, InferDepth) -> Learnt(now, var, any)
      [] OTHER -> Learnt(now, var, IF ty.k = "var" THEN Var(Root(now.subst, ty.var, InferDepth)) ELSE ty)

\* `(Named, Named)`: the same name applied twice.
SameName(left, right) == left.k = "named" /\ right.k = "named" /\ left.name = right.name
                         /\ Len(left.args) = Len(right.args)

\* What two types that are the same kind of thing come to, once their parts have met.
NullableMet(met) == As(met, Nullable(met.ty))
GuessMet(met)    == As(met, Guessed(met.ty))
ListMet(kind, met) == As(met, [k |-> kind, items |-> met.items])
NamedMet(name, met) == As(met, Named(name, met.items))
ValueMet(key, met) == As(met, Dict(key, met.ty))
KeyMet(left, right, met, depth) == ValueMet(met.ty, Unify(left.value, right.value, met, depth))

\* An atom beside what `(type x)` answers it for; an enum beside a word it lists.
Detailed(atom, other) == atom.k = "keyword" /\ other.k # "keyword" /\ KindOf(other) = atom.name
Lists(enum, word)     == enum.k = "enum" /\ word.k = "keyword" /\ word.name \in enum.values

\* `unify_at`, of two types no variable, guess or name is in front of.
UnifyUnion(union, other, now, depth) ==
    IF union.k # "nullable" THEN Merged(union, other, now, depth)
    ELSE IF other = nil THEN As(now, union) ELSE NullableMet(Unify(union.of, other, now, depth))
UnifyShapes(left, right, now, depth) ==
    CASE {left.k, right.k} \subseteq {"tuple", "array"} ->
            ListMet(left.k, Elements(left.items, right.items, now, depth))
      [] {left.k, right.k} \subseteq {"struct", "table"} -> Merge(left.k, left, right, now, depth)
      [] left.k = "dict" /\ right.k = "dict" ->
            KeyMet(left, right, Unify(left.key, right.key, now, depth), depth)
      [] left.k = "dict" /\ right.k \in {"struct", "table"} -> As(now, left)
      [] right.k = "dict" /\ left.k \in {"struct", "table"} -> As(now, right)
      [] left.k = "fn" /\ right.k = "fn" -> UnifyFunctions(left, right, now, depth)
      [] OTHER -> As(now, Unions(<<left, right>>))
UnifyWritten(left, right, now, depth) ==
    CASE left.k = "nullable" -> UnifyUnion(left, right, now, depth)
      [] left.k # "nullable" /\ right.k = "nullable" -> UnifyUnion(right, left, now, depth)
      [] OTHER ->
         CASE left.k \in {"or", "open"} -> UnifyUnion(left, right, now, depth)
           [] left.k \notin {"or", "open"} /\ right.k \in {"or", "open"} -> UnifyUnion(right, left, now, depth)
           [] OTHER ->
              CASE Detailed(left, right) \/ Lists(right, left) -> As(now, right)
                [] Detailed(right, left) \/ Lists(left, right) -> As(now, left)
                [] OTHER -> UnifyShapes(left, right, now, depth)

\* `unify_at`. (The names the core defines itself, `(channel t)`, are left out.)
UnifyNamed(of, other, apart, now, depth) == IF of = NoType THEN apart ELSE Unify(of, other, now, depth)
UnifyApart(left, right, now, depth) ==
    IF left.k = "var" THEN Assign(left.var, right, now, depth)
    ELSE IF right.k = "var" THEN Assign(right.var, left, now, depth)
    ELSE IF left.k = "dynamic" THEN GuessMet(Unify(left.of, right, now, depth))
    ELSE IF right.k = "dynamic" THEN GuessMet(Unify(left, right.of, now, depth))
    ELSE IF left = any THEN As(now, right)
    ELSE IF right = any THEN As(now, left)
    ELSE IF SameName(left, right) THEN NamedMet(left.name, Positional(left.args, right.args, now, depth))
    ELSE IF left.k = "named" THEN UnifyNamed(Expand(left.name, left.args), right, As(now, Unions(<<left, right>>)), now, depth)
    ELSE IF right.k = "named" THEN UnifyNamed(Expand(right.name, right.args), left, As(now, Unions(<<left, right>>)), now, depth)
    ELSE UnifyWritten(left, right, now, depth)
Unify(left, right, now, depth) ==
    IF left = right THEN As(now, left)
    ELSE IF depth = 0 THEN As(now, any)
    ELSE UnifyApart(left, right, now, depth - 1)

----
(* Calls (types/infer/calls.rs).                                                *)

\* The variables written in a type, rows with them.
RECURSIVE Variables(_)
Variables(ty) ==
    (CASE ty.k = "var" -> {ty.var}
       [] ty.k \in {"struct", "table"} -> {ty.rest} \ {NoRest}
       [] OTHER -> {})
    \cup UNION {Variables(Parts(ty)[i]) : i \in DOMAIN Parts(ty)}

\* `rename`: a type with other variables.
RECURSIVE Renamed(_, _)
Renamed(ty, fresh) ==
    CASE ty.k = "var" -> Var(fresh[ty.var])
      [] ty.k \in {"struct", "table"} ->
            [Rebuilt(ty, [i \in DOMAIN Parts(ty) |-> Renamed(Parts(ty)[i], fresh)]) EXCEPT
                !.rest = IF @ = NoRest THEN NoRest ELSE fresh[@]]
      [] OTHER -> Rebuilt(ty, [i \in DOMAIN Parts(ty) |-> Renamed(Parts(ty)[i], fresh)])

\* `instantiate`: every use of a type has variables of its own.
Fresh(names, first) == [var \in Range(names) |-> first - 1 + (CHOOSE i \in DOMAIN names : names[i] = var)]
WithFresh(ty, names, now) ==
    [ty |-> Renamed(ty, Fresh(names, now.next)), subst |-> now.subst, next |-> now.next + Len(names)]
Copied(ty, now)      == WithFresh(ty, SetToSeq(Variables(ty)), now)
Instantiate(ty, now) == Copied(Zonk(now.subst, ty, InferDepth), now)

\* `learns`: a guess, or what nothing is known of.
Learns(ty, subst) == IsGuess(ty, subst, InferDepth) \/ Behind(subst, ty, InferDepth).k = "var"

\* Whether a call's parameter takes the argument, as far as the variables stand.
Takes(param, argument, subst) == Fits(argument, param, "Lenient", subst, Depth) # "No"

\* Mutant of Offered: every argument learns.
OfferedItself(argument, subst) == argument

\* An argument that is not to learn from a call meets its parameter as a copy.
Offered(argument, subst) == IF Learns(argument, subst) THEN argument ELSE Zonk(subst, argument, InferDepth)
Known(met) == [subst |-> met.subst, next |-> met.next]
Meets(param, argument, now) == Known(Unify(param, Offered(argument, now.subst), now, InferDepth))

\* `apply`: each argument meets its parameter, unless that rules it out.
Passed(param, argument, now) ==
    IF param = NoType \/ ~Takes(param, argument, now.subst) THEN now ELSE Meets(param, argument, now)
Apply(signature, arguments, now) ==
    FoldLeft(LAMBDA sofar, i : Passed(TakenAt(signature, i), arguments[i], sofar),
             Known(now), [i \in DOMAIN arguments |-> i])
----
(* What calls come to: `made` is those made so far, each with its arguments and the   *)
(* parameters, in variables of their own, that took them.                             *)

\* The calls with the variables they leave; only what every parameter takes counts.
Made(signature, arguments, own) ==
    [arguments |-> arguments, gives |-> signature.gives,
     params |-> [i \in DOMAIN arguments |-> TakenAt(signature, i)],
     taken |-> \A i \in DOMAIN arguments :
                   Takes(TakenAt(signature, i), arguments[i], Apply(signature, SubSeq(arguments, 1, i - 1), own).subst)]
CalledOwn(own, arguments, made) ==
    [made |-> Append(made, Made(own.ty, arguments, own)), now |-> Apply(own.ty, arguments, own)]
Called(signature, arguments, made, now) == CalledOwn(Instantiate(signature, now), arguments, made)

\* What a local has settled on, no variable left in it and no guess, is what it stays.
Stays(settled) == Variables(settled[1]) # {} \/ settled[2] = settled[1]
SettledStays(var, was, now) ==
    Learns(Var(var), was.subst)
    \/ Stays(<<Zonk(was.subst, Var(var), InferDepth), Zonk(now.subst, Var(var), InferDepth)>>)

\* Whether anything in a type is not known: a variable, or what may be any value.
RECURSIVE PartOf(_, _)
PartOf(ty, part) == ty = part \/ \E i \in DOMAIN Parts(ty) : PartOf(Parts(ty)[i], part)
IsKnown(ty) == Variables(ty) = {} /\ ~PartOf(ty, any)

\* An argument its parameter took is not ruled out by anything learnt since; and one
\* passed where any type goes is of the type that place has come to, unless that is a
\* guess.
Covers(param, argument, values) ==
    IsKnown(argument) => OfType(values, Listed(argument)) \subseteq OfType(values, param)
CallsStand(made, now, values) ==
    \A i \in DOMAIN made : made[i].taken =>
        \A j \in DOMAIN made[i].params :
            /\ Takes(made[i].params[j], made[i].arguments[j], now.subst)
            /\ made[i].params[j].k = "var" =>
                  Covers(Zonk(now.subst, made[i].params[j], InferDepth),
                         Zonk(now.subst, made[i].arguments[j], InferDepth), values)
=============================================================================
