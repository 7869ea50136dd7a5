-------------------------------- MODULE Types --------------------------------
(* The types of janet-check (analysis/types.rs) and the unions inference builds *)
(* with them (types/infer/unions.rs), against what they are for: a type stands  *)
(* for the values `Member` says. Types are records told apart by `k`; a variable *)
(* is a number, names are strings. How a type is written and printed is left out. *)
EXTENDS Integers, Sequences, FiniteSets, SequencesExt

CONSTANTS
    Width,      \* WIDTH: the members of a union before it is `:any`, 64 there
    Typedefs    \* by name, the parameters of a `:typedef` and the type they are put in

Atom == {"nil", "boolean", "number", "string", "keyword", "function", "tuple", "array", "struct",
         "table", "any", "never"}

Keyword(name)    == [k |-> "keyword", name |-> name]
Var(var)         == [k |-> "var", var |-> var]
Nullable(of)     == [k |-> "nullable", of |-> of]
Dynamic(of)      == [k |-> "dynamic", of |-> of]
Tuple(items)     == [k |-> "tuple", items |-> items]
Array(items)     == [k |-> "array", items |-> items]
Or(items)        == [k |-> "or", items |-> items]
Open(items)      == [k |-> "open", items |-> items]
Enum(values)     == [k |-> "enum", values |-> values]
Named(name, args) == [k |-> "named", name |-> name, args |-> args]
Dict(key, value) == [k |-> "dict", key |-> key, value |-> value]
\* A form with the types of these keys; with a rest, a variable, others as well.
NoRest == 0
Struct(fields, rest) == [k |-> "struct", fields |-> fields, rest |-> rest]
Table(fields, rest)  == [k |-> "table", fields |-> fields, rest |-> rest]
\* What it takes, one by one and then any number of, and what it gives.
NoType == [k |-> "none"]
Fn(params, more, gives) == [k |-> "fn", params |-> params, more |-> more, gives |-> gives]

nil   == Keyword("nil")
any   == Keyword("any")
never == Keyword("never")

IsLiteral(ty) == ty.k = "keyword" /\ ty.name \notin Atom

Keys(ty) == SetToSeq(DOMAIN ty.fields)

\* The types written directly in a type, in order.
Parts(ty) ==
    CASE ty.k \in {"nullable", "dynamic"} -> <<ty.of>>
      [] ty.k \in {"tuple", "array", "or", "open"} -> ty.items
      [] ty.k = "named" -> ty.args
      [] ty.k = "dict" -> <<ty.key, ty.value>>
      [] ty.k \in {"struct", "table"} -> [i \in DOMAIN Keys(ty) |-> ty.fields[Keys(ty)[i]]]
      [] ty.k = "fn" -> ty.params \o (IF ty.more = NoType THEN <<>> ELSE <<ty.more>>) \o <<ty.gives>>
      [] OTHER -> <<>>

\* The same type over other parts.
Rebuilt(ty, parts) ==
    CASE ty.k \in {"nullable", "dynamic"} -> [ty EXCEPT !.of = parts[1]]
      [] ty.k \in {"tuple", "array", "or", "open"} -> [ty EXCEPT !.items = parts]
      [] ty.k = "named" -> [ty EXCEPT !.args = parts]
      [] ty.k = "dict" -> Dict(parts[1], parts[2])
      [] ty.k \in {"struct", "table"} ->
            [ty EXCEPT !.fields = [key \in DOMAIN @ |-> parts[CHOOSE i \in DOMAIN parts : Keys(ty)[i] = key]]]
      [] ty.k = "fn" -> Fn(SubSeq(parts, 1, Len(ty.params)),
                           IF ty.more = NoType THEN NoType ELSE parts[Len(parts) - 1], Last(parts))
      [] OTHER -> ty

\* `substituted`: the variables of `bound` replaced; the rest of a form stays.
RECURSIVE Substituted(_, _)
Substituted(ty, bound) ==
    IF ty.k = "var"
    THEN IF ty.var \in DOMAIN bound THEN bound[ty.var] ELSE ty
    ELSE Rebuilt(ty, [i \in DOMAIN Parts(ty) |-> Substituted(Parts(ty)[i], bound)])

\* `apply`: a typedef applied to its arguments, `:any` for a bare name; nothing for
\* another number of them.
Expand(name, args) ==
    IF name \notin DOMAIN Typedefs THEN NoType
    ELSE LET vars  == Typedefs[name].vars
             bound == [var \in Range(vars) |->
                          IF args = <<>> THEN any
                          ELSE args[CHOOSE i \in DOMAIN vars : vars[i] = var]]
         IN  IF args = <<>> \/ Len(args) = Len(vars)
             THEN Substituted(Typedefs[name].of, bound) ELSE NoType

----
(* Values, and the types they are of. A value is told apart by `t`, what        *)
(* `(type x)` answers for it. What holds others is not empty: an empty tuple is  *)
(* of every type of tuples there is, and says nothing about any.                 *)

Nil        == [t |-> "nil"]
False      == [t |-> "boolean", is |-> "false"]
Word(name) == [t |-> "keyword", name |-> name]

\* What a form, or `nil`, holds at a key: `nil` where it has none.
Get(value, key) == IF value.t \in {"struct", "table"} /\ key \in DOMAIN value.at THEN value.at[key] ELSE Nil

RECURSIVE Member(_, _)

Each(values, items) ==
    IF Len(items) = 1 THEN \A i \in DOMAIN values : Member(values[i], items[1])
    ELSE Len(values) = Len(items) /\ \A i \in DOMAIN values : Member(values[i], items[i])

\* A function is called with as many arguments as it takes, those that may be `nil`
\* left out, and none it does not accept.
Answers(function, ty) ==
    /\ Len(ty.params) \in function.arities
    /\ \A i \in DOMAIN ty.params : \A v \in function.refuses : ~Member(v, ty.params[i])
    /\ Member(function.gives, ty.gives)

Member(value, ty) ==
    CASE ty.k = "keyword" ->
            IF ty.name \in Atom THEN ty.name = "any" \/ value.t = ty.name ELSE value = Word(ty.name)
      [] ty.k = "nullable" -> value = Nil \/ Member(value, ty.of)
      [] ty.k = "or" -> \E i \in DOMAIN ty.items : Member(value, ty.items[i])
      [] ty.k = "enum" -> value.t = "keyword" /\ value.name \in ty.values
      [] ty.k = "tuple" -> value.t = "tuple" /\ Each(value.items, ty.items)
      [] ty.k = "array" -> value.t = "array" /\ Each(value.items, ty.items)
      [] ty.k = "struct" ->
            /\ value.t = "struct"
            /\ \A key \in DOMAIN ty.fields : Member(Get(value, key), ty.fields[key])
            /\ ty.rest = NoRest => DOMAIN value.at \subseteq DOMAIN ty.fields
      [] ty.k = "table" ->
            value.t = "table" /\ \A key \in DOMAIN ty.fields : Member(Get(value, key), ty.fields[key])
      [] ty.k = "dict" ->
            /\ value.t = "struct" /\ DOMAIN value.at # {}
            /\ \A key \in DOMAIN value.at : Member(Word(key), ty.key) /\ Member(value.at[key], ty.value)
      [] ty.k = "fn" -> value.t = "function" /\ Answers(value, ty)
      [] ty.k = "named" -> Member(value, Expand(ty.name, ty.args))
      [] OTHER -> TRUE  \* nothing is ruled out: a variable, a guess, an open union, an unknown name

\* A type held to what it lists: a guess for what it guesses, an open union closed.
RECURSIVE Listed(_)
Listed(ty) ==
    CASE ty.k = "dynamic" -> Listed(ty.of)
      [] ty.k = "open" -> Listed(Or(ty.items))
      [] OTHER -> Rebuilt(ty, [i \in DOMAIN Parts(ty) |-> Listed(Parts(ty)[i])])

----
(* Unions in normal form.                                                       *)

\* `dynamic`: a guess, once; `:any` is one already.
Guessed(ty) == IF ty.k = "dynamic" \/ ty = any THEN ty ELSE Dynamic(ty)

\* `flatten`: members each once, whatever they are nested in, `:never` dropped.
RECURSIVE Flatten(_, _)
Flatten(flat, ty) ==
    CASE ty.k = "or" -> FoldLeft(Flatten, flat, ty.items)
      [] ty.k = "open" -> FoldLeft(Flatten, [flat EXCEPT !.open = TRUE], ty.items)
      [] ty.k = "nullable" -> Flatten(Flatten(flat, ty.of), nil)
      [] ty.k = "dynamic" -> Flatten([flat EXCEPT !.unwritten = TRUE], ty.of)
      [] ty = never \/ ty \in Range(flat.members) -> flat
      [] OTHER -> [flat EXCEPT !.members = Append(@, ty)]

\* Mutant of FoldListed: every literal beside an enum is taken for listed.
FoldAll(members) ==
    SelectSeq(members, LAMBDA ty : ~(IsLiteral(ty) /\ \E other \in Range(members) : other.k = "enum"))

\* `fold_listed`: a literal an `(enum ...)` alongside it lists is none of its own.
FoldListed(members) ==
    LET listed == UNION {members[i].values : i \in {j \in DOMAIN members : members[j].k = "enum"}}
    IN  SelectSeq(members, LAMBDA ty : ~(IsLiteral(ty) /\ ty.name \in listed))

\* `fold_literals`: too wide, the literals are one `(enum ...)`, where the first was.
FoldLiterals(members) ==
    LET literals == {i \in DOMAIN members : IsLiteral(members[i])}
        listed   == Enum({members[i].name : i \in literals})
        first    == CHOOSE i \in literals : \A j \in literals : i <= j
    IN  IF literals = {} THEN members
        ELSE SelectSeq([i \in DOMAIN members |-> IF i = first THEN listed ELSE members[i]],
                       LAMBDA ty : ~IsLiteral(ty))

\* `union_of`: `:any` swallows the rest, and a lone `nil` is the `?`.
UnionOf(members) ==
    LET rest     == SelectSeq(members, LAMBDA ty : ty # nil)
        nullable == nil \in Range(members)
    IN  CASE any \in Range(members) -> any
          [] nullable /\ rest = <<>> -> nil
          [] ~nullable /\ rest = <<>> -> never
          [] ~nullable /\ Len(rest) = 1 -> rest[1]
          [] nullable /\ Len(rest) = 1 -> Nullable(rest[1])
          [] ~nullable /\ Len(rest) > 1 -> Or(rest)
          [] nullable /\ Len(rest) > 1 -> Or(Append(rest, nil))

\* `open_of`: of nothing listed it is anything; `nil` stays a member.
OpenOf(members) == IF members = <<>> \/ any \in Range(members) THEN any ELSE Open(members)

Folded(listed) == IF Len(listed) > Width THEN FoldLiterals(listed) ELSE listed

\* What is too wide says nothing; a union of what somebody guessed is a guess.
Joined(flat, members) ==
    LET others == SelectSeq(flat.members, LAMBDA ty : ~IsLiteral(ty))
    IN  CASE Len(others) > Width \/ Len(members) > Width -> any
          [] flat.unwritten -> Guessed(IF flat.open THEN OpenOf(members) ELSE UnionOf(members))
          [] OTHER -> IF flat.open THEN OpenOf(members) ELSE UnionOf(members)

Flattened(types) == FoldLeft(Flatten, [members |-> <<>>, unwritten |-> FALSE, open |-> FALSE], types)
Normal(flat) == Joined(flat, Folded(FoldListed(flat.members)))
Unions(types) == Normal(Flattened(types))

\* A union holds what its members hold and, unless it has become `:any`, nothing
\* else; it is in normal form: taken apart and put together again it is the same.
UnionHolds(types, values) ==
    LET union == Unions(types)
    IN  /\ \A v \in values : (\E i \in DOMAIN types : Member(v, types[i])) => Member(v, union)
        /\ \A v \in values :
             Member(v, union) => union.k \in {"open", "dynamic"} \/ union = any
                                 \/ \E i \in DOMAIN types : Member(v, types[i])
        /\ Unions(<<union>>) = union
        /\ Unions(<<union>> \o types) = union
=============================================================================
