------------------------------- MODULE Narrow -------------------------------
(* What a test says of the type of what it tests (analysis/types/narrow.rs): the *)
(* type where the test holds and the type where it does not. A value never        *)
(* leaves the side its test puts it on: what is wrong here hides an error or      *)
(* reports one in a branch that is never taken. No variable of the types stands   *)
(* for anything.                                                                  *)
EXTENDS Fit

CanBe(actual, expected) == Fits(actual, expected, "Lenient", NoSubst, Depth) # "No"

Atoms(names) == Or(SetToSeq({Keyword(name) : name \in names}))

\* `atom_of`: what `(type x)` answers for a type, NoKind where it is too vague.
RECURSIVE AtomOf(_, _)
AtomOf(ty, depth) ==
    CASE depth = 0 -> NoKind
      [] depth > 0 /\ ty.k = "named" -> AtomOf(Expand(ty.name, ty.args), depth - 1)
      [] OTHER -> KindOf(ty)

\* `members`: the types a value can have, one member of a union at a time.
RECURSIVE Members(_)
Members(ty) ==
    CASE ty.k \in {"or", "open"} -> FlattenSeq([i \in DOMAIN ty.items |-> Members(ty.items[i])])
      [] ty.k = "nullable" -> Append(Members(ty.of), nil)
      [] OTHER -> <<ty>>

\* `spread`: as `members`, a named union taken apart too.
RECURSIVE Spread(_, _)
SpreadNamed(ty, of, depth) ==
    IF depth > 0 /\ of.k \in {"or", "open", "nullable"} THEN Spread(of, depth - 1) ELSE <<ty>>
Spread(ty, depth) ==
    CASE ty.k \in {"or", "open"} -> FlattenSeq([i \in DOMAIN ty.items |-> Spread(ty.items[i], depth)])
      [] ty.k = "nullable" -> Append(Spread(ty.of, depth), nil)
      [] ty.k = "named" -> SpreadNamed(ty, Expand(ty.name, ty.args), depth)
      [] OTHER -> <<ty>>

\* `is_open`: whether it may hold a member nobody listed.
RECURSIVE IsOpen(_, _)
IsOpen(ty, depth) ==
    CASE ty.k = "open" -> TRUE
      [] ty.k = "or" -> \E i \in DOMAIN ty.items : IsOpen(ty.items[i], depth)
      [] ty.k = "nullable" -> IsOpen(ty.of, depth)
      [] ty.k = "named" /\ depth > 0 -> IsOpen(Expand(ty.name, ty.args), depth - 1)
      [] OTHER -> FALSE

\* A side put together: with nothing kept it is the whole again, with all of it too,
\* name and all; an open type stays open.
OrAll(kept, ty)          == IF kept = <<>> THEN ty ELSE Unions(kept)
Narrowed(kept, whole, ty) == IF kept = whole THEN ty ELSE OrAll(kept, ty)
Reopened(ty, open)       == IF open THEN Unions(<<Open(<<ty>>)>>) ELSE ty
Opened(side, ty, open) == IF side = ty THEN ty ELSE Reopened(side, open)
ReopenedUnless(kept, whole, ty, open) == Opened(Narrowed(kept, whole, ty), ty, open)

\* A type of one value.
IsSingular(ty) == ty = nil \/ IsLiteral(ty)

----
(* Predicates: `(string? x)`.                                                   *)

\* Mutant of HoldsOf: what is too vague to say is taken for not.
HoldsSurely(member, names) == IF AtomOf(member, Depth) \in names THEN "yes" ELSE "no"

\* `holds`: whether a test for these atoms holds of a member: yes, no or unknown.
HoldsOf(member, names) ==
    CASE AtomOf(member, Depth) = NoKind -> "unknown"
      [] AtomOf(member, Depth) \in names -> "yes"
      [] OTHER -> "no"

\* `split`: where a test for these atoms, `:any` not among them, holds and where it
\* does not.
Wanted(names) == IF Cardinality(names) = 1 THEN Keyword(CHOOSE name \in names : TRUE) ELSE Atoms(names)
SplitInto(ty, held, rest, open) ==
    <<Reopened(OrAll(held, ty), open), Reopened(OrAll(rest, ty), open)>>
SplitBy(ty, all, holds, want) ==
    LET at(which) == SelectSeq([i \in DOMAIN all |-> i], LAMBDA i : holds[i] # which)
        held == [n \in DOMAIN at("no") |-> IF holds[at("no")[n]] = "yes" THEN all[at("no")[n]] ELSE want]
    IN  IF ty.k = "open" /\ held = <<>> THEN <<want, ty>>
        ELSE SplitInto(ty, held, [n \in DOMAIN at("yes") |-> all[at("yes")[n]]], ty.k = "open")
SplitAll(ty, all, names) == SplitBy(ty, all, [i \in DOMAIN all |-> HoldsOf(all[i], names)], Wanted(names))
Split(ty, names) == SplitAll(ty, Members(ty), names)

\* `falsy`: what an `and` can stop at; NoType when every member is true.
Falsy(ty) ==
    LET kept == SelectSeq(Members(ty), LAMBDA member : HoldsOf(member, {"nil", "boolean"}) # "no")
    IN  IF IsOpen(ty, Depth) THEN ty ELSE IF kept = <<>> THEN NoType ELSE Unions(kept)

----
(* Equality and patterns, by the keys on the way: `(= ((x :a) :b) value)`.       *)

\* What a key written as a number is: the position it reads.
Position == [first |-> 1, second |-> 2]

\* `at`: what a member holds at a key, NoType when its type does not say.
RECURSIVE HeldAt(_, _, _)
HeldAt(member, key, depth) ==
    CASE member.k = "struct" ->
            CASE key \in DOMAIN member.fields -> member.fields[key]
              [] key \notin DOMAIN member.fields /\ member.rest = NoRest -> nil
              [] OTHER -> NoType
      [] member.k = "dict" -> member.value
      [] member.k = "tuple" ->
            CASE key \notin DOMAIN Position -> NoType
              [] key \in DOMAIN Position /\ Len(member.items) = 1 -> member.items[1]
              [] key \in DOMAIN Position /\ Len(member.items) # 1 /\ Position[key] <= Len(member.items) ->
                    member.items[Position[key]]
              [] OTHER -> NoType
      [] member.k = "named" /\ depth > 0 -> HeldAt(Expand(member.name, member.args), key, depth - 1)
      [] OTHER -> IF member = nil THEN nil ELSE NoType

\* `shape_of`: the form a member is, NoType for anything else.
RECURSIVE ShapeOf(_, _)
ShapeOf(member, depth) ==
    CASE member.k = "struct" -> member
      [] member.k = "named" /\ depth > 0 -> ShapeOf(Expand(member.name, member.args), depth - 1)
      [] OTHER -> NoType

\* `holding`: a member with another type at a key; as it was when nothing changed.
Holding(member, key, found, narrowed) ==
    LET form == ShapeOf(member, Depth)
    IN  IF narrowed = found \/ form = NoType THEN member
        ELSE [form EXCEPT !.fields = [name \in DOMAIN @ |-> IF name = key THEN narrowed ELSE @[name]]]

\* `tagged`: a form with these keys and whatever else.
AnyRest == 100
Tagged(fields) == Struct(fields, AnyRest)

\* A member at the end of the path: the value can be there, and so can something else.
AtEnd(member, there, kept, value) ==
    <<IF CanBe(value, there) THEN <<kept>> ELSE <<>>,
      IF there = value /\ IsSingular(value) THEN <<>> ELSE <<member>>>>

\* The sides of what a member holds at a key, each in the member again.
Back(member, key, there, inner, sides) ==
    <<IF sides[1] = <<>> THEN <<>>
      ELSE <<Holding(member, key, there, Narrowed(sides[1], inner, there))>>,
      IF sides[2] = <<>> THEN <<>>
      ELSE <<Holding(member, key, there, ReopenedUnless(sides[2], inner, there, IsOpen(there, Depth)))>>>>

RECURSIVE Sides(_, _, _)
AlongPath(member, there, keys, value) ==
    CASE there = NoType -> <<<<member>>, <<member>>>>
      [] there # NoType /\ Len(keys) = 1 -> AtEnd(member, there, member, value)
      [] OTHER -> Back(member, Head(keys), there, Spread(there, Depth), Sides(there, Tail(keys), value))
MemberSides(member, keys, value) ==
    IF keys = <<>> THEN AtEnd(member, member, value, value)
    ELSE AlongPath(member, HeldAt(member, Head(keys), Depth), keys, value)

\* The members of each side; an open type none of whose members can hold the value is a
\* form nobody listed.
Gathered(each, unlisted) ==
    LET side(n) == FlattenSeq([i \in DOMAIN each |-> each[i][n]])
    IN  <<IF side(1) = <<>> THEN unlisted ELSE side(1), side(2)>>

\* `sides`: the members where `(= path value)` holds, and where it does not.
Unlisted(keys, value) == FoldRight(LAMBDA key, inner : Tagged(key :> inner), keys, value)
EachSide(members, keys, value) == [i \in DOMAIN members |-> MemberSides(members[i], keys, value)]
Sides(ty, keys, value) ==
    Gathered(EachSide(Spread(ty, Depth), keys, value),
             IF IsOpen(ty, Depth) THEN <<Unlisted(keys, value)>> ELSE <<>>)

\* `equal`: the type where `(= path value)` holds, and where it does not.
BothSides(ty, whole, sides) ==
    <<Narrowed(sides[1], whole, ty), ReopenedUnless(sides[2], whole, ty, IsOpen(ty, Depth))>>
Equal(ty, keys, value) == BothSides(ty, Spread(ty, Depth), Sides(ty, keys, value))

\* `shaped`: the type where a struct pattern of these keys matches, each with the
\* literal written for it or NoType.
Shaped(ty, pattern) ==
    LET whole == Spread(ty, Depth)
        open  == IsOpen(ty, Depth)
        matches(member) ==
            /\ AtomOf(member, Depth) \in {NoKind, "struct", "table"}
            /\ \A key \in DOMAIN pattern :
                  LET there == HeldAt(member, key, Depth)
                  IN  \/ there = NoType
                      \/ pattern[key] # NoType /\ CanBe(pattern[key], there)
                      \/ pattern[key] = NoType /\ there # nil
        held     == SelectSeq(whole, matches)
        literals == {key \in DOMAIN pattern : pattern[key] # NoType}
    IN  CASE open /\ held = <<>> /\ literals # {} -> Tagged([key \in literals |-> pattern[key]])
          [] open /\ held # <<>> /\ literals = {} -> Reopened(Narrowed(held, whole, ty), TRUE)
          [] OTHER -> Narrowed(held, whole, ty)

----
(* What a `case` has to name.                                                   *)

\* `keywords`: the keywords a member is, in no order; nothing for another type.
NoTags == {}
RECURSIVE KeywordsOf(_, _)
KeywordsOf(member, depth) ==
    CASE IsLiteral(member) -> {member.name}
      [] member.k = "enum" -> member.values
      [] member.k = "named" /\ depth > 0 -> KeywordsOf(Expand(member.name, member.args), depth - 1)
      [] OTHER -> NoTags

\* `tags`: the keywords a closed union is, when it is nothing else and of several.
TagsOf(each) ==
    LET count == FoldLeft(LAMBDA sum, tags : sum + Cardinality(tags), 0, each)
    IN  IF NoTags \in Range(each) \/ count < 2 THEN NoTags ELSE UNION Range(each)
EachTags(members) == TagsOf([i \in DOMAIN members |-> KeywordsOf(members[i], Depth)])
Tags(ty) == IF IsOpen(ty, Depth) THEN NoTags ELSE EachTags(Spread(ty, Depth))

RECURSIVE IsTuple(_, _)
IsTuple(member, depth) ==
    CASE member.k = "tuple" -> TRUE
      [] member.k = "named" /\ depth > 0 -> IsTuple(Expand(member.name, member.args), depth - 1)
      [] OTHER -> FALSE

\* The keys a member may be told by, by position if it is a tuple.
KeysTold(tuple, form) ==
    CASE tuple -> {"first"}
      [] ~tuple /\ form # NoType -> DOMAIN form.fields
      [] OTHER -> {}
KeysOf(members) == [i \in DOMAIN members |-> KeysTold(IsTuple(members[i], Depth), ShapeOf(members[i], Depth))]

\* `discriminant`: a key each member of a closed union of forms or of tuples holds a
\* keyword of its own at, and the keywords; NoType where there is none. (Which one, of
\* several, the order the keys are written in decides.)
Told(held) ==
    LET telling == {key \in DOMAIN held : IsInjective(held[key]) /\ \A i \in DOMAIN held[key] : IsLiteral(held[key][i])}
        key     == CHOOSE key \in telling : TRUE
    IN  IF telling = {} THEN NoType
        ELSE [key |-> key, tags |-> {held[key][i].name : i \in DOMAIN held[key]}]
HeldBy(members, keys) ==
    [key \in keys |-> [i \in DOMAIN members |-> HeldAt(members[i], key, Depth)]]
Formed(members, keys) ==
    IF Len(members) < 2 \/ {} \in Range(keys) THEN NoType ELSE Told(HeldBy(members, keys[1]))
DiscriminantOf(members) == Formed(members, KeysOf(members))
Discriminant(ty) == IF IsOpen(ty, Depth) THEN NoType ELSE DiscriminantOf(Spread(ty, Depth))

----
(* What the sides have to hold.                                                 *)

\* What a value holds at a key, and along a path of them.
Element(value, key) ==
    IF value.t = "tuple"
    THEN IF key \in DOMAIN Position /\ Position[key] <= Len(value.items)
         THEN value.items[Position[key]] ELSE Nil
    ELSE Get(value, key)
Along(value, keys) == FoldLeft(Element, value, keys)

Matches(value, pattern) ==
    /\ value.t \in {"struct", "table"}
    /\ \A key \in DOMAIN pattern :
          Get(value, key) # Nil /\ (pattern[key] = NoType \/ Member(Get(value, key), pattern[key]))

\* A value is of the type of the side its test puts it on; one that an open union does
\* not list, wherever the test does not single it out.
SplitHolds(ty, names, values) ==
    LET sides == Split(ty, names)
    IN  \A v \in values : Member(v, Listed(ty)) \/ ty.k = "open" =>
            Member(v, sides[IF v.t \in names THEN 1 ELSE 2])

EqualHolds(ty, keys, literal, values) ==
    LET sides == Equal(ty, keys, literal)
    IN  \A v \in OfType(values, ty), written \in OfType(values, literal) :
            LET is == Along(v, keys) = written
            IN  Member(v, Listed(ty)) \/ ~is => Member(v, sides[IF is THEN 1 ELSE 2])

ShapedHolds(ty, pattern, values) ==
    \A v \in OfType(values, Listed(ty)) : Matches(v, pattern) => Member(v, Shaped(ty, pattern))

\* What an `and` stops at is among what may be false; the keywords a `case` has to name
\* are all there are; and a discriminant tells the members apart: one of them is left.
FalsyHolds(given, falsy) == \A v \in given \cap {Nil, False} : falsy # NoType /\ Member(v, falsy)
TagsListed(given, tags) == tags # NoTags => given = {Word(tag) : tag \in tags}
Discriminates(ty, given, found) ==
    found # NoType =>
        /\ {Element(v, found.key) : v \in given} = {Word(tag) : tag \in found.tags}
        /\ \A tag \in found.tags, v \in given :
              Member(v, Equal(ty, <<found.key>>, Keyword(tag))[1]) <=> Element(v, found.key) = Word(tag)

TagsHold(ty, values) ==
    /\ FalsyHolds(OfType(values, ty), Falsy(ty))
    /\ TagsListed(OfType(values, ty), Tags(ty))
    /\ Discriminates(ty, OfType(values, ty), Discriminant(ty))
=============================================================================
