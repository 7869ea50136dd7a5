------------------------------ MODULE Narrowing ------------------------------
(* What the walk of inference over a function (Walk.tla) takes from the types: what  *)
(* tests and defaults say of its locals (types/infer/narrowing.rs). The constants of *)
(* the walk are these: TestSides is Tested, Passes Holds, Widen Widening, Supplied    *)
(* Defaulted, IsOf MemberOf and Absent Nil.                                          *)
EXTENDS Narrow, Walk

CONSTANT
    Literal         \* the values a program writes down, and the types they wear

----
(* What a test says.                                                            *)

\* `outside`: a type without the guess in front of it.
Outside(ty) == IF ty.k = "dynamic" THEN ty.of ELSE ty
\* `as_dynamic_as`: what is read out of a guess is a guess.
AsGuessedAs(source, ty) == IF source.k = "dynamic" THEN Guessed(ty) ELSE ty

\* `fact`: a local that is `ty`; nothing when that is what it is already.
Fact(now, x, ty) ==
    IF Outside(now.types[x]) = ty THEN <<>> ELSE <<[local |-> x, ty |-> AsGuessedAs(now.types[x], ty)]>>

\* The sides of a test of one local; only one of them says anything of some tests.
OneSided == {"some", "shape"}
SidesOf(test, was) ==
    CASE test.k = "some"  -> <<Split(was, {"nil"})[2], was>>
      [] test.k = "is"    -> Split(was, test.atoms)
      [] test.k = "equal" -> Equal(was, test.keys, Literal[test.value])
      [] test.k = "shape" -> <<Shaped(was, test.pattern), was>>
FactsOf(test, now, sides) ==
    <<Fact(now, test.local, sides[1]), IF test.k \in OneSided THEN <<>> ELSE Fact(now, test.local, sides[2])>>
Extended(sofar, facts) == [now |-> Put(sofar.now, facts), facts |-> sofar.facts \o facts]

\* `tested` and `equality`: the facts where a test holds and where it does not. Each
\* test of an `and` is read where the ones before it held; of those of an `or`, where
\* they did not.
RECURSIVE Tested(_, _)
Chained(parts, now, side) ==
    FoldLeft(LAMBDA sofar, part : Extended(sofar, Tested(part, sofar.now)[side]),
             [now |-> now, facts |-> <<>>], parts).facts
Swapped(facts) == <<facts[2], facts[1]>>
BySide(test, facts) == IF test.k = "and" THEN <<facts, <<>>>> ELSE <<<<>>, facts>>
Tested(test, now) ==
    CASE test.k = "not" -> Swapped(Tested(test.of, now))
      [] test.k \in {"and", "or"} -> BySide(test, Chained(test.parts, now, IF test.k = "and" THEN 1 ELSE 2))
      [] OTHER -> FactsOf(test, now, SidesOf(test, Outside(now.types[test.local])))

\* Whether a test holds of some values of the locals, when the program runs.
RECURSIVE Holds(_, _)
Holds(test, env) ==
    LET value == env[test.local]
    IN  CASE test.k = "some"  -> value \notin {Nil, False}
          [] test.k = "is"    -> value.t \in test.atoms
          [] test.k = "equal" -> Along(value, test.keys) = test.value
          [] test.k = "shape" -> Matches(value, test.pattern)
          [] test.k = "not"   -> ~Holds(test.of, env)
          [] test.k = "and"   -> \A i \in DOMAIN test.parts : Holds(test.parts[i], env)
          [] test.k = "or"    -> \E i \in DOMAIN test.parts : Holds(test.parts[i], env)

\* `without_nil`: what an `or` goes on with is what it is besides `nil`.
RECURSIVE WithoutNil(_)
WithoutNil(ty) ==
    AsGuessedAs(ty, IF Outside(ty).k = "nullable" THEN WithoutNil(Outside(ty).of)
                    ELSE Split(Outside(ty), {"nil"})[2])

\* `default`: a local is what it was besides `nil`, or the value.
Defaulted(now, x, value) == Fact(now, x, Unions(<<WithoutNil(now.types[x]), Literal[value]>>))

\* `unions`, as `set` widens a type by what is assigned.
Widening(ty, value) == Unions(<<ty, Literal[value]>>)

\* Whether a value is of a type; a guess is held to what it guesses.
MemberOf(value, ty) == Member(value, Listed(ty))
=============================================================================
