---------------------------------- MODULE Walk ----------------------------------
(* Inference walking the forms of a function whose tests say something of its      *)
(* locals (types/infer/narrowing.rs, control.rs): the types the branches of an      *)
(* `if`, a `when`, a `cond`, a `case` or a `match` put in place, what ends with     *)
(* them, and `set`, which undoes them. Beside the types the walk keeps `reach`: the *)
(* values the locals can have where it stands when the program runs. The forms are  *)
(* chosen as the walk goes; a test and an argument of `set` change no local.         *)
(*                                                                                  *)
(* What types are is left to Narrowing.tla, and given to CONSTANTS here: what a test *)
(* says they become, and what values are of them.                                   *)
EXTENDS Facts, SequencesExt, FiniteSetsExt

CONSTANTS
    Local,              \* the locals of the function
    Declared,           \* the types a local can start with
    Value,              \* the values there are
    Absent,             \* the one that is nothing, `nil`
    Assigned,           \* those the program gives a local
    Test,               \* the tests there are
    Pattern,            \* the tests a `match` makes besides
    IsOf(_, _),         \* whether a value is of a type
    Passes(_, _),       \* whether values of the locals pass a test, when the program runs
    TestSides(_, _),    \* the facts where a test holds and where it does not, by what locals are
    Widen(_, _),        \* a type with a value besides
    Supplied(_, _, _),  \* the facts where a local that was nil is a value
    MaxNarrowed,        \* bound: how many narrowings are in place at once
    Nesting,            \* bound: how deep forms are in one another
    Overwriting         \* whether the branch that goes on may assign what its `if` tested

\* What a program assigns is among its values.
WalkAssumption == Assigned \subseteq Value /\ MaxNarrowed \in Nat /\ Nesting \in Nat

VARIABLES
    mutable,    \* the locals a `var` defines, which `set` can assign; the others are not
    locals,     \* the type of each local
    narrowed,   \* what a local was before a branch narrowed it, the oldest first
    forms,      \* the forms the walk is in, innermost last
    stops,      \* whether the last form of the sequence never returns
    reach       \* the values of the locals a run can be here with

vars == <<mutable, locals, narrowed, forms, stops, reach>>

Where(test)    == {env \in reach : Passes(test, env)}
WhereNot(test) == {env \in reach : ~Passes(test, env)}

----
(* The walk.                                                                    *)

Now == [types |-> locals, stack |-> narrowed]
InPlace(now) == Len(now.stack) <= MaxNarrowed /\ locals' = now.types /\ narrowed' = now.stack
Form == Last(forms)
Within(form) == [forms EXCEPT ![Len(forms)] = form]

Init ==
    /\ mutable \in SUBSET Local
    /\ locals \in [Local -> Declared]
    /\ reach = {env \in [Local -> Value] : \A x \in Local : IsOf(env[x], locals[x])}
    /\ narrowed = <<>>
    /\ forms = <<>>
    /\ stops = FALSE

\* A form with parts begins: `mark` is where what it narrows starts, `facts` what is
\* left to put in place for its other part, `others` the values that go there, `out`
\* those it has been left with; `nevers`, whether none of its parts so far returned.
Begins(kind, facts, others) ==
    /\ Len(forms) < Nesting
    /\ forms' = Append(forms, [kind |-> kind, mark |-> Len(narrowed), facts |-> facts, others |-> others,
                               out |-> {}, nevers |-> TRUE, assigned |-> {}])
    /\ stops' = FALSE

\* `if_` and `when_`, up to the branch the condition holds in; `if-not` and
\* `when-not` are these with the condition negated.
Branch(kind, facts, test) ==
    /\ Begins(kind, facts, WhereNot(test))
    /\ InPlace(Put(Now, facts[1]))
    /\ reach' = Where(test)
If(kind, test) == kind \in {"if", "when"} /\ Branch(kind, TestSides(test, Now), test)

\* The other branch of an `if`.
Else ==
    /\ forms # <<>> /\ Form.kind = "if"
    /\ InPlace(Put(Restored(Now, Form.mark), Form.facts[2]))
    /\ forms' = Within([Form EXCEPT !.kind = "else", !.out = reach, !.others = {}, !.nevers = stops])
    /\ reach' = Form.others
    /\ stops' = FALSE

Ends(now, out, returns) ==
    /\ InPlace(now)
    /\ forms' = [i \in 1 .. Len(forms) - 1 |-> [forms[i] EXCEPT !.assigned = @ \cup Form.assigned]]
    /\ reach' = out
    /\ stops' = ~returns

\* `branches`: where a branch never returns, what the other one runs under stays for
\* the rest of the sequence. Not `Overwriting`: no local that a branch assigned, whichever
\* of the two, is given a fact back; wider than the case that goes wrong.
EndIf ==
    /\ forms # <<>> /\ Form.kind \in {"if", "else"}
    /\ LET then  == IF Form.kind = "if" THEN stops ELSE Form.nevers
           other == Form.kind = "else" /\ stops
           stays == IF then = other THEN <<>> ELSE Form.facts[IF then THEN 2 ELSE 1]
       IN  /\ Overwriting \/ Form.kind = "if" \/ Form.assigned = {} \/ stays = <<>>
           /\ Ends(Put(Restored(Now, Form.mark), stays), Form.out \cup reach \cup Form.others, ~(then /\ other))

\* `when_`, after its body.
EndWhen ==
    /\ forms # <<>> /\ Form.kind = "when"
    /\ Ends(Put(Restored(Now, Form.mark), IF stops THEN Form.facts[2] ELSE <<>>), reach \cup Form.others, TRUE)

\* `cond`, and so `case` and `match`, up to the first clause.
Cond ==
    /\ Begins("cond", <<<<>>, <<>>>>, {})
    /\ UNCHANGED <<locals, narrowed, reach>>

\* A clause: the branch its test guards.
Clause(test) ==
    /\ forms # <<>> /\ Form.kind = "cond"
    /\ Branch("clause", TestSides(test, Now), test)

\* A clause that did not match leaves the ones after it what it ruled out.
EndClause ==
    /\ forms # <<>> /\ Form.kind = "clause"
    /\ InPlace(Put(Restored(Now, Form.mark), Form.facts[2]))
    /\ LET cond == forms[Len(forms) - 1]
       IN  forms' = Append(SubSeq(forms, 1, Len(forms) - 2),
                           [cond EXCEPT !.out = @ \cup reach, !.nevers = @ /\ stops,
                                        !.assigned = @ \cup Form.assigned])
    /\ reach' = Form.others
    /\ stops' = FALSE

\* The last clause is done, and the default after it, if there is one.
EndCond ==
    /\ forms # <<>> /\ Form.kind = "cond"
    /\ Ends(Restored(Now, Form.mark), Form.out \cup reach,
            ~(Form.nevers /\ stops))

\* `chain`: each test of an `and`, or of an `or`, narrows the ones after it.
Chain(kind) ==
    /\ kind \in {"and", "or"}
    /\ Begins(kind, <<<<>>, <<>>>>, {})
    /\ UNCHANGED <<locals, narrowed, reach>>

Argument(test) ==
    /\ forms # <<>> /\ Form.kind \in {"and", "or"}
    /\ InPlace(Put(Now, TestSides(test, Now)[IF Form.kind = "and" THEN 1 ELSE 2]))
    /\ reach' = IF Form.kind = "and" THEN Where(test) ELSE WhereNot(test)
    /\ forms' = Within([Form EXCEPT !.out = @ \cup IF Form.kind = "and" THEN WhereNot(test) ELSE Where(test)])
    /\ UNCHANGED stops

EndChain ==
    /\ forms # <<>> /\ Form.kind \in {"and", "or"}
    /\ Ends(Restored(Now, Form.mark), Form.out \cup reach, TRUE)

\* No form but a test is an argument of a chain.
InSequence == ~(forms # <<>> /\ Form.kind \in {"and", "or"})
Sequel == stops' = FALSE /\ InSequence

\* What the branches around put back is what was assigned as well.
Widened(x, widened) ==
    [i \in DOMAIN narrowed |-> IF narrowed[i].local = x THEN [narrowed[i] EXCEPT !.was = widened] ELSE narrowed[i]]

\* `set_`: the local is what it was before anything narrowed it, or what is assigned,
\* and stays that after the branches around.
Narrowings(x) == {i \in DOMAIN narrowed : narrowed[i].local = x}
\* Mutant of Widest: a local is what the innermost branch made of it.
WidestNow(x) == locals[x]
Widest(x) == IF Narrowings(x) = {} THEN locals[x] ELSE narrowed[Min(Narrowings(x))].was
Set(x, value) ==
    LET widened == Widen(Widest(x), value)
    IN  /\ Sequel
        /\ x \in mutable
        /\ locals' = [locals EXCEPT ![x] = widened]
        /\ narrowed' = Widened(x, widened)
        /\ forms' = [i \in DOMAIN forms |-> [forms[i] EXCEPT !.assigned = @ \cup {x}]]
        /\ reach' = {[env EXCEPT ![x] = value] : env \in reach}

\* `assert`: what the test says holds for the rest of the sequence.
Assertion(test) ==
    /\ Sequel
    /\ InPlace(Put(Now, TestSides(test, Now)[1]))
    /\ reach' = Where(test)
    /\ UNCHANGED forms

\* `default`: a local is what it was besides `nil`, or the value. It defines the name
\* again, for what follows of the body of the function.
Default(x, value) ==
    /\ Sequel
    /\ forms = <<>> /\ x \notin mutable
    /\ InPlace(Put(Now, Supplied(Now, x, value)))
    /\ reach' = {[env EXCEPT ![x] = IF @ = Absent THEN value ELSE @] : env \in reach}
    /\ UNCHANGED forms

\* `error`, `break`: the form never returns.
Error ==
    /\ InSequence
    /\ stops' = TRUE
    /\ reach' = {}
    /\ UNCHANGED <<locals, narrowed, forms>>

Step ==
    \/ \E kind \in {"if", "when"}, test \in Test : InSequence /\ If(kind, test)
    \/ Else \/ EndIf \/ EndWhen
    \/ InSequence /\ Cond
    \/ \E test \in Test \cup Pattern : Clause(test)
    \/ EndClause \/ EndCond
    \/ \E kind \in {"and", "or"} : InSequence /\ Chain(kind)
    \/ \E test \in Test : Argument(test)
    \/ EndChain
    \/ \E x \in Local, value \in Assigned : Set(x, value) \/ Default(x, value)
    \/ \E test \in Test : Assertion(test)
    \/ Error

Next == Step /\ UNCHANGED mutable

Spec == Init /\ [][Next]_vars

----
\* Whether values of the locals are of their types.
OfTypes(env) == \A x \in Local : IsOf(env[x], locals[x])

\* Whatever a run can have in a local where the walk stands is of the local's type:
\* a narrowing that outlives its branch, or one a `set` does not undo, reports code
\* that is right and misses code that is wrong. A guess is held to what it guesses.
LocalsHold == \A env \in reach : OfTypes(env)

----
(* What the walk takes from the types, where it stands: the sides of a test say      *)
(* what is so there, a type widened by a value has it and all it had.                *)

AreFacts(facts) ==
    /\ facts \in Seq({[local |-> facts[i].local, ty |-> facts[i].ty] : i \in DOMAIN facts})
    /\ \A i \in DOMAIN facts : facts[i].local \in Local
Satisfies(env, facts) == \A i \in DOMAIN facts : IsOf(env[facts[i].local], facts[i].ty)

SidesHold(test, envs) ==
    LET sides == TestSides(test, Now)
    IN  /\ sides = <<sides[1], sides[2]>> /\ AreFacts(sides[1]) /\ AreFacts(sides[2])
        /\ \A env \in envs : Satisfies(env, sides[IF Passes(test, env) THEN 1 ELSE 2])

WideningHolds(x, value) ==
    LET widened == Widen(Widest(x), value)
    IN  \A v \in Value : v = value \/ IsOf(v, Widest(x)) => IsOf(v, widened)

DefaultHolds(x, value) ==
    LET facts == Supplied(Now, x, value)
        ty    == Put(Now, facts).types[x]
    IN  /\ AreFacts(facts) /\ Len(facts) <= 1
        /\ \A i \in DOMAIN facts : facts[i].local = x
        /\ \A v \in Value : IsOf(v, locals[x]) => IsOf(IF v = Absent THEN value ELSE v, ty)

TestsHere == Test \cup (IF forms # <<>> /\ Form.kind = "cond" THEN Pattern ELSE {})
TypesSound ==
    LET envs == {env \in [Local -> Value] : OfTypes(env)}
    IN  /\ \A test \in TestsHere : SidesHold(test, envs)
        /\ \A x \in mutable, value \in Assigned : WideningHolds(x, value)
        /\ forms = <<>> => \A x \in Local \ mutable, value \in Assigned : DefaultHolds(x, value)
=============================================================================
