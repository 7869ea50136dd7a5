------------------------------- MODULE Facts -------------------------------
(* What a branch says of locals, put in place of what they were and taken back *)
(* (`narrow` and `restore` of types/infer/narrowing.rs). The types the locals    *)
(* have now come with a stack of what they were.                                 *)
EXTENDS Naturals, Sequences

\* A local gets a type, over the one it has.
PutOne(now, fact) ==
    [types |-> [now.types EXCEPT ![fact.local] = fact.ty],
     stack |-> Append(now.stack, [local |-> fact.local, was |-> now.types[fact.local]])]

\* `narrow`: facts put in place over what the locals were.
Put(now, facts) ==
    LET put[n \in 0 .. Len(facts)] == IF n = 0 THEN now ELSE PutOne(put[n - 1], facts[n])
    IN  put[Len(facts)]

\* Mutant of Restored: the oldest entry is put back first.
RestoredForward(now, mark) ==
    LET types[n \in mark .. Len(now.stack)] ==
            IF n = mark THEN now.types ELSE [types[n - 1] EXCEPT ![now.stack[n].local] = now.stack[n].was]
    IN  [types |-> types[Len(now.stack)], stack |-> SubSeq(now.stack, 1, mark)]

\* `restore`: what was narrowed since a mark is what it was, the latest first.
Restored(now, mark) ==
    LET types[n \in 0 .. Len(now.stack) - mark] ==
            LET entry == now.stack[Len(now.stack) - n + 1]
            IN  IF n = 0 THEN now.types ELSE [types[n - 1] EXCEPT ![entry.local] = entry.was]
    IN  [types |-> types[Len(now.stack) - mark], stack |-> SubSeq(now.stack, 1, mark)]
=============================================================================
