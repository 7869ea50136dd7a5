------------------------------- MODULE MCWorker -------------------------------
(* Worker.tla on small instances, for TLC: a module, one that may import it, a *)
(* program that may import it too, and a buffer that imports the second.        *)
EXTENDS Worker, TLC

CONSTANTS
    leaf, branch, host,         \* files
    plain, other, usesLeaf,     \* what they say
    first,                      \* what the buffer says
    globals                     \* ambient names

MCSays == (leaf :> {plain, other}) @@ (branch :> {usesLeaf}) @@ (host :> {plain, usesLeaf})

MCImports == (plain :> <<>>) @@ (other :> <<>>) @@ (usesLeaf :> <<leaf>>) @@ (first :> <<branch>>)

Bare     == [ambient |-> None, program |-> <<>>]
Hosted   == [ambient |-> None, program |-> <<host>>]
Declared == [ambient |-> globals, program |-> <<>>]
MCSetting == {Bare, Hosted, Declared}

MCInit ==
    /\ Init
    /\ disk[leaf].text = plain /\ disk[branch].text = usesLeaf /\ IsThere(host)

MCSpec == MCInit /\ [][Next]_vars
=============================================================================
