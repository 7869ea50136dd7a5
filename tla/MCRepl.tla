-------------------------------- MODULE MCRepl --------------------------------
(* The REPL of a project on small instances, for TLC: how its clients find the *)
(* server (Record.tla), or what two of them have it do (Repl.tla). The two are *)
(* checked side by side: a behaviour is of one part or the other.              *)
EXTENDS Repl, Record, TLC

CONSTANTS
    k1, k2,
    lsp, app,
    Racing,     \* whether a line may be typed while its evaluation is interrupted
    Sharing,    \* whether evaluations that ask share the slot for their lines
    Usurping    \* whether a stranger takes the port of a server that is starting

VARIABLE part  \* "record" or "evaluations"

ASSUME RecordAssumption

MCProjectOf == [c \in Client |-> app]

MCRequests == [k \in Kernel |-> IF k = k1 THEN 2 ELSE 1]
MCPrints == [k \in Kernel |-> IF k = k1 THEN 2 ELSE 1]

\* Lookups have nothing to do with the other connections: they come first.
LookupsFirst ==
    \A k \in Kernel : request'[k] # request[k] => lookup.number = MaxLookups /\ ~lookup.waiting

MCInit ==
    /\ part \in {"record", "evaluations"}
    /\ Init /\ RecordInit

Evaluations ==
    /\ part = "evaluations"
    /\ Next
    /\ LookupsFirst
    /\ Racing \/ \A k \in Kernel : Patient(k)
    /\ Sharing \/ \A k \in Kernel : Undisturbed(k)
    /\ UNCHANGED <<part, recordVars>>

Attaching ==
    /\ part = "record"
    /\ RecordNext
    /\ Usurping \/ Unusurped
    /\ UNCHANGED <<part, vars>>

MCSpec == MCInit /\ [][Evaluations \/ Attaching]_<<part, vars, recordVars>> /\ (part = "evaluations" => Fairness)
===============================================================================
