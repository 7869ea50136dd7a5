-------------------------- MODULE MCLanguageServer --------------------------
(* LanguageServer.tla on small instances, for TLC: a module and a file that  *)
(* imports it, and a user who does one kind of thing.                        *)
EXTENDS LanguageServer

CONSTANTS module, main, good, bad

MCReads == (main :> {module}) @@ (module :> {})

VARIABLE scenario  \* what the user does

MCVars == <<vars, scenario>>

\* Bound: the notifications of each scenario.
NotesOf ==
    [typing |-> 4, saving |-> 3, configuring |-> 3, unwatched |-> 2, whole |-> 1]

\* Both files are on disk; or only the module, or only the file that imports it.
MCDisk  == (module :> good) @@ (main :> good)
MCDisks == {MCDisk, [MCDisk EXCEPT ![main] = NoText], [MCDisk EXCEPT ![module] = NoText]}

MCInit ==
    /\ Init
    /\ scenario \in DOMAIN NotesOf
    /\ watching = (scenario # "unwatched")
    /\ disk \in IF scenario \in {"saving", "unwatched"} THEN MCDisks ELSE {MCDisk}
    /\ settings \in CASE scenario = "configuring" -> Settings
                       [] scenario = "whole" -> {"off", "hint"}
                       [] OTHER -> {"hint"}

Types ==
    \/ \E u \in Uri, text \in Text : EditorOpens(u, text) \/ EditorEdits(u, text)
    \/ \E u \in Uri : EditorCloses(u)

\* A file that is created stays until the server has heard of it.
Unheard(u) ==
    \E i \in DOMAIN (queue \o inbox) :
        LET message == (queue \o inbox)[i]
        IN message.kind = "note" /\ message.note.what = "created" /\ message.note.uri = u

Saves ==
    \E u \in Uri, text \in Anything :
        /\ text = NoText => ~Unheard(u)
        /\ DiskChanges(u, text)

Configures == \E types \in Settings : EditorConfigures(types)

MCEditor ==
    /\ notes < NotesOf[scenario]
    /\ \/ Types
       \/ scenario \in {"saving", "unwatched"} /\ Saves
       \/ scenario = "configuring" /\ Configures
    /\ UNCHANGED <<checkerVars, shown, stateVars>>

\* Types stay cached, and checks succeed.
Smoothly == left' <= left /\ \A i \in DOMAIN results' : results'[i].report.problems # Failed

\* In all scenarios but the last the client stays and asks nothing; the system may
\* rest only once all is settled.
MCNext ==
    /\ \/ scenario # "whole" /\ (MCEditor \/ Server \/ CheckerThread) /\ Smoothly
       \/ scenario # "whole" /\ Settled /\ UNCHANGED vars
       \/ scenario = "whole" /\ Next /\ notes' <= NotesOf.whole
    /\ UNCHANGED scenario

MCSpec == MCInit /\ [][MCNext]_MCVars

\* The user only types.
TypingInit == MCInit /\ scenario = "typing"

Typing == TypingInit /\ [][MCNext]_MCVars

FairTyping == Typing /\ Fairness
=============================================================================
