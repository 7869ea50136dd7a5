----------------------------- MODULE MCWorkspace -----------------------------
(* Workspace.tla on small instances, for TLC: two modules, a dependency, a   *)
(* declaration file and a project, of which each scenario changes some.      *)
EXTENDS Workspace, ImportOrder, TLC

CONSTANTS
    main, util, lib, decl, project,
    plain, other, usesMain, usesUtil, usesLib, provides,
    toMain, toUtil, toLib, seen

VARIABLE scenario  \* what happens to the workspace

MCVars == <<vars, written, scenario>>

MCSays ==
    (main :> {plain, usesUtil, usesLib}) @@ (util :> {plain, other, usesMain, usesLib}) @@
    (lib :> {plain, other}) @@ (decl :> {plain, other}) @@ (project :> {plain, provides})

MCImportsOf ==
    [t \in Text |-> CASE t = usesMain -> {toMain} [] t = usesUtil -> {toUtil}
                      [] t = usesLib -> {toLib} [] OTHER -> {}]

MCPackagesOf == [t \in Text |-> IF t = provides THEN {<<toLib, util>>} ELSE {}]

MCCandidates ==
    [p \in Module \cup Project |->
        (toMain :> <<main>>) @@ (toUtil :> <<util, lib>>) @@ (toLib :> <<lib>>)]

NoConfig      == [exports |-> {}, program |-> <<>>, lint |-> FALSE]
Exporting     == [NoConfig EXCEPT !.exports = {decl}]
Linting       == [Exporting EXCEPT !.lint = TRUE]
Programmed    == [NoConfig EXCEPT !.program = <<util, main>>]
MCConfig      == {NoConfig, Exporting, Linting, Programmed}
MCDefault     == [config |-> NoConfig, mode |-> "loose"]

MCInit ==
    /\ Init
    /\ scenario \in {"editing", "settings", "passes", "walks"}
    /\ written = IF scenario = "walks" THEN [f \in 1..Files |-> <<>>] ELSE <<>>

\* The paths a scenario changes.
Touched ==
    CASE scenario = "editing" -> {main, util, lib, project}
      [] scenario = "settings" -> {main, util, decl}
      [] scenario = "passes" -> {main, util}
      [] scenario = "walks" -> {}

MCChanges ==
    \/ \E removed \in SUBSET Touched, changed \in SUBSET Touched :
        /\ removed \cap changed = {}
        /\ removed \subseteq DOMAIN files
        /\ Cardinality(removed \cup changed) \in 1..MaxChanged
        /\ \E texts \in [changed -> Text] :
            /\ \A p \in changed : texts[p] \in Says[p]
            /\ Change(texts, removed)
    \/ /\ scenario = "settings"
       /\ \/ \E names \in Names : Report(util, names)
          \/ \E m \in Mode : SetMode(m)
          \/ \E c \in Config : SetConfig(c)
          \/ \E text \in Says[decl] : DiskChanges(decl, text)
    \/ /\ scenario = "editing"
       /\ \E text \in Says[lib] : DiskChanges(lib, text)

MCInfers ==
    \/ scenario = "passes" /\ \E starts \in SUBSET DOMAIN files : BeginPass(starts)
    \/ \E c \in pass.left : TakeComponent(c)
    \/ \E c \in pass.working : InferComponent(c) \/ AbandonComponent(c)
    \/ \E c \in asked : InferAsked(c)
    \/ StopPass
    \/ NextLayer
    \/ EndPass
    \/ \E p \in Known : Ask(p)

MCNext ==
    \/ (MCChanges \/ MCInfers) /\ UNCHANGED <<written, scenario>>
    \/ \E p, q \in DOMAIN written : Edit(p, q) /\ UNCHANGED <<vars, scenario>>

MCSpec == MCInit /\ [][MCNext]_MCVars
=============================================================================
