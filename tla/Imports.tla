-------------------------------- MODULE Imports --------------------------------
(* How an import names a file, and how imports are written again when files move     *)
(* (Search of modules.rs, lsp/imports.rs). A place is a directory, the segments of its *)
(* path, and the name of a `.janet` file in it. Packages and what is installed are     *)
(* left out: their imports name no place.                                          *)
EXTENDS Naturals, Sequences, SequencesExt, FiniteSets

CONSTANTS
    Roots,      \* the roots of the workspace, directories in order
    Projects    \* the directories with a `project.janet`

Place(dir, name) == [dir |-> dir, name |-> name]
Nowhere == Place(<<>>, "none")

\* `./x`, `../lib/x`: some directories up, and down again; `/lib/x`, from a root. The
\* extension may be written. An import that is not at the top of its file is in a form.
Spec(k, ups, rest, extension, top) == [k |-> k, ups |-> ups, rest |-> rest, extension |-> extension, top |-> top]

----
(* `Search::resolve`.                                                           *)

\* Where a spec may lead, in order: one of the file's own directory, or one of each root.
Bases(from, spec) ==
    IF spec.k = "rooted" THEN [i \in DOMAIN Roots |-> Roots[i] \o spec.rest]
    ELSE <<SubSeq(from.dir, 1, Len(from.dir) - spec.ups) \o spec.rest>>

\* `module_files`: `x.janet`, then `x/init.janet`; only what is written with its extension.
\* Nothing after the last slash names no file.
InitOf(base) == Place(base, "init")
FileOf(base) == Place(Front(base), Last(base))
ModuleFiles(base, spec) ==
    CASE spec.rest = <<>> -> <<InitOf(base)>>
      [] spec.rest # <<>> /\ spec.extension -> <<FileOf(base)>>
      [] OTHER -> <<FileOf(base), InitOf(base)>>

FirstIn(files, candidates) ==
    LET found == {i \in DOMAIN candidates : candidates[i] \in files}
    IN  IF found = {} THEN Nowhere ELSE candidates[Min(found)]
LedTo(files, base, spec) == FirstIn(files, ModuleFiles(base, spec))
Resolve(files, from, spec) ==
    LET bases == Bases(from, spec)
        found == {i \in DOMAIN bases : LedTo(files, bases[i], spec) # Nowhere}
    IN  IF found = {} THEN Nowhere ELSE LedTo(files, bases[Min(found)], spec)

----
(* `spec_of`: how the file at `from` imports the one at `to`, from the root it is of or   *)
(* relative to itself. A directory's `init.janet` is the directory.                    *)

\* `project_root`: the nearest directory above with a `project.janet`, else the deepest root.
Around(dirs, place) == {dir \in dirs : IsPrefix(dir, place.dir)}
Deepest(dirs) == CHOOSE dir \in dirs : \A other \in dirs : Len(other) <= Len(dir)
ProjectRoot(place) ==
    CASE Around(Projects, place) # {} -> Deepest(Around(Projects, place))
      [] Around(Projects, place) = {} /\ Around(Range(Roots), place) # {} -> Deepest(Around(Range(Roots), place))
      [] OTHER -> place.dir

ModulePath(to) == IF to.name = "init" THEN to.dir ELSE Append(to.dir, to.name)
Beyond(common, path) == SubSeq(path, Len(common) + 1, Len(path))
SpecOfPaths(dir, module, common) == Spec("relative", Len(dir) - Len(common), Beyond(common, module), FALSE, TRUE)
SpecOf(k, root, from, to) ==
    IF k = "rooted" THEN Spec("rooted", 0, Beyond(root, ModulePath(to)), FALSE, TRUE)
    ELSE SpecOfPaths(from.dir, ModulePath(to), LongestCommonPrefix({from.dir, ModulePath(to)}))

\* What is not under the root cannot be named from it.
Named(k, root, to) == k = "rooted" => IsPrefix(root, ModulePath(to))

----
(* `moved_imports`: a move takes a file, or a folder with what is under it, elsewhere. *)

MoveFile(old, new)   == [k |-> "file", old |-> old, new |-> new]
MoveFolder(old, new) == [k |-> "folder", old |-> old, new |-> new]

Moves(move, place) ==
    \/ move.k = "file" /\ move.old = place
    \/ move.k = "folder" /\ IsPrefix(move.old, place.dir)
MovedBy(move, place) ==
    IF move.k = "file" THEN move.new ELSE [place EXCEPT !.dir = move.new \o Beyond(move.old, @)]
NewPlace(moves, place) ==
    LET taking == {i \in DOMAIN moves : Moves(moves[i], place)}
    IN  IF taking = {} THEN place ELSE MovedBy(moves[Min(taking)], place)

\* `written`: the spec that fits the new places, with its extension if it had one. The root
\* is that of the old place.
RewrittenStale(moves, from, spec, to) ==
    [SpecOf(spec.k, ProjectRoot(from), from, NewPlace(moves, to)) EXCEPT !.extension = spec.extension]
Rewritten(moves, from, spec, to) ==
    [SpecOf(spec.k, ProjectRoot(from), NewPlace(moves, from), NewPlace(moves, to)) EXCEPT !.extension = spec.extension]

\* `spec_ranges`: only at the top of a file are imports written again.
Stays(moves, from, to) == NewPlace(moves, from) = from /\ NewPlace(moves, to) = to
MovedImport(moves, from, spec, to) ==
    IF ~Stays(moves, from, to) /\ spec.top /\ Named(spec.k, ProjectRoot(from), NewPlace(moves, to))
    THEN Rewritten(moves, from, spec, to) ELSE spec

----
(* What is to hold.                                                             *)

\* No module is beside a directory of its name: there the code writes `../` for it from
\* inside, and prefers it to that directory's `init.janet`.
Apart(files) ==
    \A file \in files, other \in files : ~IsPrefix(Append(file.dir, file.name), other.dir)

\* An import that is offered (`importable`) leads to the module it is offered for.
OffersLead(files) ==
    \A from \in files : \A to \in files \ {from} : \A k \in {"relative", "rooted"} :
        Named(k, ProjectRoot(from), to) => Resolve(files, from, SpecOf(k, ProjectRoot(from), from, to)) = to

\* "The imports a move breaks, written again" (lsp/imports.rs:350): an import leads to what
\* it led to, wherever both are now.
ImportKept(files, moved, moves, from, spec) ==
    LET to == Resolve(files, from, spec)
    IN  to # Nowhere =>
            Resolve(moved, NewPlace(moves, from), MovedImport(moves, from, spec, to)) = NewPlace(moves, to)

\* What the code does not get right: imports in forms, which it leaves as they are; and of an
\* `init.janet` by its name, `./x/init.janet`, for which it writes `./x.janet`.
Rewritable(moves, from, spec, to) ==
    \/ Stays(moves, from, to)
    \/ spec.top /\ (spec.extension => NewPlace(moves, to).name # "init")
MovesKept(files, moved, moves, specs) ==
    Apart(moved) /\ Cardinality(moved) = Cardinality(files) =>
        \A from \in files : \A spec \in specs :
            Rewritable(moves, from, spec, Resolve(files, from, spec)) => ImportKept(files, moved, moves, from, spec)

\* Every import, with nothing excused.
AllKept(files, moved, moves, specs) ==
    Apart(moved) /\ Cardinality(moved) = Cardinality(files) =>
        \A from \in files : \A spec \in specs : ImportKept(files, moved, moves, from, spec)
=============================================================================
