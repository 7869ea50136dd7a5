------------------------------- MODULE Install -------------------------------
(* What the Zed extension keeps in its work directory: the server of its own    *)
(* release and the sources of the user's Janet, downloaded, looked up again and *)
(* removed (`src/lib.rs`). The calls of the extension come one after the other; *)
(* it may be stopped in the middle of one, and goes on from the directory it    *)
(* left. The directory of a release is whole, with what is looked for in it, or *)
(* it is not.                                                                   *)
EXTENDS Integers, FiniteSets, FiniteSetsExt

CONSTANTS
    Version,    \* the versions of the extension and of Janet, numbers
    None        \* no directory

\* Of the servers that are kept, one is the newest.
InstallAssumption ==
    /\ Version \subseteq Int
    /\ \A kept \in SUBSET Version : kept # {} => \E newest \in kept : \A other \in kept : other <= newest

\* What a directory holds, told by how its name starts: `janet-lsp-plus-v0.2.0`,
\* `janet-lsp-1.0`, left by older extensions, or `janet-src-1.40`.
Kind == {"janet-lsp-plus", "janet-lsp", "janet-src"}
Name == [kind : Kind, version : Version]

VARIABLES
    dirs,       \* the directories there are: whole or not
    extension,  \* the version of the extension
    janet,      \* the Janet on PATH, None without
    cached,     \* `cached_server`: a directory, None before
    call,       \* the call under way: where it stands and what it looks for
    answer      \* what the last call came to: which directory, and by which way

vars == <<dirs, extension, janet, cached, call, answer>>

Idle == [at |-> "idle", dir |-> None]

Own     == [kind |-> "janet-lsp-plus", version |-> extension]
Sources == [kind |-> "janet-src", version |-> janet]

\* `is_file` of the binary, or of boot.janet, in a directory.
WholeIn(there, dir) == dir \in DOMAIN there /\ there[dir] = "whole"
IsWhole(dir) == WholeIn(dirs, dir)

\* The names `starts_with` a prefix: `janet-lsp-` is how `janet-lsp-plus-` starts.
StartsWith(prefix) ==
    {name \in Name : name.kind = prefix \/ (prefix = "janet-lsp" /\ name.kind = "janet-lsp-plus")}

\* Mutant of RemoveStale: every other directory goes.
RemoveAll(prefix, current) ==
    \E removed \in SUBSET (DOMAIN dirs \ {current}) :
        dirs' = [name \in DOMAIN dirs \ removed |-> dirs[name]]

\* `remove_stale_versions`: a directory that cannot be removed stays.
RemoveStale(prefix, current) ==
    \E removed \in SUBSET ((StartsWith(prefix) \ {current}) \cap DOMAIN dirs) :
        dirs' = [name \in DOMAIN dirs \ removed |-> dirs[name]]

----

Goes(at, dir) == call' = [at |-> at, dir |-> dir]
Answers(dir, by) ==
    /\ call' = Idle
    /\ answer' = [dir |-> dir, by |-> by, whole |-> WholeIn(dirs', dir)]

\* `download_file`: the archive may not have what is looked for, and a download
\* that fails may leave a part.
Holds(dir, state) == dirs' = [name \in DOMAIN dirs \cup {dir} |-> IF name = dir THEN state ELSE dirs[name]]
Download(dir) == \E state \in {"whole", "part"} : Holds(dir, state)
LeavePart(dir) == UNCHANGED dirs \/ Holds(dir, "part")

\* Mutant of InstalledServer: whatever is there.
InstalledAny(there) ==
    LET found == {name \in DOMAIN there : name.kind = "janet-lsp-plus"}
    IN  IF found = {} THEN None
        ELSE CHOOSE name \in found : \A other \in found : other.version <= name.version

\* `installed_server`: the newest an earlier start downloaded.
InstalledServer(there) ==
    LET found == {name \in DOMAIN there : name.kind = "janet-lsp-plus" /\ there[name] = "whole"}
    IN  IF found = {} THEN None
        ELSE CHOOSE name \in found : \A other \in found : other.version <= name.version

\* A language server or the debug adapter is to start: PATH, then what was
\* returned before if it is still there, then the release.
ServerPath ==
    /\ call = Idle
    /\ UNCHANGED <<dirs, extension, janet>>
    /\ \/ Answers(None, "path") /\ UNCHANGED cached
       \/ IsWhole(cached) /\ Answers(cached, "cached") /\ UNCHANGED cached
       \/ ~IsWhole(cached) /\ IsWhole(Own) /\ Answers(Own, "release") /\ cached' = Own
       \/ /\ ~IsWhole(cached) /\ ~IsWhole(Own)
          /\ Goes("download", Own) /\ UNCHANGED <<cached, answer>>

\* The release is looked up and downloaded.
DownloadServer ==
    /\ call.at = "download"
    /\ Download(Own)
    /\ Goes("executable", Own)
    /\ UNCHANGED <<extension, janet, cached, answer>>

MakeExecutable ==
    /\ call.at = "executable"
    /\ IsWhole(Own)
    /\ Goes("remove", Own)
    /\ UNCHANGED <<dirs, extension, janet, cached, answer>>

RemoveServers ==
    /\ call.at = "remove"
    /\ RemoveStale("janet-lsp-plus", Own)
    /\ Goes("removeLegacy", Own)
    /\ UNCHANGED <<extension, janet, cached, answer>>

\* What janet-lsp left is removed, and the call is over.
RemoveLegacy ==
    /\ call.at = "removeLegacy"
    /\ RemoveStale("janet-lsp", None)
    /\ Answers(Own, "release")
    /\ cached' = Own
    /\ UNCHANGED <<extension, janet>>

\* Any of it fails: offline, no such asset, no rights. An earlier download is
\* taken then, if there is one.
ReleaseFails ==
    /\ call.at \in {"download", "executable"}
    /\ IF call.at = "download" THEN LeavePart(Own) ELSE UNCHANGED dirs
    /\ LET found == InstalledServer(dirs')
       IN  /\ call' = Idle
           /\ answer' = [dir |-> found, by |-> "installed", whole |-> WholeIn(dirs', found)]
           /\ cached' = IF found = None THEN cached ELSE found
    /\ UNCHANGED <<extension, janet>>

----

\* `language_server_initialization_options`: the sources that match `janet`.
\* Without Janet there are no options.
JanetSource ==
    /\ call = Idle /\ janet # None
    /\ UNCHANGED <<dirs, extension, janet, cached>>
    /\ IF IsWhole(Sources)
       THEN Answers(Sources, "source")
       ELSE Goes("source", Sources) /\ UNCHANGED answer

DownloadSource ==
    /\ call.at = "source"
    /\ Download(call.dir)
    /\ Goes("removeSource", call.dir)
    /\ UNCHANGED <<extension, janet, cached, answer>>

RemoveSources ==
    /\ call.at = "removeSource"
    /\ RemoveStale("janet-src", call.dir)
    /\ Answers(IF WholeIn(dirs', call.dir) THEN call.dir ELSE None, "source")
    /\ UNCHANGED <<extension, janet, cached>>

\* The archive cannot be had: the server starts without the sources.
SourceFails ==
    /\ call.at = "source"
    /\ LeavePart(call.dir)
    /\ Answers(None, "source")
    /\ UNCHANGED <<extension, janet, cached>>

----

\* Zed stops the extension, and may upgrade it, or take it back.
Restart(version) ==
    /\ extension' = version
    /\ cached' = None /\ call' = Idle
    /\ answer' = [dir |-> None, by |-> "nobody", whole |-> FALSE]
    /\ UNCHANGED <<dirs, janet>>

\* The user changes Janet.
ChangeJanet(version) ==
    /\ call = Idle
    /\ janet' = version
    /\ UNCHANGED <<dirs, extension, cached, call, answer>>

Init ==
    /\ \E legacy \in SUBSET [kind : {"janet-lsp"}, version : Version] : dirs = [name \in legacy |-> "whole"]
    /\ extension \in Version /\ janet \in Version \cup {None}
    /\ cached = None /\ call = Idle
    /\ answer = [dir |-> None, by |-> "nobody", whole |-> FALSE]

Next ==
    \/ ServerPath \/ DownloadServer \/ MakeExecutable \/ RemoveServers \/ RemoveLegacy \/ ReleaseFails
    \/ JanetSource \/ DownloadSource \/ RemoveSources \/ SourceFails
    \/ \E version \in Version : Restart(version) \/ ChangeJanet(version)

Spec == Init /\ [][Next]_vars

----
(* What is to hold. *)

\* The sources sent are whole, and those of the Janet they were asked for; a server
\* that was looked for among earlier downloads is there; and cleaning up after one
\* download takes nothing of another: only a download of sources removes sources.
Whole ==
    /\ answer.by = "source" /\ answer.dir # None => answer.whole /\ answer.dir.kind = "janet-src"
    /\ answer.by \in {"installed", "cached"} /\ answer.dir # None => answer.whole
Keeps ==
    /\ Whole'
    /\ \A name \in DOMAIN dirs \ DOMAIN dirs' : name.kind = "janet-src" => call.at = "removeSource"

\* "This extension's release for this platform, downloaded into the extension work
\* dir" (src/lib.rs:64): the server to start is there.
ServerThere == answer.by = "release" => answer.whole
=============================================================================
