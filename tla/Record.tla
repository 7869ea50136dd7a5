-------------------------------- MODULE Record --------------------------------
(* How the clients of a project's REPL find each other: kernels, which attach  *)
(* to the server that is recorded for their project or else start one and      *)
(* record it, and the language server and the debugger, which only attach.     *)
(* The record is two files, the port and the token, written and read one after *)
(* the other; a server goes with the kernel that started it.                   *)
(*                                                                             *)
(* A token is as good as the number of the server it was made for. A stranger  *)
(* is a netrepl that no kernel started: it lets anyone in.                     *)
EXTENDS Integers, FiniteSets, FiniteSetsExt, ReplKernels

CONSTANTS
    Reader,         \* what only attaches
    Port,
    Project,
    ProjectOf,      \* the project of each of them
    Stranger,       \* the netrepl of no kernel
    MaxServers,     \* bound: servers that are ever started
    MaxCrashes      \* bound: servers that die by themselves, strangers that come

Client == Kernel \cup Reader
Server == 1..MaxServers
NoServer == 0
NoPort == 0

RecordAssumption ==
    /\ Kernel \cap Reader = {} /\ IsFiniteSet(Kernel)
    /\ ProjectOf \in [Client -> Project]
    /\ Port \subseteq Nat \ {NoPort}
    /\ Stranger \notin Nat
    /\ MaxServers \in Nat /\ MaxCrashes \in Nat

VARIABLES
    portFile,   \* the port recorded for each project, and by which server
    tokenFile,  \* the token recorded for each project
    server,     \* every server: its state, port, project and kernel
    started,    \* how many there were
    strangers,  \* the ports that strangers listen on
    client,     \* what each client is doing
    crashes,
    together    \* history: projects two kernels were connecting for at once

recordVars == <<portFile, tokenFile, server, started, strangers, client, crashes, together>>
files == <<portFile, tokenFile>>

NotStarted == [state |-> "none", port |-> NoPort, project |-> None, kernel |-> None]
NotRecorded == [port |-> NoPort, by |-> NoServer]
Unoccupied == [phase |-> "idle", port |-> NoPort, by |-> NoServer, token |-> NoServer,
         to |-> NoServer, own |-> NoServer]

Recorded(c) == portFile[ProjectOf[c]]

Listening(s) == s \in Server /\ server[s].state = "listening"
Alive(s)     == s \in Server /\ server[s].state \in {"starting", "listening"}

\* Who answers on a port.
Answers(port) ==
    {s \in Server : Listening(s) /\ server[s].port = port} \cup
    (IF port \in strangers THEN {Stranger} ELSE {})

Free(port) == Answers(port) = {}

\* Whether the connection of a client still has somebody at its other end.
Reachable(c) == client[c].to \in Answers(client[c].port)

Dead(s) == [server[s] EXCEPT !.state = "dead", !.port = NoPort]

\* A server serves the clients that know its token.
LetsIn(s, token) == s \in {Stranger, token}

-----------------------------------------------------------------------------
(* Attaching to what is recorded: Netrepl::attach_recorded.                    *)

\* Without a server to attach to, a kernel starts one; a reader gives up.
Missed(c) == IF c \in Kernel THEN [Unoccupied EXCEPT !.phase = "starting"] ELSE Unoccupied

Becomes(c, what) ==
    /\ client' = [client EXCEPT ![c] = what]
    /\ UNCHANGED <<files, server, started, strangers, crashes>>

FindNothing(c) ==
    /\ client[c] = Unoccupied
    /\ Recorded(c) = NotRecorded
    /\ Becomes(c, Missed(c))

ReadPort(c) ==
    /\ client[c] = Unoccupied
    /\ Recorded(c) # NotRecorded
    /\ Becomes(c, [Unoccupied EXCEPT !.phase = "reading", !.port = Recorded(c).port, !.by = Recorded(c).by])

ReadToken(c) ==
    /\ client[c].phase = "reading"
    /\ Becomes(c, [client[c] EXCEPT !.phase = "attaching", !.token = tokenFile[ProjectOf[c]]])

Attach(c) ==
    /\ client[c].phase = "attaching"
    /\ \E s \in Answers(client[c].port) :
        /\ LetsIn(s, client[c].token)
        /\ Becomes(c, [Unoccupied EXCEPT !.phase = "asking", !.port = client[c].port, !.to = s])

\* Nobody listens, or whoever does closes the connection.
AttachFails(c) ==
    /\ client[c].phase = "attaching"
    /\ ~\E s \in Answers(client[c].port) : LetsIn(s, client[c].token)
    /\ Becomes(c, Missed(c))

\* The server says which project it serves.
ServesProject(s, project) == s \in Server /\ server[s].project = project

AskNone(c) ==
    /\ client[c].phase = "asking"
    /\ Becomes(c, IF Reachable(c) THEN [client[c] EXCEPT !.phase = "connected"] ELSE Missed(c))

AskProject(c) ==
    /\ client[c].phase = "asking"
    /\ Becomes(c, IF Reachable(c) /\ ServesProject(client[c].to, ProjectOf[c])
                  THEN [client[c] EXCEPT !.phase = "connected"]
                  ELSE Missed(c))

-----------------------------------------------------------------------------
(* Starting a server: start, Netrepl::start, start_server.                     *)

PickPort(c) ==
    /\ client[c].phase = "starting"
    /\ \E port \in {p \in Port : Free(p)} :
        Becomes(c, [client[c] EXCEPT !.phase = "picked", !.port = port])

\* A port that was taken meanwhile is an error, and the kernel's request fails.
PortTaken(c) ==
    /\ client[c].phase = "picked"
    /\ ~Free(client[c].port)
    /\ Becomes(c, Unoccupied)

Spawn(c) ==
    /\ client[c].phase = "picked"
    /\ Free(client[c].port)
    /\ started < MaxServers
    /\ started' = started + 1
    /\ server' = [server EXCEPT ![started'] =
                    [state |-> "starting", port |-> client[c].port, project |-> ProjectOf[c],
                     kernel |-> c]]
    /\ client' = [client EXCEPT ![c].phase = "connecting", ![c].own = started']
    /\ UNCHANGED <<files, strangers, crashes>>

\* The new process listens, or finds the port taken and exits.
Bind(s) ==
    /\ server[s].state = "starting"
    /\ server' = [server EXCEPT ![s] =
                    IF Free(server[s].port) THEN [@ EXCEPT !.state = "listening"] ELSE Dead(s)]
    /\ UNCHANGED <<files, started, strangers, client, crashes>>

\* A connection that is dropped takes along the server it came with.
Dropped(c) ==
    /\ client' = [client EXCEPT ![c] = Unoccupied]
    /\ server' = [s \in Server |-> IF s = client[c].own THEN Dead(s) ELSE server[s]]
    /\ UNCHANGED <<files, started, strangers, crashes>>

\* While its own process runs, the kernel connects to whoever answers on the port.
Connect(c) ==
    /\ client[c].phase = "connecting"
    /\ Alive(client[c].own)
    /\ \E s \in Answers(client[c].port) :
        IF LetsIn(s, client[c].own)
        THEN Becomes(c, [client[c] EXCEPT !.phase = "token", !.to = s])
        ELSE Dropped(c)

\* The process exited, or fifty attempts have passed.
GiveUp(c) ==
    /\ client[c].phase = "connecting"
    /\ ~Alive(client[c].own) \/ Free(client[c].port)
    /\ Dropped(c)

RecordPortFirst(c) ==
    /\ client[c].phase = "token"
    /\ portFile' = [portFile EXCEPT ![ProjectOf[c]] = [port |-> client[c].port, by |-> client[c].own]]
    /\ client' = [client EXCEPT ![c].phase = "port"]
    /\ UNCHANGED <<tokenFile, server, started, strangers, crashes>>

RecordToken(c) ==
    /\ client[c].phase = "token"
    /\ tokenFile' = [tokenFile EXCEPT ![ProjectOf[c]] = client[c].own]
    /\ client' = [client EXCEPT ![c].phase = "port"]
    /\ UNCHANGED <<portFile, server, started, strangers, crashes>>

RecordTokenOnly(c) ==
    /\ client[c].phase = "port"
    /\ client' = [client EXCEPT ![c].phase = "connected"]
    /\ UNCHANGED <<files, server, started, strangers, crashes>>

RecordPort(c) ==
    /\ client[c].phase = "port"
    /\ portFile' = [portFile EXCEPT ![ProjectOf[c]] = [port |-> client[c].port, by |-> client[c].own]]
    /\ client' = [client EXCEPT ![c].phase = "connected"]
    /\ UNCHANGED <<tokenFile, server, started, strangers, crashes>>

\* A request that fails drops the connection; the next one connects again.
Lose(c) ==
    /\ client[c].phase = "connected"
    /\ ~Reachable(c)
    /\ Dropped(c)

-----------------------------------------------------------------------------
(* What goes on around them.                                                   *)

\* A kernel is shut down or killed; another one takes its place.
Exit(c) ==
    /\ client[c] # Unoccupied
    /\ crashes < MaxCrashes
    /\ crashes' = crashes + 1
    /\ client' = [client EXCEPT ![c] = Unoccupied]
    /\ UNCHANGED <<files, server, started, strangers>>

\* Its end of the server's stdin is closed, which ends the server.
Orphaned(s) ==
    /\ Alive(s)
    /\ client[server[s].kernel].own # s
    /\ server' = [server EXCEPT ![s] = Dead(s)]
    /\ UNCHANGED <<files, started, strangers, client, crashes>>

\* What is evaluated ends the server.
Die(s) ==
    /\ Alive(s)
    /\ crashes < MaxCrashes
    /\ crashes' = crashes + 1
    /\ server' = [server EXCEPT ![s] = Dead(s)]
    /\ UNCHANGED <<files, started, strangers, client>>

StrangerComes(port) ==
    /\ Free(port)
    /\ crashes < MaxCrashes
    /\ crashes' = crashes + 1
    /\ strangers' = strangers \cup {port}
    /\ UNCHANGED <<files, server, started, client>>

StrangerGoes(port) ==
    /\ port \in strangers
    /\ strangers' = strangers \ {port}
    /\ UNCHANGED <<files, server, started, client, crashes>>

-----------------------------------------------------------------------------

Connecting(c) == client[c].phase \notin {"idle", "connected"}

Meeting ==
    {project \in Project :
        Cardinality({c \in Kernel : ProjectOf[c] = project /\ Connecting(c)}) > 1}

Attaches(c) ==
    FindNothing(c) \/ ReadPort(c) \/ ReadToken(c) \/ Attach(c) \/ AttachFails(c) \/ AskProject(c)

Starts(c) ==
    \/ PickPort(c) \/ PortTaken(c) \/ Spawn(c) \/ Connect(c) \/ GiveUp(c)
    \/ RecordToken(c) \/ RecordPort(c)

Around ==
    \/ \E c \in Kernel : Exit(c)
    \/ \E s \in Server : Bind(s) \/ Orphaned(s) \/ Die(s)
    \/ \E port \in Port : StrangerComes(port) \/ StrangerGoes(port)

RecordNext ==
    /\ \/ \E c \in Client : Attaches(c) \/ Lose(c)
       \/ \E c \in Kernel : Starts(c)
       \/ Around
    /\ together' = together \cup Meeting'

\* A server that was picked a free port gets it: no netrepl of a stranger comes first.
Unusurped ==
    \A port \in strangers' \ strangers :
        \A c \in Kernel : client[c].phase = "connecting" => client[c].port # port

RecordInit ==
    /\ portFile = [project \in Project |-> NotRecorded]
    /\ tokenFile = [project \in Project |-> NoServer]
    /\ server = [s \in Server |-> NotStarted]
    /\ started = 0
    /\ strangers = {}
    /\ client = [c \in Client |-> Unoccupied]
    /\ crashes = 0
    /\ together = {}

RecordSpec == RecordInit /\ [][RecordNext]_recordVars

-----------------------------------------------------------------------------
(* What is to hold. *)

\* The types of the record and its clients; a kernel has a process of its own
\* only while it starts it or since it did, and a port has one listener.
RecordTypeOK ==
    /\ portFile \in [Project -> [port : Port \cup {NoPort}, by : Server \cup {NoServer}]]
    /\ tokenFile \in [Project -> Server \cup {NoServer}]
    /\ server \in [Server -> [state : {"none", "starting", "listening", "dead"},
                              port : Port \cup {NoPort}, project : Project \cup {None},
                              kernel : Kernel \cup {None}]]
    /\ started \in 0..MaxServers /\ crashes \in 0..MaxCrashes
    /\ strangers \subseteq Port /\ together \subseteq Project
    /\ client \in [Client ->
            [phase : {"idle", "reading", "attaching", "asking", "starting", "picked", "connecting",
                      "token", "port", "connected"},
             port : Port \cup {NoPort}, by : Server \cup {NoServer}, token : Server \cup {NoServer},
             to : Server \cup {NoServer, Stranger}, own : Server \cup {NoServer}]]
    /\ \A c \in Client : client[c].own # NoServer =>
        /\ server[client[c].own].kernel = c
        /\ client[c].phase \in {"connecting", "token", "port", "connected"}
    /\ \A port \in Port : Cardinality(Answers(port)) <= 1

\* Whoever is connected talks to a server of its own project, however ports are
\* taken over by others and records outlive their servers.
OwnProject ==
    \A c \in Client : client[c].phase = "connected" => ServesProject(client[c].to, ProjectOf[c])

\* A reader that finds the port of a running server finds its token: the two
\* files are written and read in opposite orders. Not so once two kernels of a
\* project have been starting at once.
PairsRead ==
    \A c \in Client :
        /\ client[c].phase = "attaching"
        /\ Listening(client[c].by)
        /\ ProjectOf[c] \notin together
        => client[c].token = client[c].by

\* Whoever wrote the record of a project, and with whom: once they are done, who
\* finds the port of a running server there finds its token.
RecordPaired ==
    \A project \in Project :
        /\ \A c \in Kernel : ProjectOf[c] = project => client[c].phase # "port"
        /\ Listening(portFile[project].by)
        => tokenFile[project] = portFile[project].by

\* Kernels of a project share its server, unless they connected at once.
Shared ==
    \A c, d \in Kernel :
        /\ ProjectOf[c] = ProjectOf[d]
        /\ client[c].phase = "connected" /\ Reachable(c)
        /\ client[d].phase = "connected" /\ Reachable(d)
        => client[c].to = client[d].to \/ ProjectOf[c] \in together

\* Clients of a project find its server, all of them the same one and no other, as
\* long as no two of its kernels have been connecting at once.
OwnServer == OwnProject /\ PairsRead /\ Shared
=============================================================================
