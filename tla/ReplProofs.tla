------------------------------ MODULE ReplProofs ------------------------------
(* Theorems about the REPL of a project. Of its record (Record.tla): who is    *)
(* connected to a server is connected to one of its own project, and as long   *)
(* as no two kernels of a project connect at once, the two files of the record *)
(* belong together and its kernels share its server. Of what they have it do   *)
(* (Repl.tla): answers and output go to who they are for, whoever interrupts.  *)
EXTENDS Repl, Record, SequenceTheorems, FiniteSetTheorems, TLAPS

-----------------------------------------------------------------------------
(* The types, and what a process belongs to.                                  *)

Doing ==
    [phase : {"idle", "reading", "attaching", "asking", "starting", "picked", "connecting",
              "token", "port", "connected"},
     port : Port \cup {NoPort}, by : Server \cup {NoServer}, token : Server \cup {NoServer},
     to : Server \cup {NoServer, Stranger}, own : Server \cup {NoServer}]

Process ==
    [state : {"none", "starting", "listening", "dead"}, port : Port \cup {NoPort},
     project : Project \cup {None}, kernel : Kernel \cup {None}]

TypedFiles ==
    /\ portFile \in [Project -> [port : Port \cup {NoPort}, by : Server \cup {NoServer}]]
    /\ tokenFile \in [Project -> Server \cup {NoServer}]
    /\ crashes \in 0..MaxCrashes

TypedServers ==
    /\ server \in [Server -> Process]
    /\ started \in 0..MaxServers
    /\ strangers \subseteq Port

\* Servers are numbered as they are started, and one that lives has a port.
Numbered ==
    \A s \in Server :
        /\ s > started => server[s] = NotStarted
        /\ Alive(s) => server[s].port \in Port /\ server[s].kernel \in Kernel

\* Only kernels start servers; one they keep is of their project.
OwnedBy(c, what) ==
    /\ what.own # NoServer =>
          /\ what.own <= started
          /\ server[what.own].kernel = c
          /\ server[what.own].project = ProjectOf[c]
          /\ what.phase \in {"connecting", "token", "port", "connected"}
    /\ what.phase \in {"starting", "picked", "connecting", "token", "port"} => c \in Kernel
    /\ what.phase \in {"picked", "connecting", "token", "port"} => what.port \in Port
    /\ what.phase \in {"connecting", "token", "port"} =>
          /\ what.own # NoServer
          /\ Alive(what.own) => server[what.own].port = what.port

Owned == client \in [Client -> Doing] /\ \A c \in Client : OwnedBy(c, client[c])

OneListener == \A port \in Port : \A s, t \in Answers(port) : s = t

ServersInv == TypedFiles /\ TypedServers /\ Numbered /\ Owned /\ OneListener

\* What a step may do to a server: nothing, or it ends it, lets it listen or starts it.
Starting(s) ==
    /\ s = started + 1 /\ started' = s
    /\ server'[s].state = "starting" /\ server'[s].port \in Port
    /\ server'[s].project \in Project /\ server'[s].kernel \in Kernel
Binding(s) ==
    /\ server[s].state = "starting" /\ Free(server[s].port)
    /\ server'[s] = [server[s] EXCEPT !.state = "listening"]
Dying(s) == s <= started /\ server'[s] = Dead(s)

ServersMove ==
    /\ server' \in [Server -> Process]
    /\ started <= started' /\ started' \in 0..MaxServers
    /\ \A s \in Server : server'[s] = server[s] \/ Dying(s) \/ Binding(s) \/ Starting(s)

\* One server binds, and no other moves then; strangers come where nobody listens.
ListenersMove ==
    /\ strangers' \subseteq Port
    /\ \A port \in strangers' \ strangers : Free(port)
    /\ strangers' \subseteq strangers \/ \A s \in Server : ~Binding(s)
    /\ \A s, t \in Server : Binding(s) /\ Binding(t) => s = t

\* A server that lives has not ended in this step, and belongs to whom it did.
LEMMA Lives ==
    ASSUME TypedServers, Numbered, ServersMove, NEW s \in Server, s <= started
    PROVE  /\ server'[s].project = server[s].project /\ server'[s].kernel = server[s].kernel
           /\ Alive(s)' => Alive(s) /\ server'[s].port = server[s].port
           /\ Listening(s) => server'[s] = server[s] \/ Dying(s)
           /\ Listening(s)' => Listening(s) \/ Binding(s)
<1>1. started \in Int /\ s \in Int
  BY DEF TypedServers, Server
<1>2. server[s] \in Process
  BY DEF TypedServers
<1>3. ~Starting(s)
  BY <1>1 DEF Starting
<1>4. server'[s] = server[s] \/ server'[s] = Dead(s)
      \/ (server[s].state = "starting" /\ server'[s] = [server[s] EXCEPT !.state = "listening"])
  BY <1>3 DEF ServersMove, Dying, Binding
<1>5. CASE server'[s] = server[s]
  BY <1>5 DEF Alive, Listening
<1>6. CASE server'[s] = Dead(s)
  <2>1. /\ server'[s].project = server[s].project /\ server'[s].kernel = server[s].kernel
        /\ server'[s].state = "dead"
    BY <1>2, <1>6 DEF Dead, Process
  <2>. QED
    BY <2>1, <1>6 DEF Alive, Listening, Dying
<1>7. CASE server[s].state = "starting" /\ server'[s] = [server[s] EXCEPT !.state = "listening"]
  <2>1. /\ server'[s].project = server[s].project /\ server'[s].kernel = server[s].kernel
        /\ server'[s].state = "listening" /\ server'[s].port = server[s].port
    BY <1>2, <1>7 DEF Process
  <2>2. Binding(s) \/ server'[s] = server[s] \/ Dying(s)
    BY <1>3 DEF ServersMove
  <2>3. ~Dying(s) /\ server'[s] # server[s]
    BY <1>2, <1>7, <2>1 DEF Dying, Dead, Process
  <2>. QED
    BY <1>7, <2>1, <2>2, <2>3 DEF Alive, Listening
<1>. QED
  BY <1>4, <1>5, <1>6, <1>7

\* Servers stay numbered.
LEMMA NumberedStays ==
    ASSUME RecordAssumption, TypedServers, Numbered, ServersMove
    PROVE  Numbered'
<1>. SUFFICES ASSUME NEW s \in Server
              PROVE  /\ s > started' => server'[s] = NotStarted
                     /\ Alive(s)' => server'[s].port \in Port /\ server'[s].kernel \in Kernel
  BY DEF Numbered
<1>1. started \in Int /\ started' \in Int /\ s \in Int /\ started <= started'
  BY DEF TypedServers, ServersMove, Server
<1>2. s > started' => server'[s] = NotStarted
  <2>1. s > started' => server[s] = NotStarted /\ ~Dying(s) /\ ~Starting(s)
    BY <1>1 DEF Numbered, Dying, Starting
  <2>. QED
    BY <2>1 DEF ServersMove, Binding, NotStarted
<1>3. CASE s <= started
  BY <1>2, <1>3, Lives DEF Numbered
<1>4. CASE s > started
  <2>1. server[s] = NotStarted /\ ~Dying(s)
    BY <1>1, <1>4 DEF Numbered, Dying
  <2>2. CASE Starting(s)
    BY <1>2, <2>2 DEF Starting
  <2>3. CASE ~Starting(s)
    BY <1>2, <2>1, <2>3 DEF ServersMove, Binding, NotStarted, Alive
  <2>. QED
    BY <2>2, <2>3
<1>. QED
  BY <1>1, <1>3, <1>4

\* Who answers on a port answered there before, or comes to a free port.
LEMMA AnswersStay ==
    ASSUME RecordAssumption, TypedServers, Numbered, ServersMove,
           NEW port \in Port, NEW s \in Answers(port)'
    PROVE  \/ s \in Answers(port)
           \/ s = Stranger /\ port \in strangers' \ strangers
           \/ s \in Server /\ Binding(s) /\ server[s].port = port
<1>1. CASE s \in Server
  <2>1. Listening(s)' /\ server'[s].port = port
    BY <1>1 DEF Answers, RecordAssumption, Server
  <2>2. CASE s > started
    <3>1. started \in Int /\ s \in Int
      BY <1>1 DEF TypedServers, Server
    <3>2. server[s] = NotStarted
      BY <1>1, <2>2 DEF Numbered
    <3>. QED
      BY <2>1, <2>2, <3>1, <3>2
         DEF Listening, Alive, ServersMove, Dying, Starting, Binding, NotStarted
  <2>3. CASE s <= started
    BY <1>1, <2>1, <2>3, Lives DEF Answers, Alive, Listening
  <2>. QED
    BY <1>1, <2>2, <2>3 DEF TypedServers, Server
<1>2. CASE s \notin Server
  BY <1>2 DEF Answers
<1>. QED
  BY <1>1, <1>2

\* So a port keeps at most one listener.
LEMMA OneListenerStays ==
    ASSUME RecordAssumption, TypedServers, Numbered, OneListener, ServersMove, ListenersMove
    PROVE  OneListener'
<1>. SUFFICES ASSUME NEW port \in Port, NEW s \in Answers(port)', NEW t \in Answers(port)'
              PROVE  s = t
  BY DEF OneListener
<1>1. \A r \in Answers(port)' :
         \/ r \in Answers(port)
         \/ r = Stranger /\ port \in strangers' \ strangers /\ Free(port)
         \/ r \in Server /\ Binding(r) /\ Free(port)
  BY AnswersStay DEF ListenersMove, Binding
<1>2. CASE s \in Answers(port) \/ t \in Answers(port)
  BY <1>1, <1>2 DEF OneListener, Free
<1>3. CASE s \notin Answers(port) /\ t \notin Answers(port)
  BY <1>1, <1>3 DEF ListenersMove
<1>. QED
  BY <1>2, <1>3

\* A kernel keeps what it owns, if it goes on as it was.
LEMMA OwnedStays ==
    ASSUME RecordAssumption, TypedServers, Numbered, ServersMove,
           NEW c \in Client, NEW what \in Doing, OwnedBy(c, what)
    PROVE  OwnedBy(c, what)'
<1>1. started \in Int /\ started' \in Int /\ started <= started' /\ \A s \in Server : s \in Int
  BY DEF TypedServers, ServersMove, Server
<1>2. what.own \in Server \/ what.own = NoServer
  BY DEF Doing
<1>3. NoServer \notin Server
  BY DEF NoServer, Server
<1>4. CASE what.own \in Server
  BY <1>1, <1>3, <1>4, Lives DEF OwnedBy
<1>5. CASE what.own = NoServer
  BY <1>5 DEF OwnedBy
<1>. QED
  BY <1>2, <1>4, <1>5

-----------------------------------------------------------------------------
(* Each step keeps them.                                                      *)

\* What follows of a step of which is known what it does to servers and clients.
StepOK ==
    /\ ServersMove /\ ListenersMove /\ TypedFiles'
    /\ client' \in [Client -> Doing]
    /\ \A c \in Client : \E what \in Doing :
          client'[c] = what /\ (OwnedBy(c, what) \/ OwnedBy(c, what)')

LEMMA StepKeeps ==
    ASSUME RecordAssumption, ServersInv, StepOK
    PROVE  ServersInv'
<1>. USE DEF ServersInv, StepOK
<1>1. TypedServers'
  BY DEF TypedServers, ServersMove, ListenersMove
<1>2. Numbered' /\ OneListener'
  BY NumberedStays, OneListenerStays
<1>3. Owned'
  <2>1. ASSUME NEW c \in Client PROVE \E what \in Doing : client'[c] = what /\ OwnedBy(c, what)'
    <3>1. PICK what \in Doing : client'[c] = what /\ (OwnedBy(c, what) \/ OwnedBy(c, what)')
      OBVIOUS
    <3>. QED
      BY <3>1, OwnedStays
  <2>2. client' \in [Client -> Doing]
    OBVIOUS
  <2>. QED
    BY <2>1, <2>2 DEF Owned, OwnedBy
<1>. QED
  BY <1>1, <1>2, <1>3

\* Nothing happens to servers and strangers.
LEMMA ServersStill ==
    ASSUME ServersInv, UNCHANGED <<server, started, strangers>>
    PROVE  ServersMove /\ ListenersMove
BY DEF ServersInv, TypedServers, ServersMove, ListenersMove, Binding, Process

\* One client goes on to what it may do.
LEMMA ClientStep ==
    ASSUME ServersInv, NEW c \in Client, NEW what \in Doing, OwnedBy(c, what),
           client' = [client EXCEPT ![c] = what]
    PROVE  /\ client' \in [Client -> Doing]
           /\ \A d \in Client : \E then \in Doing : client'[d] = then /\ OwnedBy(d, then)
<1>1. client \in [Client -> Doing] /\ \A d \in Client : OwnedBy(d, client[d])
  BY DEF ServersInv, Owned
<1>2. \A d \in Client : client'[d] = IF d = c THEN what ELSE client[d]
  BY <1>1
<1>3. \A d \in Client : client[d] \in Doing
  BY <1>1
<1>4. client' \in [Client -> Doing]
  BY <1>1
<1>. QED
  BY <1>1, <1>2, <1>3, <1>4

LEMMA BecomesStep ==
    ASSUME ServersInv, NEW c \in Client, NEW what \in Doing, OwnedBy(c, what), Becomes(c, what)
    PROVE  StepOK
<1>1. ServersMove /\ ListenersMove
  BY ServersStill DEF Becomes
<1>2. TypedFiles'
  BY DEF Becomes, files, ServersInv, TypedFiles
<1>. QED
  BY <1>1, <1>2, ClientStep DEF Becomes, StepOK

\* What a client that has nothing does is in order.
LEMMA IdleOK ==
    ASSUME NEW c \in Client
    PROVE  /\ Unoccupied \in Doing /\ OwnedBy(c, Unoccupied)
           /\ Missed(c) \in Doing /\ OwnedBy(c, Missed(c))
<1>1. Unoccupied \in Doing /\ OwnedBy(c, Unoccupied)
  BY DEF Unoccupied, Doing, OwnedBy, NoServer, NoPort
<1>2. Missed(c) = Unoccupied \/ (c \in Kernel /\ Missed(c) = [Unoccupied EXCEPT !.phase = "starting"])
  BY DEF Missed
<1>3. [Unoccupied EXCEPT !.phase = "starting"] \in Doing
  BY DEF Unoccupied, Doing, NoServer, NoPort
<1>4. c \in Kernel => OwnedBy(c, [Unoccupied EXCEPT !.phase = "starting"])
  BY DEF OwnedBy, Unoccupied
<1>. QED
  BY <1>1, <1>2, <1>3, <1>4

\* A client reads the record and attaches.
LEMMA AttachesStep ==
    ASSUME RecordAssumption, ServersInv, NEW c \in Client, Attaches(c)
    PROVE  StepOK
<1>1. client[c] \in Doing /\ OwnedBy(c, client[c]) /\ ProjectOf[c] \in Project
  BY DEF ServersInv, Owned, RecordAssumption
<1>2. CASE FindNothing(c) \/ AttachFails(c)
  BY <1>2, IdleOK, BecomesStep DEF FindNothing, AttachFails
<1>3. CASE ReadPort(c)
  <2>. DEFINE what == [Unoccupied EXCEPT !.phase = "reading", !.port = Recorded(c).port,
                                   !.by = Recorded(c).by]
  <2>1. Recorded(c) \in [port : Port \cup {NoPort}, by : Server \cup {NoServer}]
    BY <1>1 DEF Recorded, ServersInv, TypedFiles
  <2>2. what \in Doing /\ OwnedBy(c, what)
    BY <2>1 DEF Unoccupied, Doing, OwnedBy, NoServer
  <2>. QED
    BY <1>3, <2>2, BecomesStep DEF ReadPort
<1>4. CASE ReadToken(c)
  <2>. DEFINE what == [client[c] EXCEPT !.phase = "attaching", !.token = tokenFile[ProjectOf[c]]]
  <2>1. tokenFile[ProjectOf[c]] \in Server \cup {NoServer}
    BY <1>1 DEF ServersInv, TypedFiles
  <2>2. what \in Doing /\ OwnedBy(c, what)
    BY <1>1, <1>4, <2>1 DEF ReadToken, Doing, OwnedBy
  <2>. QED
    BY <1>4, <2>2, BecomesStep DEF ReadToken
<1>5. CASE Attach(c)
  <2>1. PICK s \in Answers(client[c].port) :
            Becomes(c, [Unoccupied EXCEPT !.phase = "asking", !.port = client[c].port, !.to = s])
    BY <1>5 DEF Attach
  <2>. DEFINE what == [Unoccupied EXCEPT !.phase = "asking", !.port = client[c].port, !.to = s]
  <2>0. s \in Server \cup {Stranger}
    BY <2>1 DEF Answers
  <2>2. what \in Doing /\ OwnedBy(c, what)
    BY <1>1, <2>0 DEF Unoccupied, Doing, OwnedBy, NoServer
  <2>. QED
    BY <2>1, <2>2, BecomesStep
<1>6. CASE AskProject(c)
  <2>. DEFINE what == [client[c] EXCEPT !.phase = "connected"]
  <2>1. Becomes(c, what) \/ Becomes(c, Missed(c))
    BY <1>6 DEF AskProject
  <2>2. what \in Doing /\ OwnedBy(c, what)
    BY <1>1, <1>6 DEF AskProject, Doing, OwnedBy
  <2>. QED
    BY <2>1, <2>2, BecomesStep, IdleOK
<1>. QED
  BY <1>2, <1>3, <1>4, <1>5, <1>6 DEF Attaches

\* A connection that is dropped ends its server, and no other.
LEMMA DroppedStep ==
    ASSUME RecordAssumption, ServersInv, NEW c \in Client, Dropped(c)
    PROVE  StepOK
<1>1. client[c] \in Doing /\ OwnedBy(c, client[c])
  BY DEF ServersInv, Owned
<1>2. server \in [Server -> Process] /\ started \in 0..MaxServers
  BY DEF ServersInv, TypedServers
<1>3. \A s \in Server : Dead(s) \in Process
  BY <1>2 DEF Dead, Process
<1>4. \A s \in Server : server'[s] = server[s] \/ (s = client[c].own /\ server'[s] = Dead(s))
  BY DEF Dropped
<1>5. \A s \in Server : server'[s] = server[s] \/ Dying(s)
  <2>1. ASSUME NEW s \in Server, s = client[c].own PROVE s <= started
    BY <1>1, <2>1 DEF OwnedBy, Server, NoServer
  <2>. QED
    BY <1>4, <2>1 DEF Dying
<1>6. server' \in [Server -> Process]
  BY <1>2, <1>3 DEF Dropped
<1>7. \A s \in Server : ~Binding(s)
  <2>. SUFFICES ASSUME NEW s \in Server, Binding(s) PROVE FALSE
    OBVIOUS
  <2>1. server[s] \in Process /\ server'[s].state = "listening" /\ server[s].state = "starting"
    BY <1>2 DEF Binding, Process
  <2>. QED
    BY <1>2, <1>4, <2>1 DEF Dead, Process
<1>8. ServersMove /\ ListenersMove
  BY <1>2, <1>5, <1>6, <1>7 DEF Dropped, ServersMove, ListenersMove, ServersInv, TypedServers
<1>9. TypedFiles'
  BY DEF Dropped, files, ServersInv, TypedFiles
<1>. QED
  BY <1>8, <1>9, ClientStep, IdleOK DEF Dropped, StepOK

\* A kernel starts a process, under the next number.
LEMMA SpawnStep ==
    ASSUME RecordAssumption, ServersInv, NEW c \in Kernel, Spawn(c)
    PROVE  StepOK
<1>. DEFINE new == [state |-> "starting", port |-> client[c].port, project |-> ProjectOf[c],
                    kernel |-> c]
<1>1. c \in Client /\ client[c] \in Doing /\ OwnedBy(c, client[c]) /\ ProjectOf[c] \in Project
  BY DEF ServersInv, Owned, RecordAssumption, Client
<1>2. server \in [Server -> Process] /\ started \in 0..MaxServers /\ MaxServers \in Nat
  BY DEF ServersInv, TypedServers, RecordAssumption
<1>3. started' = started + 1 /\ started' \in Server /\ started' # NoServer
  BY <1>2 DEF Spawn, Server, NoServer
<1>4. client[c].port \in Port /\ new \in Process
  BY <1>1 DEF Spawn, OwnedBy, Process
<1>5. server' = [server EXCEPT ![started'] = new]
  BY DEF Spawn
<1>6. server' \in [Server -> Process] /\ server'[started'] = new
      /\ \A s \in Server : s # started' => server'[s] = server[s]
  BY <1>2, <1>3, <1>4, <1>5
<1>7. Starting(started')
  BY <1>1, <1>3, <1>4, <1>6 DEF Starting
<1>8. \A s \in Server : ~Binding(s)
  <2>. SUFFICES ASSUME NEW s \in Server, Binding(s) PROVE FALSE
    OBVIOUS
  <2>1. server[s] \in Process /\ server'[s].state = "listening" /\ server[s].state = "starting"
    BY <1>2 DEF Binding, Process
  <2>. QED
    BY <1>6, <2>1
<1>9. ServersMove /\ ListenersMove
  <2>1. started <= started' /\ started' \in 0..MaxServers
    BY <1>2, <1>3 DEF Server
  <2>2. \A s \in Server : server'[s] = server[s] \/ Starting(s)
    BY <1>6, <1>7
  <2>. QED
    BY <1>6, <1>8, <2>1, <2>2 DEF Spawn, ServersMove, ListenersMove, ServersInv, TypedServers
<1>10. TypedFiles'
  BY DEF Spawn, files, ServersInv, TypedFiles
<1>11. PICK what \in Doing : /\ what = [client[c] EXCEPT !.phase = "connecting", !.own = started']
                             /\ what.own = started' /\ what.phase = "connecting"
                             /\ what.port = client[c].port
  <2>. DEFINE then == [client[c] EXCEPT !.phase = "connecting", !.own = started']
  <2>1. /\ then \in Doing /\ then.own = started' /\ then.phase = "connecting"
        /\ then.port = client[c].port
    BY <1>1, <1>3 DEF Doing
  <2>. QED
    BY <2>1
<1>12. client' = [client EXCEPT ![c] = what]
  BY <1>1, <1>11 DEF Spawn
<1>13. OwnedBy(c, what)'
  <2>2. started' \in Int
    BY <1>2, <1>3
  <2>3. /\ server'[started'].kernel = c /\ server'[started'].project = ProjectOf[c]
        /\ server'[started'].port = client[c].port
    BY <1>6
  <2>. HIDE DEF new
  <2>4. what.own <= started'
    BY <1>11, <2>2
  <2>. QED
    BY <1>3, <1>4, <1>11, <2>3, <2>4 DEF OwnedBy
<1>14. client' \in [Client -> Doing] /\ \A d \in Client :
          \E then \in Doing : client'[d] = then /\ (OwnedBy(d, then) \/ OwnedBy(d, then)')
  <2>1. client \in [Client -> Doing] /\ \A d \in Client : OwnedBy(d, client[d])
    BY DEF ServersInv, Owned
  <2>2. \A d \in Client : client'[d] = IF d = c THEN what ELSE client[d]
    BY <1>12, <2>1
  <2>3. client' \in [Client -> Doing]
    BY <1>11, <1>12, <2>1
  <2>4. ASSUME NEW d \in Client
        PROVE  \E then \in Doing : client'[d] = then /\ (OwnedBy(d, then) \/ OwnedBy(d, then)')
    <3>1. CASE d = c
      BY <1>13, <2>2, <3>1
    <3>2. CASE d # c
      <4>1. client[d] \in Doing /\ client'[d] = client[d] /\ OwnedBy(d, client[d])
        BY <2>1, <2>2, <3>2
      <4>. QED
        BY <4>1
    <3>. QED
      BY <3>1, <3>2
  <2>. QED
    BY <2>3, <2>4
<1>. QED
  BY <1>9, <1>10, <1>14 DEF StepOK

\* It connects to it, and records it.
LEMMA StartsStep ==
    ASSUME RecordAssumption, ServersInv, NEW c \in Kernel, Starts(c)
    PROVE  StepOK
<1>1. c \in Client /\ client[c] \in Doing /\ OwnedBy(c, client[c]) /\ ProjectOf[c] \in Project
  BY DEF ServersInv, Owned, RecordAssumption, Client
<1>2. CASE PickPort(c)
  <2>1. PICK port \in Port : Becomes(c, [client[c] EXCEPT !.phase = "picked", !.port = port])
    BY <1>2 DEF PickPort
  <2>. DEFINE what == [client[c] EXCEPT !.phase = "picked", !.port = port]
  <2>2. what \in Doing /\ OwnedBy(c, what)
    BY <1>1, <1>2 DEF PickPort, Doing, OwnedBy
  <2>. QED
    BY <1>1, <2>1, <2>2, BecomesStep
<1>3. CASE PortTaken(c)
  BY <1>1, <1>3, IdleOK, BecomesStep DEF PortTaken
<1>4. CASE Spawn(c)
  BY <1>4, SpawnStep
<1>5. CASE Connect(c)
  <2>1. PICK s \in Answers(client[c].port) :
            Becomes(c, [client[c] EXCEPT !.phase = "token", !.to = s]) \/ Dropped(c)
    BY <1>5 DEF Connect
  <2>. DEFINE what == [client[c] EXCEPT !.phase = "token", !.to = s]
  <2>2. what \in Doing /\ OwnedBy(c, what)
    BY <1>1, <1>5 DEF Connect, Doing, OwnedBy, Answers
  <2>. QED
    BY <1>1, <2>1, <2>2, BecomesStep, DroppedStep
<1>6. CASE GiveUp(c)
  BY <1>1, <1>6, DroppedStep DEF GiveUp
<1>7. ASSUME NEW at \in {"port", "connected"}, client[c].phase \in {"token", "port"},
             client' = [client EXCEPT ![c].phase = at],
             UNCHANGED <<server, started, strangers>>
      PROVE  /\ ServersMove /\ ListenersMove /\ client' \in [Client -> Doing]
             /\ \A d \in Client : \E then \in Doing : client'[d] = then /\ OwnedBy(d, then)
  <2>. DEFINE what == [client[c] EXCEPT !.phase = at]
  <2>1. what \in Doing /\ OwnedBy(c, what) /\ client' = [client EXCEPT ![c] = what]
    BY <1>1, <1>7 DEF Doing, OwnedBy
  <2>. HIDE DEF what
  <2>. QED
    BY <1>1, <1>7, <2>1, ServersStill, ClientStep
<1>8. CASE RecordToken(c)
  <2>1. TypedFiles'
    BY <1>1, <1>8 DEF RecordToken, ServersInv, TypedFiles, Doing
  <2>. QED
    BY <1>7, <1>8, <2>1 DEF RecordToken, StepOK
<1>9. CASE RecordPort(c)
  <2>1. TypedFiles'
    BY <1>1, <1>9 DEF RecordPort, ServersInv, TypedFiles, Doing
  <2>. QED
    BY <1>7, <1>9, <2>1 DEF RecordPort, StepOK
<1>. QED
  BY <1>2, <1>3, <1>4, <1>5, <1>6, <1>8, <1>9 DEF Starts

\* What goes on around them.
LEMMA AroundStep ==
    ASSUME RecordAssumption, ServersInv, Around
    PROVE  StepOK
<1>1. /\ client \in [Client -> Doing]
      /\ \A d \in Client : client[d] \in Doing /\ OwnedBy(d, client[d])
  BY DEF ServersInv, Owned
<1>2. server \in [Server -> Process] /\ started \in 0..MaxServers /\ strangers \subseteq Port
  BY DEF ServersInv, TypedServers
<1>3. crashes \in 0..MaxCrashes /\ MaxCrashes \in Nat
  BY DEF ServersInv, TypedFiles, RecordAssumption
<1>4. ASSUME NEW c \in Kernel, Exit(c) PROVE StepOK
  <2>1. c \in Client
    BY DEF Client
  <2>2. ServersMove /\ ListenersMove
    BY <1>4, ServersStill DEF Exit
  <2>3. TypedFiles'
    BY <1>3, <1>4 DEF Exit, files, ServersInv, TypedFiles
  <2>. QED
    BY <1>4, <2>1, <2>2, <2>3, ClientStep, IdleOK DEF Exit, StepOK
<1>5. ASSUME NEW s \in Server, Alive(s), server' = [server EXCEPT ![s] = Dead(s)],
             UNCHANGED <<started, strangers>>
      PROVE  ServersMove /\ ListenersMove
  <2>1. started \in Int /\ s \in Int
    BY <1>2 DEF Server
  <2>2. s <= started
    BY <1>5, <2>1 DEF ServersInv, Numbered, Alive, NotStarted
  <2>3. Dead(s) \in Process /\ Dead(s).state = "dead"
    BY <1>2 DEF Dead, Process
  <2>4. Dying(s) /\ \A t \in Server : t # s => server'[t] = server[t]
    BY <1>2, <1>5, <2>2 DEF Dying
  <2>5. server' \in [Server -> Process]
    BY <1>2, <1>5, <2>3
  <2>6. \A t \in Server : ~Binding(t)
    <3>. SUFFICES ASSUME NEW t \in Server, Binding(t) PROVE FALSE
      OBVIOUS
    <3>1. server[t] \in Process /\ server'[t].state = "listening" /\ server[t].state = "starting"
      BY <1>2 DEF Binding, Process
    <3>. QED
      BY <2>3, <2>4, <3>1 DEF Dying
  <2>. QED
    BY <1>2, <1>5, <2>1, <2>4, <2>5, <2>6 DEF ServersMove, ListenersMove
<1>6. ASSUME NEW s \in Server, Bind(s) PROVE ServersMove /\ ListenersMove
  <2>1. CASE Free(server[s].port)
    <3>1. server' = [server EXCEPT ![s] = [server[s] EXCEPT !.state = "listening"]]
      BY <1>2, <1>6, <2>1 DEF Bind
    <3>2. [server[s] EXCEPT !.state = "listening"] \in Process
      BY <1>2 DEF Process
    <3>3. Binding(s) /\ \A t \in Server : t # s => server'[t] = server[t]
      BY <1>2, <1>6, <2>1, <3>1 DEF Binding, Bind
    <3>4. server' \in [Server -> Process]
      BY <1>2, <3>1, <3>2
    <3>5. \A t \in Server : Binding(t) => t = s
      <4>. SUFFICES ASSUME NEW t \in Server, Binding(t), t # s PROVE FALSE
        OBVIOUS
      <4>1. server[t] \in Process /\ server'[t].state = "listening" /\ server[t].state = "starting"
        BY <1>2 DEF Binding, Process
      <4>. QED
        BY <3>3, <4>1
    <3>. QED
      BY <1>2, <1>6, <3>3, <3>4, <3>5 DEF Bind, ServersMove, ListenersMove
  <2>2. CASE ~Free(server[s].port)
    <3>1. Alive(s) /\ server' = [server EXCEPT ![s] = Dead(s)]
      BY <1>2, <1>6, <2>2 DEF Bind, Alive
    <3>. QED
      BY <1>5, <1>6, <3>1 DEF Bind
  <2>. QED
    BY <2>1, <2>2
<1>7. CASE \E s \in Server : Bind(s) \/ Orphaned(s) \/ Die(s)
  <2>1. ServersMove /\ ListenersMove
    BY <1>5, <1>6, <1>7 DEF Orphaned, Die
  <2>2. UNCHANGED client /\ TypedFiles'
    BY <1>3, <1>7 DEF Bind, Orphaned, Die, files, ServersInv, TypedFiles
  <2>. QED
    BY <1>1, <2>1, <2>2 DEF StepOK
<1>8. CASE \E port \in Port : StrangerComes(port) \/ StrangerGoes(port)
  <2>1. \A s \in Server : ~Binding(s)
    <3>. SUFFICES ASSUME NEW s \in Server, Binding(s) PROVE FALSE
      OBVIOUS
    <3>1. server[s] \in Process /\ server'[s].state = "listening" /\ server[s].state = "starting"
      BY <1>2 DEF Binding, Process
    <3>. QED
      BY <1>8, <3>1 DEF StrangerComes, StrangerGoes
  <2>2. ServersMove /\ ListenersMove
    BY <1>2, <1>8, <2>1 DEF StrangerComes, StrangerGoes, ServersMove, ListenersMove
  <2>3. UNCHANGED client /\ TypedFiles'
    BY <1>3, <1>8 DEF StrangerComes, StrangerGoes, files, ServersInv, TypedFiles
  <2>. QED
    BY <1>1, <2>2, <2>3 DEF StepOK
<1>. QED
  BY <1>4, <1>7, <1>8 DEF Around

LEMMA EveryStep ==
    ASSUME RecordAssumption, ServersInv, RecordNext
    PROVE  StepOK
<1>1. \A c \in Kernel : c \in Client
  BY DEF Client
<1>. QED
  BY <1>1, AttachesStep, StartsStep, AroundStep, DroppedStep DEF RecordNext, Lose

LEMMA NextServers ==
    ASSUME RecordAssumption, ServersInv, [RecordNext]_recordVars
    PROVE  ServersInv'
<1>1. CASE RecordNext
  BY <1>1, EveryStep, StepKeeps
<1>2. CASE UNCHANGED recordVars
  BY <1>2 DEF recordVars, ServersInv, TypedFiles, TypedServers, Numbered, Alive, Owned, OwnedBy,
              OneListener, Answers, Listening
<1>. QED
  BY <1>1, <1>2

LEMMA InitServers == RecordAssumption /\ RecordInit => ServersInv
<1>. SUFFICES ASSUME RecordAssumption, RecordInit PROVE ServersInv
  OBVIOUS
<1>1. NotStarted \in Process /\ MaxServers \in Nat /\ MaxCrashes \in Nat
  BY DEF NotStarted, Process, RecordAssumption, NoPort
<1>2. TypedFiles /\ TypedServers
  BY <1>1 DEF RecordInit, TypedFiles, TypedServers, NotRecorded, NoPort, NoServer
<1>3. \A s \in Server : server[s] = NotStarted /\ ~Alive(s) /\ ~Listening(s)
  BY DEF RecordInit, NotStarted, Alive, Listening
<1>4. Numbered /\ OneListener
  BY <1>3 DEF RecordInit, Numbered, OneListener, Answers
<1>5. Owned
  BY IdleOK DEF RecordInit, Owned
<1>. QED
  BY <1>2, <1>4, <1>5 DEF ServersInv

LEMMA ServersAlways == RecordAssumption => (RecordSpec => []ServersInv)
<1>. SUFFICES ASSUME RecordAssumption PROVE RecordSpec => []ServersInv
  OBVIOUS
<1>1. ServersInv /\ [RecordNext]_recordVars => ServersInv'
  BY NextServers
<1>2. RecordInit => ServersInv
  BY InitServers
<1>. QED
  BY <1>1, <1>2, PTL DEF RecordSpec

LEMMA NextTogether == together \subseteq Project /\ [RecordNext]_recordVars => together' \subseteq Project'
BY DEF RecordNext, Meeting, recordVars

\* The record and its clients keep their types; a kernel has a process of its own
\* only while it starts it or since it did; and a port has one listener, whichever
\* servers start, bind and end and whichever strangers come and go.
THEOREM RecordTyped == RecordAssumption => (RecordSpec => []RecordTypeOK)
<1>. SUFFICES ASSUME RecordAssumption PROVE RecordSpec => []RecordTypeOK
  OBVIOUS
<1>1. ServersInv /\ together \subseteq Project => RecordTypeOK
  <2>. SUFFICES ASSUME ServersInv, together \subseteq Project PROVE RecordTypeOK
    OBVIOUS
  <2>1. \A port \in Port : Cardinality(Answers(port)) <= 1
    <3>. SUFFICES ASSUME NEW port \in Port PROVE Cardinality(Answers(port)) <= 1
      OBVIOUS
    <3>1. CASE Answers(port) = {}
      BY <3>1, FS_EmptySet
    <3>2. CASE \E s : s \in Answers(port)
      <4>1. PICK s : Answers(port) = {s}
        BY <3>2 DEF ServersInv, OneListener
      <4>. QED
        BY <4>1, FS_Singleton
    <3>. QED
      BY <3>1, <3>2
  <2>. QED
    BY <2>1 DEF RecordTypeOK, ServersInv, TypedFiles, TypedServers, Process, Owned, OwnedBy, Doing
<1>2. RecordInit => together \subseteq Project
  BY DEF RecordInit
<1>3. together \subseteq Project /\ [RecordNext]_recordVars => (together \subseteq Project)'
  BY NextTogether
<1>4. RecordSpec => []ServersInv
  BY ServersAlways
<1>. QED
  BY <1>1, <1>2, <1>3, <1>4, PTL DEF RecordSpec

-----------------------------------------------------------------------------
(* Whoever is connected talks to a server of its own project.                 *)

\* A server that was let listen once: it listens still, or is dead for good.
Bound(s) == s \in Server => server[s].state \in {"listening", "dead"}

\* What a client knows is of servers that have listened.  It is connected to one of its
\* project, and a kernel that has connected to the port it picked to the one it started.
ServedBy(c, what) ==
    /\ Bound(what.by) /\ Bound(what.token) /\ Bound(what.to)
    /\ what.phase = "connecting" => what.port \notin strangers
    /\ what.phase \in {"token", "port"} => what.to = what.own
    /\ what.phase = "connected" => ServesProject(what.to, ProjectOf[c])

TruthfulFiles ==
    \A project \in Project :
        /\ Bound(portFile[project].by) /\ Bound(tokenFile[project])
        /\ tokenFile[project] # NoServer => ServesProject(tokenFile[project], project)

ServedInv == TruthfulFiles /\ \A c \in Client : ServedBy(c, client[c])

\* A server that has listened does not listen again, and stays of its project.
LEMMA BoundStays ==
    ASSUME TypedServers, Numbered, ServersMove, NEW s, Bound(s)
    PROVE  /\ Bound(s)'
           /\ Listening(s)' => Listening(s) /\ server'[s].port = server[s].port
           /\ \A project : ServesProject(s, project) => ServesProject(s, project)'
<1>1. CASE s \notin Server
  BY <1>1 DEF Bound, Listening, ServesProject
<1>2. CASE s \in Server
  <2>1. server[s].state \in {"listening", "dead"}
    BY <1>2 DEF Bound
  <2>2. started \in Int /\ s \in Int /\ s <= started
    BY <1>2, <2>1 DEF TypedServers, Server, Numbered, NotStarted
  <2>3. ~Binding(s) /\ ~Starting(s)
    BY <2>1, <2>2 DEF Binding, Starting
  <2>4. server'[s] = server[s] \/ server'[s] = Dead(s)
    BY <1>2, <2>3 DEF ServersMove, Dying
  <2>5. Dead(s).state = "dead" /\ Dead(s).project = server[s].project
    BY <1>2 DEF Dead, TypedServers, Process
  <2>. QED
    BY <1>2, <2>1, <2>4, <2>5 DEF Bound, Listening, ServesProject
<1>. QED
  BY <1>1, <1>2

\* What a client goes on with stays true, unless a stranger takes the port that was
\* picked for its server.
LEMMA ServedStays ==
    ASSUME TypedServers, Numbered, ServersMove, NEW c \in Client, NEW what, ServedBy(c, what),
           what.phase = "connecting" => what.port \notin strangers' \ strangers
    PROVE  ServedBy(c, what)'
<1>1. Bound(what.by)' /\ Bound(what.token)' /\ Bound(what.to)'
  BY BoundStays DEF ServedBy
<1>2. what.phase = "connected" => ServesProject(what.to, ProjectOf[c])'
  BY BoundStays DEF ServedBy
<1>. QED
  BY <1>1, <1>2 DEF ServedBy

\* A client goes on to what is true of it.
LEMMA ServedClient ==
    ASSUME ServedInv, Owned, NEW c \in Client, NEW what, ServedBy(c, what),
           client' = [client EXCEPT ![c] = what]
    PROVE  \A d \in Client : ServedBy(d, client'[d])
BY DEF ServedInv, Owned

\* Who answers has been let listen.
LEMMA AnswererBound ==
    ASSUME RecordAssumption, NEW port, NEW s \in Answers(port)
    PROVE  Bound(s)
BY DEF Answers, Bound, Listening, RecordAssumption, Server

LEMMA IdleServed ==
    ASSUME NEW c \in Client
    PROVE  ServedBy(c, Unoccupied) /\ ServedBy(c, Missed(c))
<1>1. Bound(NoServer)
  BY DEF Bound, Server, NoServer
<1>2. Unoccupied.by = NoServer /\ Unoccupied.token = NoServer /\ Unoccupied.to = NoServer /\ Unoccupied.phase = "idle"
  BY DEF Unoccupied
<1>3. Missed(c) \in {Unoccupied, [Unoccupied EXCEPT !.phase = "starting"]}
  BY DEF Missed
<1>4. ServedBy(c, Unoccupied)
  BY <1>1, <1>2 DEF ServedBy
<1>5. ServedBy(c, [Unoccupied EXCEPT !.phase = "starting"])
  BY <1>1 DEF ServedBy, Unoccupied
<1>. QED
  BY <1>3, <1>4, <1>5

\* Attaching, a client asks whoever answers which project it serves.
LEMMA AttachesServed ==
    ASSUME RecordAssumption, ServersInv, ServedInv, NEW c \in Client, Attaches(c)
    PROVE  \E what : ServedBy(c, what) /\ Becomes(c, what)
<1>1. client[c] \in Doing /\ ServedBy(c, client[c]) /\ ProjectOf[c] \in Project
  BY DEF ServersInv, Owned, ServedInv, RecordAssumption
<1>2. Bound(NoServer)
  BY DEF Bound, Server, NoServer
<1>3. Bound(Recorded(c).by) /\ Bound(tokenFile[ProjectOf[c]])
  BY <1>1 DEF ServedInv, TruthfulFiles, Recorded
<1>4. CASE FindNothing(c) \/ AttachFails(c)
  BY <1>4, IdleServed DEF FindNothing, AttachFails
<1>5. CASE ReadPort(c)
  <2>. DEFINE what == [Unoccupied EXCEPT !.phase = "reading", !.port = Recorded(c).port,
                                   !.by = Recorded(c).by]
  <2>1. ServedBy(c, what)
    BY <1>2, <1>3 DEF ServedBy, Unoccupied
  <2>. QED
    BY <1>5, <2>1 DEF ReadPort
<1>6. CASE ReadToken(c)
  <2>. DEFINE what == [client[c] EXCEPT !.phase = "attaching", !.token = tokenFile[ProjectOf[c]]]
  <2>1. ServedBy(c, what)
    BY <1>1, <1>3 DEF ServedBy, Doing
  <2>. QED
    BY <1>6, <2>1 DEF ReadToken
<1>7. CASE Attach(c)
  <2>1. PICK s \in Answers(client[c].port) :
            Becomes(c, [Unoccupied EXCEPT !.phase = "asking", !.port = client[c].port, !.to = s])
    BY <1>7 DEF Attach
  <2>. DEFINE what == [Unoccupied EXCEPT !.phase = "asking", !.port = client[c].port, !.to = s]
  <2>2. ServedBy(c, what)
    BY <1>2, AnswererBound DEF ServedBy, Unoccupied
  <2>. QED
    BY <2>1, <2>2
<1>8. CASE AskProject(c)
  <2>. DEFINE what == [client[c] EXCEPT !.phase = "connected"]
  <2>1. ServesProject(client[c].to, ProjectOf[c]) => ServedBy(c, what)
    BY <1>1 DEF ServedBy, Doing
  <2>. QED
    BY <1>8, <2>1, IdleServed DEF AskProject
<1>. QED
  BY <1>4, <1>5, <1>6, <1>7, <1>8 DEF Attaches

\* Nobody else listens on the port a kernel has picked but its own server.
LEMMA ConnectServed ==
    ASSUME RecordAssumption, ServersInv, ServedInv, NEW c \in Kernel, Connect(c)
    PROVE  Dropped(c) \/ \E what : ServedBy(c, what) /\ Becomes(c, what)
<1>1. c \in Client /\ client[c] \in Doing /\ ServedBy(c, client[c]) /\ OwnedBy(c, client[c])
  BY DEF ServersInv, Owned, ServedInv, Client
<1>2. CASE Dropped(c)
  BY <1>2
<1>3. CASE ~Dropped(c)
  <2>1. PICK s \in Answers(client[c].port) :
            /\ LetsIn(s, client[c].own)
            /\ Becomes(c, [client[c] EXCEPT !.phase = "token", !.to = s])
    BY <1>3 DEF Connect
  <2>2. s = client[c].own
    BY <1>1, <2>1 DEF Connect, ServedBy, LetsIn, Answers, RecordAssumption, Server
  <2>3. Bound(s)
    BY AnswererBound
  <2>. DEFINE what == [client[c] EXCEPT !.phase = "token", !.to = s]
  <2>4. ServedBy(c, what)
    BY <1>1, <2>2, <2>3 DEF ServedBy, Doing
  <2>. QED
    BY <2>1, <2>4
<1>. QED
  BY <1>2, <1>3

\* A step does to the record and to what clients know what keeps it true.
FilesTruthful ==
    \A project \in Project : \E recorded, token :
        /\ portFile'[project] = recorded /\ tokenFile'[project] = token
        /\ Bound(recorded.by) /\ Bound(token)
        /\ token # NoServer => ServesProject(token, project)

ClientsServed ==
    /\ \A c \in Client : \E what : client'[c] = what /\ ServedBy(c, what)
    /\ strangers' \subseteq strangers \/ client' = client

LEMMA ServedStep ==
    ASSUME TypedServers, Numbered, Owned, ServersMove, FilesTruthful, ClientsServed, Unusurped
    PROVE  ServedInv'
<1>1. ASSUME NEW c \in Client PROVE ServedBy(c, client[c])'
  <2>1. PICK what : client'[c] = what /\ ServedBy(c, what)
    BY DEF ClientsServed
  <2>2. what.phase = "connecting" => what.port \notin strangers' \ strangers
    BY <2>1 DEF ClientsServed, Owned, OwnedBy, Unusurped
  <2>3. ServedBy(c, what)'
    BY <2>1, <2>2, ServedStays
  <2>. QED
    BY <2>1, <2>3 DEF ServedBy
<1>2. ASSUME NEW project \in Project
      PROVE  (/\ Bound(portFile[project].by) /\ Bound(tokenFile[project])
              /\ tokenFile[project] # NoServer => ServesProject(tokenFile[project], project))'
  <2>1. PICK recorded, token :
            /\ portFile'[project] = recorded /\ tokenFile'[project] = token
            /\ Bound(recorded.by) /\ Bound(token)
            /\ token # NoServer => ServesProject(token, project)
    BY DEF FilesTruthful
  <2>2. Bound(recorded.by)' /\ Bound(token)' /\ (token # NoServer => ServesProject(token, project)')
    BY <2>1, BoundStays
  <2>. QED
    BY <2>1, <2>2
<1>. QED
  BY <1>1, <1>2 DEF ServedInv, TruthfulFiles

\* A step that leaves the record alone.
LEMMA FilesStill ==
    ASSUME ServedInv, UNCHANGED files
    PROVE  FilesTruthful
BY DEF ServedInv, TruthfulFiles, FilesTruthful, files

\* A client that goes on to something true.
LEMMA OneServed ==
    ASSUME ServedInv, Owned, NEW c \in Client, NEW what, ServedBy(c, what),
           client' = [client EXCEPT ![c] = what], UNCHANGED strangers
    PROVE  ClientsServed
BY ServedClient DEF ClientsServed

\* What kernels do when they start a server.
LEMMA StartsServed ==
    ASSUME RecordAssumption, ServersInv, ServedInv, NEW c \in Kernel, Starts(c)
    PROVE  FilesTruthful /\ ClientsServed
<1>1. c \in Client /\ client[c] \in Doing /\ ServedBy(c, client[c]) /\ OwnedBy(c, client[c])
      /\ Owned /\ ProjectOf[c] \in Project
  BY DEF ServersInv, Owned, ServedInv, Client, RecordAssumption
<1>2. CASE PickPort(c)
  <2>1. PICK port : Becomes(c, [client[c] EXCEPT !.phase = "picked", !.port = port])
    BY <1>2 DEF PickPort
  <2>. DEFINE what == [client[c] EXCEPT !.phase = "picked", !.port = port]
  <2>2. ServedBy(c, what)
    BY <1>1 DEF ServedBy, Doing
  <2>. QED
    BY <1>1, <2>1, <2>2, FilesStill, OneServed DEF Becomes
<1>3. CASE PortTaken(c)
  BY <1>1, <1>3, IdleServed, FilesStill, OneServed DEF PortTaken, Becomes
<1>4. CASE Spawn(c)
  <2>. DEFINE what == [client[c] EXCEPT !.phase = "connecting", !.own = started']
  <2>1. client[c].port \notin strangers
    BY <1>4 DEF Spawn, Free, Answers
  <2>2. /\ what.by = client[c].by /\ what.token = client[c].token /\ what.to = client[c].to
        /\ what.phase = "connecting" /\ what.port = client[c].port
    BY <1>1 DEF Doing
  <2>3. ServedBy(c, what)
    BY <1>1, <2>1, <2>2 DEF ServedBy
  <2>4. client' = [client EXCEPT ![c] = what] /\ UNCHANGED <<files, strangers>>
    BY <1>1, <1>4 DEF Spawn
  <2>. HIDE DEF what
  <2>. QED
    BY <1>1, <2>3, <2>4, FilesStill, OneServed
<1>5. CASE Dropped(c)
  BY <1>1, <1>5, IdleServed, FilesStill, OneServed DEF Dropped
<1>6. CASE Connect(c)
  <2>1. CASE \E what : ServedBy(c, what) /\ Becomes(c, what)
    BY <1>1, <2>1, FilesStill, OneServed DEF Becomes
  <2>. QED
    BY <1>5, <1>6, <2>1, ConnectServed
<1>7. ASSUME client[c].phase \in {"token", "port"}
      PROVE  /\ client[c].to = client[c].own /\ Bound(client[c].own)
             /\ ServesProject(client[c].own, ProjectOf[c])
  BY <1>1, <1>7 DEF ServedBy, OwnedBy, ServesProject, Doing
<1>8. ASSUME NEW at \in {"port", "connected"}, client[c].phase \in {"token", "port"},
             client' = [client EXCEPT ![c].phase = at], UNCHANGED strangers
      PROVE  ClientsServed
  <2>. DEFINE what == [client[c] EXCEPT !.phase = at]
  <2>1. ServedBy(c, what)
    BY <1>1, <1>7, <1>8 DEF ServedBy, Doing
  <2>2. client' = [client EXCEPT ![c] = what]
    BY <1>1, <1>8 DEF Doing
  <2>. HIDE DEF what
  <2>. QED
    BY <1>1, <1>8, <2>1, <2>2, OneServed
<1>9. \A project \in Project :
         /\ Bound(portFile[project].by) /\ Bound(tokenFile[project])
         /\ tokenFile[project] # NoServer => ServesProject(tokenFile[project], project)
  BY DEF ServedInv, TruthfulFiles
<1>10. CASE RecordToken(c)
  <2>1. /\ portFile' = portFile
        /\ \A project \in Project : tokenFile'[project] =
              IF project = ProjectOf[c] THEN client[c].own ELSE tokenFile[project]
    BY <1>1, <1>10 DEF RecordToken, ServersInv, TypedFiles
  <2>2. FilesTruthful
    BY <1>7, <1>9, <1>10, <2>1 DEF RecordToken, FilesTruthful
  <2>. QED
    BY <1>8, <1>10, <2>2 DEF RecordToken
<1>11. CASE RecordPort(c)
  <2>1. /\ tokenFile' = tokenFile
        /\ \A project \in Project : portFile'[project] =
              IF project = ProjectOf[c] THEN [port |-> client[c].port, by |-> client[c].own]
              ELSE portFile[project]
    BY <1>1, <1>11 DEF RecordPort, ServersInv, TypedFiles
  <2>2. FilesTruthful
    BY <1>7, <1>9, <1>11, <2>1 DEF RecordPort, FilesTruthful
  <2>. QED
    BY <1>8, <1>11, <2>2 DEF RecordPort
<1>. QED
  BY <1>2, <1>3, <1>4, <1>5, <1>6, <1>10, <1>11 DEF Starts, GiveUp

LEMMA NextServed ==
    ASSUME RecordAssumption, ServersInv, ServedInv, [RecordNext /\ Unusurped]_recordVars
    PROVE  ServedInv'
<1>1. CASE RecordNext /\ Unusurped
  <2>1. TypedServers /\ Numbered /\ Owned /\ ServersMove
    BY <1>1, EveryStep DEF ServersInv, StepOK
  <2>2. FilesTruthful /\ ClientsServed
    <3>1. ASSUME NEW c \in Client, Attaches(c) PROVE FilesTruthful /\ ClientsServed
      BY <2>1, <3>1, AttachesServed, FilesStill, OneServed DEF Becomes
    <3>2. ASSUME NEW c \in Client, Lose(c) PROVE FilesTruthful /\ ClientsServed
      BY <2>1, <3>2, IdleServed, FilesStill, OneServed DEF Lose, Dropped
    <3>3. ASSUME NEW c \in Kernel, Exit(c) PROVE FilesTruthful /\ ClientsServed
      <4>1. c \in Client
        BY DEF Client
      <4>. QED
        BY <2>1, <3>3, <4>1, IdleServed, FilesStill, OneServed DEF Exit
    <3>4. CASE UNCHANGED <<client, files>>
      BY <3>4, FilesStill DEF ClientsServed, ServedInv
    <3>5. CASE Around
      BY <3>3, <3>4, <3>5
         DEF Around, Bind, Orphaned, Die, StrangerComes, StrangerGoes
    <3>. QED
      BY <1>1, <3>1, <3>2, <3>5, StartsServed DEF RecordNext
  <2>. QED
    BY <1>1, <2>1, <2>2, ServedStep
<1>2. CASE UNCHANGED recordVars
  BY <1>2 DEF recordVars, ServedInv, TruthfulFiles, ServedBy, Bound, ServesProject
<1>. QED
  BY <1>1, <1>2

LEMMA InitServed == RecordInit => ServedInv
<1>. SUFFICES ASSUME RecordInit PROVE ServedInv
  OBVIOUS
<1>1. Bound(NoServer)
  BY DEF Bound, Server, NoServer
<1>. QED
  BY <1>1, IdleServed DEF RecordInit, ServedInv, TruthfulFiles, NotRecorded

LEMMA ServedAlways ==
    RecordAssumption => (RecordInit /\ [][RecordNext /\ Unusurped]_recordVars => [](ServersInv /\ ServedInv))
<1>. SUFFICES ASSUME RecordAssumption
              PROVE  RecordInit /\ [][RecordNext /\ Unusurped]_recordVars => [](ServersInv /\ ServedInv)
  OBVIOUS
<1>1. ServersInv /\ ServedInv /\ [RecordNext /\ Unusurped]_recordVars => (ServersInv /\ ServedInv)'
  BY NextServers, NextServed
<1>2. RecordInit => ServersInv /\ ServedInv
  BY InitServers, InitServed
<1>. QED
  BY <1>1, <1>2, PTL

\* While servers get the ports that were picked for them, whoever is connected talks
\* to a server of its own project: however many kernels, servers and strangers there
\* are, however ports are taken over by others and records outlive their servers.
THEOREM ProjectsApart ==
    RecordAssumption => (RecordInit /\ [][RecordNext /\ Unusurped]_recordVars => []OwnProject)
<1>. SUFFICES ASSUME RecordAssumption PROVE RecordInit /\ [][RecordNext /\ Unusurped]_recordVars => []OwnProject
  OBVIOUS
<1>1. ServedInv => OwnProject
  BY DEF ServedInv, ServedBy, OwnProject
<1>2. RecordInit /\ [][RecordNext /\ Unusurped]_recordVars => [](ServersInv /\ ServedInv)
  BY ServedAlways
<1>. QED
  BY <1>1, <1>2, PTL

-----------------------------------------------------------------------------
(* While no two kernels of a project connect at once.                         *)

\* Who attaches by the record of a project finds the server of its token.
Findable(project) ==
    /\ Listening(tokenFile[project])
    /\ server[tokenFile[project]].port = portFile[project].port

\* The files belong together when the server of the port file listens.
FilesPaired ==
    \A project \in Project \ together :
        Listening(portFile[project].by) =>
            tokenFile[project] = portFile[project].by /\ Findable(project)

\* What a client has read is still recorded, as far as it is of a server that listens.
\* Kernels start servers only where none can be found; and the one they are connected to
\* is the one to be found.
PairedTo(c, what) ==
    /\ what.phase = "reading" /\ Listening(what.by) => what.by = Recorded(c).by
    /\ what.phase = "attaching" /\ Listening(what.by) => what.token = what.by
    /\ c \in Kernel =>
          /\ what.phase \in {"reading", "attaching", "asking"} => what.port = Recorded(c).port
          /\ what.phase = "attaching" => what.token = tokenFile[ProjectOf[c]]
          /\ what.phase = "asking" =>
                /\ what.to \in {Stranger, tokenFile[ProjectOf[c]]}
                /\ Findable(ProjectOf[c]) => what.to = tokenFile[ProjectOf[c]]
          /\ what.phase \in {"starting", "picked", "connecting", "token"} =>
                ~Findable(ProjectOf[c])
          /\ what.phase = "port" => tokenFile[ProjectOf[c]] = what.own
          /\ what.phase = "connected" /\ what.to \in Answers(what.port) =>
                what.to = tokenFile[ProjectOf[c]] /\ what.port = Recorded(c).port

\* Kernels that connect at once are noticed.
Noticed ==
    \A c, d \in Kernel :
        c # d /\ ProjectOf[c] = ProjectOf[d] /\ Connecting(c) /\ Connecting(d) =>
            ProjectOf[c] \in together

PairedInv ==
    /\ Noticed /\ FilesPaired
    /\ \A c \in Client : ProjectOf[c] \notin together => PairedTo(c, client[c])

\* What is paired stays so, as servers come and go.
LEMMA PairedStays ==
    ASSUME RecordAssumption, ServersInv, ServedInv, ServersMove, UNCHANGED files,
           NEW c \in Client, NEW what, ServedBy(c, what), PairedTo(c, what)
    PROVE  PairedTo(c, what)'
<1>. DEFINE project == ProjectOf[c]
<1>1. TypedServers /\ Numbered /\ project \in Project
  BY DEF ServersInv, RecordAssumption
<1>2. Bound(tokenFile[project])
  BY <1>1 DEF ServedInv, TruthfulFiles
<1>3. tokenFile' = tokenFile /\ portFile' = portFile
  BY DEF files
<1>4. Findable(project)' => Findable(project)
  <2>1. PICK token : token = tokenFile[project] /\ token = tokenFile'[project]
    BY <1>3
  <2>2. Listening(token)' => Listening(token) /\ server'[token].port = server[token].port
    BY <1>1, <1>2, <2>1, BoundStays
  <2>. QED
    BY <1>3, <2>1, <2>2 DEF Findable
<1>5. Listening(what.by)' => Listening(what.by)
  BY <1>1, BoundStays DEF ServedBy
<1>6. what.phase = "connected" /\ what.to \in Answers(what.port)' => what.to \in Answers(what.port)
  <2>. SUFFICES ASSUME what.phase = "connected", what.to \in Answers(what.port)'
                PROVE  what.to \in Answers(what.port)
    OBVIOUS
  <2>1. what.to \in Server /\ what.to # Stranger
    BY DEF ServedBy, ServesProject, RecordAssumption, Server
  <2>2. Listening(what.to)' /\ server'[what.to].port = what.port
    BY <2>1 DEF Answers
  <2>3. Listening(what.to) /\ server'[what.to].port = server[what.to].port
    BY <1>1, <2>2, BoundStays DEF ServedBy
  <2>. QED
    BY <2>1, <2>2, <2>3 DEF Answers
<1>. HIDE DEF project
<1>7. Recorded(c)' = Recorded(c)
  BY <1>3 DEF Recorded
<1>. QED
  BY <1>3, <1>4, <1>5, <1>6, <1>7 DEF PairedTo, project

\* The files stay paired while they are left alone.
LEMMA FilesPairedStay ==
    ASSUME RecordAssumption, ServersInv, ServedInv, ServersMove, FilesPaired, UNCHANGED files,
           together \subseteq together'
    PROVE  FilesPaired'
<1>. SUFFICES ASSUME NEW project \in Project \ together', Listening(portFile[project].by)'
              PROVE  (tokenFile[project] = portFile[project].by /\ Findable(project))'
  BY DEF FilesPaired
<1>1. TypedServers /\ Numbered /\ tokenFile' = tokenFile /\ portFile' = portFile
  BY DEF ServersInv, files
<1>2. PICK s : s = portFile[project].by /\ s = portFile'[project].by
  BY <1>1
<1>3. Listening(s) /\ server'[s].port = server[s].port
  <2>1. Bound(s)
    BY <1>2 DEF ServedInv, TruthfulFiles
  <2>2. Listening(s)'
    BY <1>2
  <2>. QED
    BY <1>1, <2>1, <2>2, BoundStays
<1>4. tokenFile[project] = s /\ server[s].port = portFile[project].port
  BY <1>2, <1>3 DEF FilesPaired, Findable
<1>. QED
  BY <1>1, <1>2, <1>3, <1>4 DEF Findable

\* Two kernels that connect are more than one.
LEMMA TwoNoticed ==
    ASSUME RecordAssumption, RecordNext
    PROVE  Noticed' /\ together \subseteq together'
<1>1. together' = together \cup Meeting'
  BY DEF RecordNext
<1>2. ASSUME NEW S, IsFiniteSet(S), NEW a \in S, NEW b \in S, a # b
      PROVE  Cardinality(S) > 1
  <2>1. IsFiniteSet({b}) /\ Cardinality({b}) = 1
    BY FS_Singleton
  <2>2. Cardinality({b} \cup {a}) = 2
    <3>1. a \notin {b}
      BY <1>2
    <3>2. Cardinality({b} \cup {a}) = Cardinality({b}) + 1
      BY <2>1, <3>1, FS_AddElement
    <3>. QED
      BY <2>1, <3>2
  <2>3. Cardinality({b} \cup {a}) <= Cardinality(S) /\ Cardinality(S) \in Nat
    BY <1>2, FS_Subset, FS_CardinalityType
  <2>. QED
    BY <2>2, <2>3
<1>3. ASSUME NEW c \in Kernel, NEW d \in Kernel, c # d, ProjectOf[c] = ProjectOf[d],
             Connecting(c)', Connecting(d)'
      PROVE  ProjectOf[c] \in Meeting'
  <2>. DEFINE S == {k \in Kernel : ProjectOf[k] = ProjectOf[c] /\ Connecting(k)'}
  <2>1. S \subseteq Kernel /\ IsFiniteSet(S)
    BY FS_Subset DEF RecordAssumption
  <2>2. c \in S /\ d \in S
    BY <1>3
  <2>3. Cardinality(S) > 1
    BY <1>2, <1>3, <2>1, <2>2
  <2>4. ProjectOf[c] \in Project
    BY DEF RecordAssumption, Client
  <2>. QED
    BY <2>3, <2>4 DEF Meeting
<1>. QED
  BY <1>1, <1>3 DEF Noticed

\* A client that has nothing is paired; one that starts a server finds none.
LEMMA MissedPaired ==
    ASSUME NEW c \in Client, ~Findable(ProjectOf[c])
    PROVE  PairedTo(c, Missed(c))
BY DEF PairedTo, Missed, Unoccupied

LEMMA IdlePaired == ASSUME NEW c \in Client PROVE PairedTo(c, Unoccupied)
BY DEF PairedTo, Unoccupied

\* A kernel that attaches by a record finds the server to be found.
LEMMA AttachesPaired ==
    ASSUME RecordAssumption, ServersInv, ServedInv, PairedInv, NEW c \in Client, Attaches(c),
           ProjectOf[c] \notin together
    PROVE  \E what : ServedBy(c, what) /\ PairedTo(c, what) /\ Becomes(c, what)
<1>. DEFINE project == ProjectOf[c]
<1>1. /\ client[c] \in Doing /\ ServedBy(c, client[c]) /\ PairedTo(c, client[c])
      /\ project \in Project
  BY DEF ServersInv, Owned, ServedInv, PairedInv, RecordAssumption
<1>2. PICK what : ServedBy(c, what) /\ Becomes(c, what)
  BY AttachesServed
<1>3. what = client'[c]
  BY <1>2 DEF Becomes, ServersInv, Owned
<1>. SUFFICES PairedTo(c, what)
  BY <1>2
<1>4. OneListener /\ client \in [Client -> Doing]
  BY DEF ServersInv, Owned
<1>5. Findable(project) => Recorded(c).port \in Port /\ tokenFile[project] \in Answers(Recorded(c).port)
  BY <1>1 DEF Findable, Listening, Alive, ServersInv, Numbered, Recorded, Answers
<1>6. CASE FindNothing(c)
  <2>1. ~Findable(project)
    <3>1. Recorded(c).port = NoPort
      BY <1>6 DEF FindNothing, NotRecorded
    <3>2. NoPort \notin Port
      BY DEF RecordAssumption
    <3>. QED
      BY <1>5, <3>1, <3>2
  <2>2. what = Missed(c)
    BY <1>3, <1>4, <1>6 DEF FindNothing, Becomes
  <2>. QED
    BY <2>1, <2>2, MissedPaired
<1>7. CASE ReadPort(c)
  <2>1. what = [Unoccupied EXCEPT !.phase = "reading", !.port = Recorded(c).port, !.by = Recorded(c).by]
    BY <1>3, <1>4, <1>7 DEF ReadPort, Becomes
  <2>. QED
    BY <2>1 DEF PairedTo, Unoccupied
<1>8. CASE ReadToken(c)
  <2>1. what = [client[c] EXCEPT !.phase = "attaching", !.token = tokenFile[project]]
    BY <1>3, <1>4, <1>8 DEF ReadToken, Becomes
  <2>2. /\ what.phase = "attaching" /\ what.token = tokenFile[project]
        /\ what.by = client[c].by /\ what.port = client[c].port
    BY <1>1, <2>1 DEF Doing
  <2>3. Listening(client[c].by) => tokenFile[project] = client[c].by
    BY <1>1, <1>8 DEF ReadToken, PairedTo, PairedInv, FilesPaired, Recorded
  <2>4. c \in Kernel => client[c].port = Recorded(c).port
    BY <1>1, <1>8 DEF ReadToken, PairedTo
  <2>. QED
    BY <2>2, <2>3, <2>4 DEF PairedTo
<1>9. CASE Attach(c)
  <2>1. PICK s \in Answers(client[c].port) :
            /\ LetsIn(s, client[c].token)
            /\ what = [Unoccupied EXCEPT !.phase = "asking", !.port = client[c].port, !.to = s]
    BY <1>3, <1>4, <1>9 DEF Attach, Becomes
  <2>2. what.phase = "asking" /\ what.port = client[c].port /\ what.to = s
    BY <2>1 DEF Unoccupied
  <2>3. ASSUME c \in Kernel
        PROVE  /\ client[c].port = Recorded(c).port /\ s \in {Stranger, tokenFile[project]}
               /\ Findable(project) => s = tokenFile[project]
    <3>1. client[c].port = Recorded(c).port /\ client[c].token = tokenFile[project]
      BY <1>1, <1>9, <2>3 DEF Attach, PairedTo
    <3>. QED
      BY <1>4, <1>5, <2>1, <3>1 DEF LetsIn, OneListener
  <2>. QED
    BY <2>2, <2>3 DEF PairedTo
<1>10. CASE AttachFails(c)
  <2>1. what = Missed(c)
    BY <1>3, <1>4, <1>10 DEF AttachFails, Becomes
  <2>2. CASE c \in Kernel
    <3>1. client[c].port = Recorded(c).port /\ client[c].token = tokenFile[project]
      BY <1>1, <1>10, <2>2 DEF AttachFails, PairedTo
    <3>2. ~Findable(project)
      BY <1>5, <1>10, <3>1 DEF AttachFails, LetsIn
    <3>. QED
      BY <2>1, <3>2, MissedPaired
  <2>3. CASE c \notin Kernel
    BY <2>1, <2>3, IdlePaired DEF Missed
  <2>. QED
    BY <2>2, <2>3
<1>11. CASE AskProject(c)
  <2>1. CASE c \notin Kernel
    <3>1. what = [client[c] EXCEPT !.phase = "connected"] \/ what = Unoccupied
      BY <1>3, <1>4, <1>11, <2>1 DEF AskProject, Becomes, Missed
    <3>2. [client[c] EXCEPT !.phase = "connected"].phase = "connected"
      BY <1>1 DEF Doing
    <3>. QED
      BY <2>1, <3>1, <3>2, IdlePaired DEF PairedTo
  <2>2. CASE c \in Kernel
    <3>1. /\ client[c].port = Recorded(c).port /\ client[c].to \in {Stranger, tokenFile[project]}
          /\ Findable(project) => client[c].to = tokenFile[project]
      BY <1>1, <1>11, <2>2 DEF AskProject, PairedTo
    <3>2. CASE Reachable(c) /\ ServesProject(client[c].to, project)
      <4>1. what = [client[c] EXCEPT !.phase = "connected"]
        BY <1>3, <1>4, <1>11, <3>2 DEF AskProject, Becomes
      <4>2. what.phase = "connected" /\ what.to = client[c].to /\ what.port = client[c].port
        BY <1>1, <4>1 DEF Doing
      <4>3. client[c].to # Stranger
        BY <3>2 DEF ServesProject, RecordAssumption, Server
      <4>. QED
        BY <3>1, <4>2, <4>3 DEF PairedTo
    <3>3. CASE ~(Reachable(c) /\ ServesProject(client[c].to, project))
      <4>1. what = Missed(c)
        BY <1>3, <1>4, <1>11, <3>3 DEF AskProject, Becomes
      <4>2. ~Findable(project)
        <5>. SUFFICES ASSUME Findable(project) PROVE FALSE
          OBVIOUS
        <5>1. Reachable(c)
          BY <1>5, <3>1 DEF Reachable
        <5>2. tokenFile[project] # NoServer
          BY DEF Findable, Listening, Server, NoServer
        <5>3. ServesProject(client[c].to, project)
          BY <1>1, <3>1, <5>2 DEF ServedInv, TruthfulFiles
        <5>. QED
          BY <3>3, <5>1, <5>3
      <4>. QED
        BY <4>1, <4>2, MissedPaired
    <3>. QED
      BY <3>2, <3>3
  <2>. QED
    BY <2>1, <2>2
<1>. QED
  BY <1>6, <1>7, <1>8, <1>9, <1>10, <1>11 DEF Attaches

\* A step that leaves the record alone, and lets clients go on to what is paired.
ClientsPaired ==
    \A c \in Client : ProjectOf[c] \notin together =>
        \E what : client'[c] = what /\ ServedBy(c, what) /\ PairedTo(c, what)

LEMMA PairedStep ==
    ASSUME RecordAssumption, ServersInv, ServedInv, PairedInv, RecordNext, UNCHANGED files, ClientsPaired
    PROVE  PairedInv'
<1>1. ServersMove
  BY EveryStep DEF StepOK
<1>2. Noticed' /\ together \subseteq together'
  BY TwoNoticed
<1>3. FilesPaired'
  BY <1>1, <1>2, FilesPairedStay DEF PairedInv
<1>4. ASSUME NEW c \in Client, ProjectOf[c] \notin together'
      PROVE  PairedTo(c, client[c])'
  <2>1. PICK what : client'[c] = what /\ ServedBy(c, what) /\ PairedTo(c, what)
    BY <1>2, <1>4 DEF ClientsPaired
  <2>2. PairedTo(c, what)'
    BY <1>1, <2>1, PairedStays
  <2>. QED
    BY <2>1, <2>2 DEF PairedTo, Recorded
<1>. QED
  BY <1>2, <1>3, <1>4 DEF PairedInv

\* One client goes on to what is paired.
LEMMA OnePaired ==
    ASSUME ServedInv, PairedInv, Owned, NEW c \in Client, NEW what,
           client' = [client EXCEPT ![c] = what],
           ProjectOf[c] \notin together => ServedBy(c, what) /\ PairedTo(c, what)
    PROVE  ClientsPaired
<1>1. \A d \in Client : client'[d] = IF d = c THEN what ELSE client[d]
  BY DEF Owned
<1>2. \A d \in Client : ServedBy(d, client[d])
                        /\ (ProjectOf[d] \notin together => PairedTo(d, client[d]))
  BY DEF ServedInv, PairedInv
<1>. QED
  BY <1>1, <1>2 DEF ClientsPaired

\* A kernel starts its server where none is to be found.
LEMMA StartsPaired ==
    ASSUME RecordAssumption, ServersInv, ServedInv, PairedInv, NEW c \in Kernel, Starts(c),
           ~RecordToken(c), ~RecordPort(c)
    PROVE  UNCHANGED files /\ ClientsPaired
<1>1. /\ c \in Client /\ client[c] \in Doing /\ ServedBy(c, client[c]) /\ Owned
      /\ ProjectOf[c] \notin together => PairedTo(c, client[c])
  BY DEF ServersInv, Owned, ServedInv, PairedInv, Client
<1>2. \A what : client' = [client EXCEPT ![c] = what] => what = client'[c]
  BY <1>1 DEF Owned
<1>3. CASE PickPort(c)
  <2>1. PICK port : Becomes(c, [client[c] EXCEPT !.phase = "picked", !.port = port])
    BY <1>3 DEF PickPort
  <2>. DEFINE what == [client[c] EXCEPT !.phase = "picked", !.port = port]
  <2>2. ServedBy(c, what) /\ (ProjectOf[c] \notin together => PairedTo(c, what))
    BY <1>1, <1>3 DEF PickPort, ServedBy, PairedTo, Doing
  <2>. QED
    BY <1>1, <2>1, <2>2, OnePaired DEF Becomes
<1>4. CASE PortTaken(c)
  BY <1>1, <1>4, IdleServed, IdlePaired, OnePaired DEF PortTaken, Becomes
<1>5. CASE Spawn(c)
  <2>. DEFINE what == [client[c] EXCEPT !.phase = "connecting", !.own = started']
  <2>1. client[c].port \notin strangers
    BY <1>5 DEF Spawn, Free, Answers
  <2>2. /\ what.by = client[c].by /\ what.token = client[c].token /\ what.to = client[c].to
        /\ what.phase = "connecting" /\ what.port = client[c].port
    BY <1>1 DEF Doing
  <2>3. ServedBy(c, what)
    BY <1>1, <2>1, <2>2 DEF ServedBy
  <2>4. ProjectOf[c] \notin together => PairedTo(c, what)
    BY <1>1, <1>5, <2>2 DEF Spawn, PairedTo
  <2>5. client' = [client EXCEPT ![c] = what] /\ UNCHANGED files
    BY <1>1, <1>5 DEF Spawn
  <2>. HIDE DEF what
  <2>. QED
    BY <1>1, <2>3, <2>4, <2>5, OnePaired
<1>6. CASE Dropped(c)
  BY <1>1, <1>6, IdleServed, IdlePaired, OnePaired DEF Dropped
<1>7. CASE Connect(c) /\ ~Dropped(c)
  <2>1. PICK what : ServedBy(c, what) /\ Becomes(c, what)
    BY <1>7, ConnectServed
  <2>2. PICK s : Becomes(c, [client[c] EXCEPT !.phase = "token", !.to = s])
    BY <1>7 DEF Connect
  <2>3. what = [client[c] EXCEPT !.phase = "token", !.to = s]
    <3>. DEFINE then == [client[c] EXCEPT !.phase = "token", !.to = s]
    <3>1. client' = [client EXCEPT ![c] = what] /\ client' = [client EXCEPT ![c] = then]
      BY <2>1, <2>2 DEF Becomes
    <3>. HIDE DEF then
    <3>2. what = client'[c] /\ then = client'[c]
      BY <1>2, <3>1
    <3>. QED
      BY <3>2 DEF then
  <2>4. what.phase = "token"
    BY <1>1, <2>3 DEF Doing
  <2>5. ProjectOf[c] \notin together => PairedTo(c, what)
    BY <1>1, <1>7, <2>4 DEF Connect, PairedTo
  <2>. QED
    BY <1>1, <2>1, <2>5, OnePaired DEF Becomes
<1>. QED
  BY <1>3, <1>4, <1>5, <1>6, <1>7 DEF Starts, GiveUp

\* A kernel that records the token of its server makes it the one to be found; nobody
\* was connected to another, and no reader has read of another that listens.
LEMMA TokenPaired ==
    ASSUME RecordAssumption, ServersInv, ServedInv, PairedInv, NEW c \in Kernel, RecordToken(c),
           RecordNext
    PROVE  PairedInv'
<1>. DEFINE project == ProjectOf[c]
<1>1. /\ c \in Client /\ client[c] \in Doing /\ project \in Project
      /\ project \notin together => PairedTo(c, client[c])
      /\ client \in [Client -> Doing] /\ tokenFile \in [Project -> Server \cup {NoServer}]
  BY DEF ServersInv, TypedFiles, Owned, PairedInv, Client, RecordAssumption
<1>2. Noticed' /\ together \subseteq together'
  BY TwoNoticed
<1>3. /\ UNCHANGED <<portFile, server, started, strangers>>
      /\ \A p \in Project : tokenFile'[p] = IF p = project THEN client[c].own ELSE tokenFile[p]
      /\ \A d \in Client : d # c => client'[d] = client[d]
      /\ client'[c] = [client[c] EXCEPT !.phase = "port"]
  BY <1>1 DEF RecordToken
<1>4. project \notin together => ~Findable(project)
  BY <1>1 DEF RecordToken, PairedTo
<1>5. ASSUME NEW p \in Project \ together', Listening(portFile[p].by)'
      PROVE  (tokenFile[p] = portFile[p].by /\ Findable(p))'
  <2>1. Listening(portFile[p].by) /\ p \notin together
    BY <1>2, <1>3, <1>5 DEF Listening
  <2>2. tokenFile[p] = portFile[p].by /\ Findable(p)
    BY <2>1 DEF PairedInv, FilesPaired
  <2>3. p # project
    BY <1>4, <2>1, <2>2
  <2>. QED
    BY <1>3, <2>2, <2>3 DEF Findable, Listening
<1>6. ASSUME NEW d \in Client, ProjectOf[d] \notin together' PROVE PairedTo(d, client[d])'
  <2>1. /\ ProjectOf[d] \notin together /\ ProjectOf[d] \in Project /\ PairedTo(d, client[d])
        /\ ServedBy(d, client[d])
    BY <1>2, <1>6 DEF PairedInv, RecordAssumption, ServedInv
  <2>2. CASE d = c
    <3>1. client'[c].phase = "port" /\ client'[c].own = client[c].own
      BY <1>1, <1>3 DEF Doing
    <3>. QED
      BY <1>1, <1>3, <2>2, <3>1 DEF PairedTo
  <2>3. CASE d # c /\ ProjectOf[d] # project
    BY <1>3, <2>1, <2>3 DEF PairedTo, Recorded, Findable, Listening, Answers
  <2>4. CASE d # c /\ ProjectOf[d] = project /\ d \notin Kernel
    BY <1>3, <2>1, <2>4 DEF PairedTo, Recorded, Listening
  <2>5. CASE d # c /\ ProjectOf[d] = project /\ d \in Kernel
    <3>1. ~Connecting(d)
      BY <2>1, <2>5 DEF PairedInv, Noticed, Connecting, RecordToken
    <3>2. client[d].phase \in {"idle", "connected"} /\ client'[d] = client[d]
      BY <1>1, <1>3, <2>5, <3>1 DEF Connecting
    <3>3. client[d].phase = "connected" => client[d].to \notin Answers(client[d].port)
      <4>. SUFFICES ASSUME client[d].phase = "connected", client[d].to \in Answers(client[d].port)
                    PROVE  FALSE
        OBVIOUS
      <4>1. client[d].to = tokenFile[project] /\ client[d].port = portFile[project].port
        BY <2>1, <2>5 DEF PairedTo, Recorded
      <4>2. client[d].to \in Server /\ client[d].to # Stranger
        BY <2>1 DEF ServedBy, ServesProject, RecordAssumption, Server
      <4>3. Findable(project)
        BY <4>1, <4>2 DEF Findable, Answers
      <4>. QED
        BY <1>4, <2>1, <2>5, <4>3
    <3>4. (client[d].phase = "connected" => client[d].to \notin Answers(client[d].port))'
      BY <1>3, <3>2, <3>3 DEF Answers, Listening
    <3>. QED
      BY <3>2, <3>4 DEF PairedTo
  <2>. QED
    BY <2>2, <2>3, <2>4, <2>5
<1>. QED
  BY <1>2, <1>5, <1>6 DEF PairedInv, FilesPaired

\* A kernel that records the port of its server completes the record of it.
LEMMA PortPaired ==
    ASSUME RecordAssumption, ServersInv, ServedInv, PairedInv, NEW c \in Kernel, RecordPort(c), RecordNext
    PROVE  PairedInv'
<1>. DEFINE project == ProjectOf[c]
<1>1. /\ c \in Client /\ client[c] \in Doing /\ project \in Project /\ OwnedBy(c, client[c])
      /\ project \notin together => tokenFile[project] = client[c].own
      /\ client \in [Client -> Doing]
      /\ portFile \in [Project -> [port : Port \cup {NoPort}, by : Server \cup {NoServer}]]
  BY DEF ServersInv, TypedFiles, Owned, PairedInv, PairedTo, RecordPort, Client, RecordAssumption
<1>2. Noticed' /\ together \subseteq together'
  BY TwoNoticed
<1>3. /\ UNCHANGED <<tokenFile, server, started, strangers>>
      /\ \A p \in Project : portFile'[p] =
            IF p = project THEN [port |-> client[c].port, by |-> client[c].own] ELSE portFile[p]
      /\ \A d \in Client : d # c => client'[d] = client[d]
      /\ client'[c] = [client[c] EXCEPT !.phase = "connected"]
  BY <1>1 DEF RecordPort
<1>4. portFile'[project].by = client[c].own /\ portFile'[project].port = client[c].port
  BY <1>1, <1>3
<1>5. Listening(client[c].own) => server[client[c].own].port = client[c].port
  BY <1>1 DEF RecordPort, OwnedBy, Alive, Listening
<1>6. ASSUME NEW p \in Project \ together', Listening(portFile[p].by)'
      PROVE  (tokenFile[p] = portFile[p].by /\ Findable(p))'
  <2>1. CASE p = project
    <3>1. tokenFile[project] = client[c].own /\ Listening(client[c].own)
      BY <1>1, <1>2, <1>3, <1>4, <1>6, <2>1 DEF Listening
    <3>. QED
      BY <1>3, <1>4, <1>5, <2>1, <3>1 DEF Findable, Listening
  <2>2. CASE p # project
    BY <1>2, <1>3, <1>6, <2>2 DEF PairedInv, FilesPaired, Findable, Listening
  <2>. QED
    BY <2>1, <2>2
<1>7. ASSUME NEW d \in Client, ProjectOf[d] \notin together' PROVE PairedTo(d, client[d])'
  <2>1. /\ ProjectOf[d] \notin together /\ ProjectOf[d] \in Project /\ PairedTo(d, client[d])
        /\ ServedBy(d, client[d])
    BY <1>2, <1>7 DEF PairedInv, RecordAssumption, ServedInv
  <2>2. CASE d = c
    <3>1. /\ client'[c].phase = "connected" /\ client'[c].port = client[c].port
          /\ client'[c].to = client[c].to /\ client[c].to = client[c].own
      BY <1>1, <1>3, <2>1, <2>2 DEF Doing, RecordPort, ServedBy
    <3>. QED
      BY <1>1, <1>3, <1>4, <2>1, <2>2, <3>1 DEF PairedTo, Recorded
  <2>3. CASE d # c /\ ProjectOf[d] # project
    BY <1>3, <2>1, <2>3 DEF PairedTo, Recorded, Findable, Listening, Answers
  <2>4. CASE d # c /\ ProjectOf[d] = project /\ d \notin Kernel
    <3>1. client'[d] = client[d]
      BY <1>3, <2>4
    <3>2. client[d].phase = "reading" /\ Listening(client[d].by) => client[d].by = client[c].own
      BY <1>1, <2>1, <2>4 DEF PairedTo, PairedInv, FilesPaired, Recorded
    <3>. QED
      BY <1>3, <1>4, <2>1, <2>4, <3>1, <3>2 DEF PairedTo, Recorded, Listening
  <2>5. CASE d # c /\ ProjectOf[d] = project /\ d \in Kernel
    <3>1. ~Connecting(d)
      BY <2>1, <2>5 DEF PairedInv, Noticed, Connecting, RecordPort
    <3>2. client[d].phase \in {"idle", "connected"} /\ client'[d] = client[d]
      BY <1>1, <1>3, <2>5, <3>1 DEF Connecting
    <3>3. client[d].phase = "connected" /\ client[d].to \in Answers(client[d].port) =>
              client[d].to = client[c].own /\ client[d].port = client[c].port
      <4>. SUFFICES ASSUME client[d].phase = "connected", client[d].to \in Answers(client[d].port)
                    PROVE  client[d].to = client[c].own /\ client[d].port = client[c].port
        OBVIOUS
      <4>1. client[d].to = client[c].own
        BY <1>1, <2>1, <2>5 DEF PairedTo
      <4>2. client[d].to \in Server /\ client[d].to # Stranger
        BY <2>1 DEF ServedBy, ServesProject, RecordAssumption, Server
      <4>3. Listening(client[d].to) /\ server[client[d].to].port = client[d].port
        BY <4>2 DEF Answers
      <4>. QED
        BY <1>5, <4>1, <4>3
    <3>4. (client[d].phase = "connected" /\ client[d].to \in Answers(client[d].port) =>
              client[d].to = tokenFile[ProjectOf[d]] /\ client[d].port = Recorded(d).port)'
      <4>1. tokenFile'[ProjectOf[d]] = client[c].own /\ Recorded(d)'.port = client[c].port
        BY <1>1, <1>3, <1>4, <2>1, <2>5 DEF Recorded
      <4>. QED
        BY <1>3, <3>2, <3>3, <4>1 DEF Answers, Listening
    <3>. QED
      BY <3>2, <3>4 DEF PairedTo
  <2>. QED
    BY <2>2, <2>3, <2>4, <2>5
<1>. QED
  BY <1>2, <1>6, <1>7 DEF PairedInv, FilesPaired

LEMMA NextPaired ==
    ASSUME RecordAssumption, ServersInv, ServedInv, PairedInv, [RecordNext /\ Unusurped]_recordVars
    PROVE  PairedInv'
<1>1. CASE RecordNext
  <2>. USE <1>1
  <2>1. Owned
    BY DEF ServersInv
  <2>2. \A c \in Client : ServedBy(c, client[c])
                          /\ (ProjectOf[c] \notin together => PairedTo(c, client[c]))
    BY DEF ServedInv, PairedInv
  <2>3. ASSUME NEW c \in Client, Attaches(c) PROVE PairedInv'
    <3>1. UNCHANGED files /\ \E what : client' = [client EXCEPT ![c] = what] /\ ServedBy(c, what)
      BY <2>3, AttachesServed DEF Becomes
    <3>2. CASE ProjectOf[c] \in together
      BY <2>1, <3>1, <3>2, OnePaired, PairedStep
    <3>3. CASE ProjectOf[c] \notin together
      <4>1. PICK what : ServedBy(c, what) /\ PairedTo(c, what) /\ Becomes(c, what)
        BY <2>3, <3>3, AttachesPaired
      <4>. QED
        BY <2>1, <3>1, <4>1, OnePaired, PairedStep DEF Becomes
    <3>. QED
      BY <3>2, <3>3
  <2>4. ASSUME NEW c \in Client, Lose(c) PROVE PairedInv'
    BY <2>1, <2>4, IdleServed, IdlePaired, OnePaired, PairedStep DEF Lose, Dropped
  <2>5. ASSUME NEW c \in Kernel, Exit(c) PROVE PairedInv'
    <3>1. c \in Client
      BY DEF Client
    <3>. QED
      BY <2>1, <2>5, <3>1, IdleServed, IdlePaired, OnePaired, PairedStep DEF Exit
  <2>6. CASE UNCHANGED <<client, files>>
    BY <2>2, <2>6, PairedStep DEF ClientsPaired
  <2>7. CASE Around
    BY <2>5, <2>6, <2>7 DEF Around, Bind, Orphaned, Die, StrangerComes, StrangerGoes
  <2>8. ASSUME NEW c \in Kernel, Starts(c) PROVE PairedInv'
    BY <2>8, StartsPaired, PairedStep, TokenPaired, PortPaired
  <2>. QED
    BY <2>3, <2>4, <2>7, <2>8 DEF RecordNext
<1>2. CASE UNCHANGED recordVars
  BY <1>2 DEF recordVars, PairedInv, Noticed, Connecting, FilesPaired, PairedTo, Findable, Listening,
              Answers, Recorded
<1>. QED
  BY <1>1, <1>2

LEMMA InitPaired == RecordAssumption /\ RecordInit => PairedInv
<1>. SUFFICES ASSUME RecordAssumption, RecordInit PROVE PairedInv
  OBVIOUS
<1>1. ~Listening(NoServer)
  BY DEF Listening, Server, NoServer
<1>2. \A c \in Client : client[c] = Unoccupied /\ ~Connecting(c) /\ PairedTo(c, client[c])
  <2>1. \A c \in Client : client[c] = Unoccupied /\ PairedTo(c, client[c])
    BY IdlePaired DEF RecordInit
  <2>. QED
    BY <2>1 DEF Connecting, Unoccupied
<1>3. Noticed
  BY <1>2 DEF Noticed, Client
<1>4. FilesPaired
  BY <1>1 DEF RecordInit, FilesPaired, NotRecorded
<1>. QED
  BY <1>2, <1>3, <1>4 DEF PairedInv

\* While servers get the ports that were picked for them, clients of a project find
\* its server, all of them the same one and no other.  Who finds the port of a server
\* that listens finds its token, although the record is two files, kernels start and
\* are killed between writing them, and readers read between; and kernels share their
\* server, unless two of a project were connecting at once.
THEOREM ServerShared ==
    RecordAssumption => (RecordInit /\ [][RecordNext /\ Unusurped]_recordVars => []OwnServer)
<1>. SUFFICES ASSUME RecordAssumption PROVE RecordInit /\ [][RecordNext /\ Unusurped]_recordVars => []OwnServer
  OBVIOUS
<1>1. ServedInv /\ PairedInv => OwnServer
  <2>. SUFFICES ASSUME ServedInv, PairedInv PROVE OwnProject /\ PairsRead /\ Shared
    BY DEF OwnServer
  <2>1. OwnProject
    BY DEF ServedInv, ServedBy, OwnProject
  <2>2. PairsRead
    BY DEF PairedInv, PairedTo, PairsRead
  <2>3. Shared
    BY DEF PairedInv, PairedTo, Shared, Reachable, Client
  <2>. QED
    BY <2>1, <2>2, <2>3
<1>2. RecordInit /\ [][RecordNext /\ Unusurped]_recordVars => [](ServersInv /\ ServedInv)
  BY ServedAlways
<1>3. ServersInv /\ ServedInv /\ PairedInv /\ [RecordNext /\ Unusurped]_recordVars => PairedInv'
  BY NextPaired
<1>4. RecordInit => PairedInv
  BY InitPaired
<1>. QED
  BY <1>1, <1>2, <1>3, <1>4, PTL

-----------------------------------------------------------------------------
(* The types. *)

Printed == Nat \X Nat
Frames  == [kind : {"eval", "call", "line", "output", "prompt", "reply"}, request : Nat, text : Seq(Printed)]
Tasks   == [doing : {"reading", "running", "asking", "ending"}, request : Nat, prints : Nat, asks : Nat]

WellTyped ==
    /\ phase \in [Kernel -> {"idle", "waiting", "asking"}]
    /\ request \in [Kernel -> Nat] /\ prompts \in [Kernel -> Nat] /\ interrupted \in [Kernel -> Nat]
    /\ lines \in [Kernel -> Seq(Nat)]
    /\ up \in [Kernel -> Seq(Frames)] /\ down \in [Kernel -> Seq(Frames)]
    /\ task \in [Kernel -> Tasks]
    /\ output \in [Kernel -> Seq(Printed)] /\ flushing \in [Kernel -> Seq(Printed)]
    /\ streaming \in [Kernel -> BOOLEAN]
    /\ lock \in [Kernel -> {"nobody", "flusher", "prompt"}]
    /\ evaluating \in Kernel \cup {None} /\ input \in Kernel \cup {None}
    /\ shown = [k \in Kernel |-> [r \in Requests(k) |-> shown[k][r]]]
    /\ \A k \in Kernel : \A r \in Requests(k) : shown[k][r] \in Seq(Printed)
    /\ taken \in [Kernel -> [reply : Nat, for : Nat]] /\ given \in [Kernel -> [prompt : Nat, to : Nat]]

-----------------------------------------------------------------------------
(* Whose turn it is. *)

Outputs(frames) == \A i \in 1..Len(frames) : frames[i].kind = "output"

\* Output, and a last frame that is something else.
Closed(frames, kind, r) ==
    /\ frames # <<>> /\ frames[Len(frames)].kind = kind /\ frames[Len(frames)].request = r
    /\ \A i \in 1..(Len(frames) - 1) : frames[i].kind = "output"

\* Nothing is asked; a request is on its way; its evaluation runs; its prompt is on
\* its way, shown, or answered; it is over; it is answered.
Idle(k) == phase[k] = "idle" /\ task[k] = Reading /\ up[k] = <<>> /\ down[k] = <<>>

Sent(k) ==
    /\ phase[k] = "waiting" /\ task[k] = Reading /\ down[k] = <<>>
    /\ shown[k][request[k]] = <<>>
    /\ \E kind \in {"eval", "call"} : up[k] = <<Frame(kind, request[k], <<>>)>>

Running(k) == phase[k] = "waiting" /\ task[k].doing = "running" /\ up[k] = <<>> /\ Outputs(down[k])

Asked(k) ==
    /\ phase[k] = "waiting" /\ task[k].doing = "asking" /\ up[k] = <<>>
    /\ Closed(down[k], "prompt", request[k]) /\ down[k][Len(down[k])].text = <<>>

Prompting(k) == phase[k] = "asking" /\ task[k].doing = "asking" /\ up[k] = <<>> /\ down[k] = <<>>

Answered(k) ==
    /\ phase[k] = "waiting" /\ task[k].doing = "asking" /\ down[k] = <<>>
    /\ up[k] = <<Frame("line", request[k], <<>>)>>

Ending(k) ==
    /\ phase[k] # "idle" /\ task[k].doing = "ending" /\ up[k] = <<>> /\ Outputs(down[k])

Replied(k) ==
    /\ phase[k] # "idle" /\ task[k] = Reading /\ up[k] = <<>>
    /\ Closed(down[k], "reply", request[k])

\* A line is typed only at a prompt that is shown, and is the only one.
Turn(k) ==
    /\ \/ Idle(k) \/ Sent(k) \/ Running(k) \/ Asked(k) \/ Prompting(k) \/ Answered(k) \/ Ending(k)
       \/ Replied(k)
    /\ task[k].doing # "reading" => task[k].request = request[k]
    /\ IF Prompting(k)
       THEN (prompts[k] = request[k] /\ lines[k] = <<>>) \/ (prompts[k] = 0 /\ lines[k] = <<request[k]>>)
       ELSE lines[k] = <<>>

\* The bounds, and what was not asked yet.
Within(k) ==
    /\ {request[k], prompts[k], interrupted[k]} \subseteq 0..MaxRequests[k]
    /\ phase[k] # "idle" => request[k] # 0
    /\ task[k].prints <= MaxPrints[k]

\* The flusher holds the lock while it writes, getline while it waits.
Locked(k) ==
    /\ lock[k] = "flusher" <=> flushing[k] # <<>>
    /\ lock[k] = "prompt" <=> task[k].doing = "asking"
    /\ task[k].doing = "reading" => output[k] = <<>> /\ flushing[k] = <<>> /\ ~streaming[k]

Slots == evaluating # None => Evaluates(evaluating)

-----------------------------------------------------------------------------
(* Where the output is. *)

\* A line, and what a request printed after one line up to another.
Line(r, i) == <<r, i>>

Run(r, a, b) == [i \in 1..(b - a) |-> Line(r, a + i)]

\* Frames carry what was printed between two lines, each the part after the one before.
Carries(frames, r, top, a, b) ==
    \E c \in [1..(Len(frames) + 1) -> 0..top] :
        /\ c[1] = a /\ c[Len(frames) + 1] = b
        /\ \A i, j \in 1..(Len(frames) + 1) : i <= j => c[i] <= c[j]
        /\ \A i \in 1..Len(frames) : frames[i].text = Run(r, c[i], c[i + 1])

\* What a request printed up to a line is shown, on its way, being written or kept, in
\* this order.
Divided(r, top, seen, frames, writing, kept, n) ==
    \E a, b, m \in 0..top :
        /\ a <= b /\ b <= m /\ m <= n
        /\ seen = Run(r, 0, a) /\ Carries(frames, r, top, a, b)
        /\ writing = Run(r, b, m) /\ kept = Run(r, m, n)

Cut(k) ==
    phase[k] # "idle" =>
        \E n \in 0..MaxPrints[k] :
            /\ Divided(request[k], MaxPrints[k], shown[k][request[k]], down[k], flushing[k], output[k], n)
            /\ task[k].doing # "reading" => n = task[k].prints

Shown(k) ==
    \A r \in Requests(k) :
        /\ \E n \in 0..MaxPrints[k] : shown[k][r] = Run(r, 0, n)
        /\ r > request[k] => shown[k][r] = <<>>

Matches(k) == taken[k].reply = taken[k].for /\ given[k].prompt = given[k].to

\* One lookup at a time is on the connection.
LooksUpOnce ==
    /\ lookup = [number |-> lookup.number, waiting |-> lookup.waiting, up |-> lookup.up,
                 down |-> lookup.down, taken |-> lookup.taken]
    /\ lookup.number \in Nat
    /\ \/ ~lookup.waiting /\ lookup.up = <<>> /\ lookup.down = <<>> /\ lookup.taken = lookup.number
       \/ lookup.waiting = TRUE /\ lookup.up = <<lookup.number>> /\ lookup.down = <<>>
       \/ lookup.waiting = TRUE /\ lookup.up = <<>> /\ lookup.down = <<lookup.number>>

KernelInv(k) == Turn(k) /\ Within(k) /\ Locked(k) /\ Cut(k) /\ Shown(k) /\ Matches(k)

ReplInv == WellTyped /\ Slots /\ LooksUpOnce /\ \A k \in Kernel : KernelInv(k)

-----------------------------------------------------------------------------
(* Runs of output, and frames that carry them. *)

\* What a run is made of.
LEMMA RunIs ==
    ASSUME NEW r \in Nat, NEW a \in Nat, NEW b \in Nat, a <= b
    PROVE  /\ Run(r, a, b) \in Seq(Printed) /\ Len(Run(r, a, b)) = b - a
           /\ Run(r, a, b) = <<>> <=> a = b
<1>. DEFINE n == b - a
<1>1. n \in Nat
  OBVIOUS
<1>2. \A i \in 1..n : Line(r, a + i) \in Printed
  BY DEF Printed, Line
<1>3. Run(r, a, b) \in [1..n -> Printed]
  BY <1>2 DEF Run
<1>4. Run(r, a, b) \in Seq(Printed)
  BY <1>1, <1>3, SeqDef
<1>5. Len(Run(r, a, b)) = n
  BY <1>1, <1>3, <1>4, LenProperties
<1>6. Run(r, a, b) = <<>> <=> n = 0
  BY <1>4, <1>5, EmptySeq
<1>. QED
  BY <1>4, <1>5, <1>6

LEMMA RunAt ==
    ASSUME NEW r \in Nat, NEW a \in Nat, NEW b \in Nat, a <= b, NEW i \in 1..(b - a)
    PROVE  Run(r, a, b)[i] = Line(r, a + i)
BY DEF Run

\* Its lines are those of one request.
LEMMA RunWithin ==
    ASSUME NEW Request, NEW r \in Request, Request \subseteq Nat, NEW top \in Nat,
           NEW a \in 0..top, NEW b \in 0..top, a <= b
    PROVE  Run(r, a, b) \in Seq(Request \X (1..top))
<1>. DEFINE n == b - a
<1>1. n \in Nat
  OBVIOUS
<1>2. \A i \in 1..n : a + i \in 1..top
  OBVIOUS
<1>3. \A i \in 1..n : Line(r, a + i) \in Request \X (1..top)
  BY <1>2 DEF Line
<1>4. Run(r, a, b) \in [1..n -> Request \X (1..top)]
  BY <1>3 DEF Run
<1>. QED
  BY <1>1, <1>4, SeqDef

\* What follows what was printed first is printed with it.
LEMMA RunJoin ==
    ASSUME NEW r \in Nat, NEW b \in Nat, NEW c \in Nat, b <= c
    PROVE  Run(r, 0, b) \o Run(r, b, c) = Run(r, 0, c)
<1>. DEFINE s == Run(r, 0, b)  t == Run(r, b, c)  all == Run(r, 0, c)
<1>1. 0 \in Nat /\ 0 <= b /\ 0 <= c /\ b - 0 = b /\ c - 0 = c
  OBVIOUS
<1>2. s \in Seq(Printed) /\ Len(s) = b
  <2>1. \A z \in Nat : z <= b => Run(r, z, b) \in Seq(Printed) /\ Len(Run(r, z, b)) = b - z
    BY RunIs
  <2>. QED
    BY <1>1, <2>1
<1>3. \A i \in 1..b : s[i] = Line(r, i)
  BY DEF Run
<1>4. t \in Seq(Printed) /\ Len(t) = c - b
  BY RunIs
<1>5. \A i \in 1..(c - b) : t[i] = Line(r, b + i)
  BY RunAt
<1>6. all \in Seq(Printed) /\ Len(all) = c
  <2>1. \A z \in Nat : z <= c => Run(r, z, c) \in Seq(Printed) /\ Len(Run(r, z, c)) = c - z
    BY RunIs
  <2>. QED
    BY <1>1, <2>1
<1>7. \A i \in 1..c : all[i] = Line(r, i)
  BY DEF Run
<1>. HIDE DEF s, t, all
<1>8. /\ s \o t \in Seq(Printed) /\ Len(s \o t) = Len(s) + Len(t)
      /\ \A i \in 1..(Len(s) + Len(t)) : (s \o t)[i] = IF i <= Len(s) THEN s[i] ELSE t[i - Len(s)]
  BY <1>2, <1>4, ConcatProperties
<1>9. Len(s \o t) = Len(all)
  BY <1>2, <1>4, <1>6, <1>8
<1>10. ASSUME NEW i \in 1..Len(s \o t) PROVE (s \o t)[i] = all[i]
  <2>1. CASE i <= Len(s)
    <3>1. i \in 1..b /\ i \in 1..c /\ i \in 1..(Len(s) + Len(t))
      BY <1>2, <1>4, <1>6, <1>8, <2>1
    <3>. QED
      BY <1>3, <1>7, <1>8, <2>1, <3>1
  <2>2. CASE i > Len(s)
    <3>1. /\ i - Len(s) \in 1..(c - b) /\ b + (i - Len(s)) = i /\ ~(i <= Len(s))
          /\ i \in 1..c /\ i \in 1..(Len(s) + Len(t))
      BY <1>2, <1>4, <1>6, <1>8, <2>2
    <3>. QED
      BY <1>5, <1>7, <1>8, <3>1
  <2>. QED
    BY <1>2, <2>1, <2>2
<1>11. s \o t = all
  BY <1>6, <1>8, <1>9, <1>10, SeqEqual
<1>. QED
  BY <1>11 DEF s, t, all

\* One more line makes a run longer.
LEMMA RunAppend ==
    ASSUME NEW r \in Nat, NEW a \in Nat, NEW b \in Nat, a <= b
    PROVE  Append(Run(r, a, b), Line(r, b + 1)) = Run(r, a, b + 1)
<1>. DEFINE s == Run(r, a, b)  line == Line(r, b + 1)  all == Run(r, a, b + 1)
<1>1. s \in Seq(Printed) /\ Len(s) = b - a
  BY RunIs
<1>2. \A i \in 1..(b - a) : s[i] = Line(r, a + i)
  BY RunAt
<1>3. b + 1 \in Nat /\ a <= b + 1
  OBVIOUS
<1>4. all \in Seq(Printed) /\ Len(all) = b + 1 - a
  BY <1>3, RunIs
<1>5. \A i \in 1..(b + 1 - a) : all[i] = Line(r, a + i)
  BY <1>3, RunAt
<1>6. line \in Printed
  BY <1>3 DEF Printed, Line
<1>7. a + (b + 1 - a) = b + 1
  OBVIOUS
<1>. HIDE DEF s, all, line
<1>8. /\ Append(s, line) \in Seq(Printed) /\ Len(Append(s, line)) = Len(s) + 1
      /\ \A i \in 1..Len(s) : Append(s, line)[i] = s[i]
      /\ Append(s, line)[Len(s) + 1] = line
  BY <1>1, <1>6, AppendProperties
<1>9. Len(Append(s, line)) = Len(all)
  BY <1>1, <1>4, <1>8
<1>10. ASSUME NEW i \in 1..Len(Append(s, line)) PROVE Append(s, line)[i] = all[i]
  <2>1. CASE i <= Len(s)
    <3>1. i \in 1..(b - a) /\ i \in 1..(b + 1 - a) /\ i \in 1..Len(s)
      BY <1>1, <1>8, <2>1
    <3>. QED
      BY <1>2, <1>5, <1>8, <3>1
  <2>2. CASE i = Len(s) + 1
    <3>1. i = b + 1 - a /\ i \in 1..(b + 1 - a)
      BY <1>1, <2>2
    <3>. QED
      BY <1>5, <1>7, <1>8, <2>2, <3>1 DEF line
  <2>. QED
    BY <1>1, <1>8, <2>1, <2>2
<1>11. Append(s, line) = all
  BY <1>4, <1>8, <1>9, <1>10, SeqEqual
<1>. QED
  BY <1>11 DEF s, all, line

\* No frames carry nothing.
LEMMA CarriesNone ==
    ASSUME NEW r \in Nat, NEW top \in Nat, NEW a \in 0..top, NEW b \in 0..top
    PROVE  Carries(<<>>, r, top, a, b) <=> a = b
<1>1. Len(<<>>) + 1 = 1
  BY EmptySeq
<1>2. ASSUME a = b PROVE Carries(<<>>, r, top, a, b)
  <2>. DEFINE c == [i \in 1..1 |-> a]
  <2>1. c \in [1..1 -> 0..top] /\ c[1] = a /\ \A i, j \in 1..1 : i <= j => c[i] <= c[j]
    OBVIOUS
  <2>2. \A i \in 1..Len(<<>>) : FALSE
    BY <1>1
  <2>. HIDE DEF c
  <2>. QED
    BY <1>1, <1>2, <2>1, <2>2 DEF Carries
<1>3. ASSUME Carries(<<>>, r, top, a, b) PROVE a = b
  BY <1>1, <1>3 DEF Carries
<1>. QED
  BY <1>2, <1>3

\* A frame more carries what follows.
LEMMA CarriesMore ==
    ASSUME NEW frames \in Seq(Frames), NEW frame \in Frames, NEW r \in Nat, NEW top \in Nat,
           NEW a \in 0..top, NEW b \in 0..top, NEW n \in 0..top, b <= n,
           Carries(frames, r, top, a, b), frame.text = Run(r, b, n)
    PROVE  Carries(Append(frames, frame), r, top, a, n)
<1>. DEFINE l == Len(frames)  all == Append(frames, frame)
<1>1. l \in Nat
  BY LenProperties
<1>2. /\ Len(all) = l + 1 /\ all[l + 1] = frame /\ \A i \in 1..l : all[i] = frames[i]
  BY AppendProperties
<1>3. PICK c \in [1..(l + 1) -> 0..top] :
        /\ c[1] = a /\ c[l + 1] = b
        /\ \A i, j \in 1..(l + 1) : i <= j => c[i] <= c[j]
        /\ \A i \in 1..l : frames[i].text = Run(r, c[i], c[i + 1])
  BY DEF Carries
<1>. DEFINE d == [i \in 1..(l + 2) |-> IF i = l + 2 THEN n ELSE c[i]]
<1>. HIDE DEF l, all
<1>4. \A i \in 1..(l + 2) : i = l + 2 \/ i \in 1..(l + 1)
  BY <1>1
<1>5. d \in [1..(l + 2) -> 0..top]
  BY <1>3, <1>4
<1>6. /\ \A i \in 1..(l + 1) : i \in 1..(l + 2) /\ i # l + 2 /\ d[i] = c[i]
      /\ d[l + 2] = n
  BY <1>1
<1>7. d[1] = a /\ d[l + 2] = n
  BY <1>1, <1>3, <1>6
<1>8. ASSUME NEW i \in 1..(l + 2), NEW j \in 1..(l + 2), i <= j PROVE d[i] <= d[j]
  <2>1. CASE j # l + 2
    <3>1. i \in 1..(l + 1) /\ j \in 1..(l + 1)
      BY <1>1, <1>8, <2>1
    <3>. QED
      BY <1>3, <1>6, <1>8, <3>1
  <2>2. CASE j = l + 2 /\ i # l + 2
    <3>1. i \in 1..(l + 1) /\ l + 1 \in 1..(l + 1)
      BY <1>1, <2>2
    <3>2. c[i] <= c[l + 1] /\ c[i] \in 0..top
      BY <1>1, <1>3, <3>1
    <3>. QED
      BY <1>3, <1>6, <2>2, <3>1, <3>2
  <2>3. CASE i = l + 2 /\ j = l + 2
    BY <1>6, <2>3
  <2>. QED
    BY <2>1, <2>2, <2>3
<1>9. ASSUME NEW i \in 1..(l + 1) PROVE all[i].text = Run(r, d[i], d[i + 1])
  <2>1. CASE i # l + 1
    <3>1. i \in 1..l /\ i + 1 \in 1..(l + 1)
      BY <1>1, <2>1
    <3>. QED
      BY <1>2, <1>3, <1>6, <3>1
  <2>2. CASE i = l + 1
    <3>1. i + 1 = l + 2 /\ l + 1 \in 1..(l + 1)
      BY <1>1, <2>2
    <3>. QED
      BY <1>2, <1>3, <1>6, <2>2, <3>1
  <2>. QED
    BY <2>1, <2>2
<1>10. Len(all) + 1 = l + 2
  BY <1>1, <1>2
<1>. HIDE DEF d
<1>11. Carries(all, r, top, a, n)
  BY <1>2, <1>5, <1>7, <1>8, <1>9, <1>10 DEF Carries
<1>. QED
  BY <1>11 DEF all

\* What frames carry does not go back.
LEMMA CarriesUp ==
    ASSUME NEW frames \in Seq(Frames), NEW r \in Nat, NEW top \in Nat,
           NEW a \in 0..top, NEW b \in 0..top, Carries(frames, r, top, a, b)
    PROVE  a <= b
<1>1. Len(frames) \in Nat
  BY LenProperties
<1>2. 1 \in 1..(Len(frames) + 1) /\ Len(frames) + 1 \in 1..(Len(frames) + 1) /\ 1 <= Len(frames) + 1
  BY <1>1
<1>. QED
  BY <1>2 DEF Carries

\* The first frame carries what comes first.
LEMMA CarriesLess ==
    ASSUME NEW frames \in Seq(Frames), frames # <<>>, NEW r \in Nat, NEW top \in Nat,
           NEW a \in 0..top, NEW b \in 0..top, Carries(frames, r, top, a, b)
    PROVE  \E m \in 0..top :
              /\ a <= m /\ Head(frames).text = Run(r, a, m)
              /\ Carries(Tail(frames), r, top, m, b)
<1>. DEFINE l == Len(frames)  rest == Tail(frames)
<1>1. l \in Nat \ {0} /\ Head(frames) = frames[1]
  BY LenProperties, EmptySeq
<1>2. Len(rest) = l - 1 /\ \A i \in 1..(l - 1) : rest[i] = frames[i + 1]
  BY HeadTailProperties
<1>3. PICK c \in [1..(l + 1) -> 0..top] :
        /\ c[1] = a /\ c[l + 1] = b
        /\ \A i, j \in 1..(l + 1) : i <= j => c[i] <= c[j]
        /\ \A i \in 1..l : frames[i].text = Run(r, c[i], c[i + 1])
  BY DEF Carries
<1>. DEFINE d == [i \in 1..l |-> c[i + 1]]
<1>. HIDE DEF l, rest
<1>4. \A i \in 1..l : i + 1 \in 1..(l + 1)
  BY <1>1
<1>5. d \in [1..l -> 0..top] /\ \A i \in 1..l : d[i] = c[i + 1]
  BY <1>3, <1>4
<1>6. 1 \in 1..l /\ l \in 1..l /\ 1 \in 1..(l + 1) /\ 2 \in 1..(l + 1)
  BY <1>1
<1>7. d[1] = c[2] /\ d[l] = b
  BY <1>3, <1>5, <1>6
<1>8. a <= c[2] /\ c[2] \in 0..top /\ frames[1].text = Run(r, a, c[2])
  BY <1>3, <1>6
<1>9. \A i, j \in 1..l : i <= j => d[i] <= d[j]
  BY <1>1, <1>3, <1>4, <1>5
<1>10. ASSUME NEW i \in 1..(l - 1) PROVE rest[i].text = Run(r, d[i], d[i + 1])
  <2>1. i \in 1..l /\ i + 1 \in 1..l
    BY <1>1
  <2>. QED
    BY <1>2, <1>3, <1>5, <2>1
<1>11. Len(rest) + 1 = l
  BY <1>1, <1>2
<1>. HIDE DEF d
<1>12. Carries(rest, r, top, c[2], b)
  BY <1>2, <1>5, <1>7, <1>9, <1>10, <1>11 DEF Carries
<1>. QED
  BY <1>1, <1>8, <1>12 DEF rest

-----------------------------------------------------------------------------
(* Where the output of a request is. *)

\* Nothing is anywhere.
LEMMA DividedNone ==
    ASSUME NEW r \in Nat, NEW top \in Nat
    PROVE  Divided(r, top, <<>>, <<>>, <<>>, <<>>, 0)
<1>1. 0 \in 0..top /\ Run(r, 0, 0) = <<>> /\ Carries(<<>>, r, top, 0, 0)
  BY RunIs, CarriesNone
<1>. QED
  BY <1>1 DEF Divided

LEMMA DividedNowhere ==
    ASSUME NEW r \in Nat, NEW top \in Nat, NEW n \in 0..top,
           Divided(r, top, <<>>, <<>>, <<>>, <<>>, n)
    PROVE  n = 0
<1>1. PICK a, b, m \in 0..top :
        /\ a <= b /\ b <= m /\ m <= n
        /\ <<>> = Run(r, 0, a) /\ Carries(<<>>, r, top, a, b)
        /\ <<>> = Run(r, b, m) /\ <<>> = Run(r, m, n)
  BY DEF Divided
<1>2. a = 0
  BY <1>1, RunIs
<1>3. b = a
  BY <1>1, CarriesNone
<1>4. m = b
  BY <1>1, RunIs
<1>5. n = m
  BY <1>1, RunIs
<1>. QED
  BY <1>2, <1>3, <1>4, <1>5

\* The first frame is shown,
LEMMA DividedTake ==
    ASSUME NEW r \in Nat, NEW top \in Nat, NEW n \in 0..top, NEW seen, NEW writing, NEW kept,
           NEW frames \in Seq(Frames), frames # <<>>, Divided(r, top, seen, frames, writing, kept, n)
    PROVE  Divided(r, top, seen \o Head(frames).text, Tail(frames), writing, kept, n)
<1>1. PICK a, b, m \in 0..top :
        /\ a <= b /\ b <= m /\ m <= n
        /\ seen = Run(r, 0, a) /\ Carries(frames, r, top, a, b)
        /\ writing = Run(r, b, m) /\ kept = Run(r, m, n)
  BY DEF Divided
<1>2. PICK c \in 0..top :
        a <= c /\ Head(frames).text = Run(r, a, c) /\ Carries(Tail(frames), r, top, c, b)
  BY <1>1, CarriesLess
<1>3. seen \o Head(frames).text = Run(r, 0, c)
  <2>1. a \in Nat /\ c \in Nat /\ a <= c
    BY <1>2
  <2>2. Run(r, 0, a) \o Run(r, a, c) = Run(r, 0, c)
    BY <2>1, RunJoin
  <2>. QED
    BY <1>1, <1>2, <2>2
<1>4. c <= b
  BY <1>2, CarriesUp, HeadTailProperties
<1>. QED
  BY <1>1, <1>2, <1>3, <1>4 DEF Divided

\* what was being written is on its way,
LEMMA DividedSend ==
    ASSUME NEW r \in Nat, NEW top \in Nat, NEW n \in 0..top, NEW seen, NEW writing, NEW kept,
           NEW frames \in Seq(Frames), NEW frame \in Frames, frame.text = writing,
           Divided(r, top, seen, frames, writing, kept, n)
    PROVE  Divided(r, top, seen, Append(frames, frame), <<>>, kept, n)
<1>1. PICK a, b, m \in 0..top :
        /\ a <= b /\ b <= m /\ m <= n
        /\ seen = Run(r, 0, a) /\ Carries(frames, r, top, a, b)
        /\ writing = Run(r, b, m) /\ kept = Run(r, m, n)
  BY DEF Divided
<1>2. Carries(Append(frames, frame), r, top, a, m)
  BY <1>1, CarriesMore
<1>3. Run(r, m, m) = <<>> /\ a <= m
  BY <1>1, RunIs
<1>. QED
  BY <1>1, <1>2, <1>3 DEF Divided

\* what was kept is being written,
LEMMA DividedWrite ==
    ASSUME NEW r \in Nat, NEW top \in Nat, NEW n \in 0..top, NEW seen, NEW kept, NEW frames,
           Divided(r, top, seen, frames, <<>>, kept, n)
    PROVE  Divided(r, top, seen, frames, kept, <<>>, n)
<1>1. PICK a, b, m \in 0..top :
        /\ a <= b /\ b <= m /\ m <= n
        /\ seen = Run(r, 0, a) /\ Carries(frames, r, top, a, b)
        /\ <<>> = Run(r, b, m) /\ kept = Run(r, m, n)
  BY DEF Divided
<1>2. b = m
  BY <1>1, RunIs
<1>3. Run(r, n, n) = <<>>
  BY RunIs
<1>. QED
  BY <1>1, <1>2, <1>3 DEF Divided

\* and a line more is kept.
LEMMA DividedPrint ==
    ASSUME NEW r \in Nat, NEW top \in Nat, NEW n \in 0..top, n < top, NEW seen, NEW frames,
           NEW writing, NEW kept, Divided(r, top, seen, frames, writing, kept, n)
    PROVE  Divided(r, top, seen, frames, writing, Append(kept, <<r, n + 1>>), n + 1)
<1>1. PICK a, b, m \in 0..top :
        /\ a <= b /\ b <= m /\ m <= n
        /\ seen = Run(r, 0, a) /\ Carries(frames, r, top, a, b)
        /\ writing = Run(r, b, m) /\ kept = Run(r, m, n)
  BY DEF Divided
<1>2. Append(kept, <<r, n + 1>>) = Run(r, m, n + 1)
  <2>1. m \in Nat /\ n \in Nat /\ m <= n
    BY <1>1
  <2>2. Append(Run(r, m, n), Line(r, n + 1)) = Run(r, m, n + 1)
    BY <2>1, RunAppend
  <2>. QED
    BY <1>1, <2>2 DEF Line
<1>3. m <= n + 1
  BY <1>1
<1>. QED
  BY <1>1, <1>2, <1>3 DEF Divided

\* What is shown is a run, no longer than what was printed.
LEMMA DividedSeen ==
    ASSUME NEW r \in Nat, NEW top \in Nat, NEW n \in 0..top, NEW seen, NEW frames, NEW writing, NEW kept,
           Divided(r, top, seen, frames, writing, kept, n)
    PROVE  \E a \in 0..n : seen = Run(r, 0, a)
BY DEF Divided

-----------------------------------------------------------------------------
(* Frames on their way to a kernel. *)

\* Output goes behind output...
LEMMA OutputsMore ==
    ASSUME NEW frames \in Seq(Frames), Outputs(frames), NEW frame \in Frames, frame.kind = "output"
    PROVE  Outputs(Append(frames, frame))
<1>1. /\ Len(Append(frames, frame)) = Len(frames) + 1 /\ Len(frames) \in Nat
      /\ \A i \in 1..Len(frames) : Append(frames, frame)[i] = frames[i]
      /\ Append(frames, frame)[Len(frames) + 1] = frame
  BY AppendProperties, LenProperties
<1>. QED
  BY <1>1 DEF Outputs

\* ...and a frame of another kind closes it.
LEMMA ClosedWith ==
    ASSUME NEW frames \in Seq(Frames), Outputs(frames), NEW frame \in Frames
    PROVE  /\ Closed(Append(frames, frame), frame.kind, frame.request)
           /\ Append(frames, frame)[Len(Append(frames, frame))] = frame
<1>1. /\ Len(Append(frames, frame)) = Len(frames) + 1 /\ Len(frames) \in Nat
      /\ \A i \in 1..Len(frames) : Append(frames, frame)[i] = frames[i]
      /\ Append(frames, frame)[Len(frames) + 1] = frame /\ Append(frames, frame) # <<>>
  BY AppendProperties, LenProperties
<1>. QED
  BY <1>1 DEF Outputs, Closed

\* The first of output is output.
LEMMA OutputsLess ==
    ASSUME NEW frames \in Seq(Frames), Outputs(frames), frames # <<>>
    PROVE  Head(frames).kind = "output" /\ Outputs(Tail(frames))
<1>1. Len(frames) \in Nat \ {0} /\ Head(frames) = frames[1]
  BY LenProperties, EmptySeq
<1>2. /\ Len(Tail(frames)) = Len(frames) - 1
      /\ \A i \in 1..(Len(frames) - 1) : Tail(frames)[i] = frames[i + 1]
  BY HeadTailProperties
<1>. QED
  BY <1>1, <1>2 DEF Outputs

\* So is the first of what is closed, or it closes it.
LEMMA ClosedLess ==
    ASSUME NEW frames \in Seq(Frames), NEW kind, NEW r, Closed(frames, kind, r), kind # "output"
    PROVE  /\ Tail(frames) = <<>> =>
                Head(frames).kind = kind /\ Head(frames).request = r
                /\ Head(frames) = frames[Len(frames)]
           /\ Tail(frames) # <<>> =>
                /\ Head(frames).kind = "output" /\ Closed(Tail(frames), kind, r)
                /\ Tail(frames)[Len(Tail(frames))] = frames[Len(frames)]
<1>1. Len(frames) \in Nat \ {0} /\ Head(frames) = frames[1] /\ Tail(frames) \in Seq(Frames)
  BY LenProperties, EmptySeq DEF Closed
<1>2. /\ Len(Tail(frames)) = Len(frames) - 1
      /\ \A i \in 1..(Len(frames) - 1) : Tail(frames)[i] = frames[i + 1]
  BY HeadTailProperties DEF Closed
<1>3. Tail(frames) = <<>> <=> Len(frames) = 1
  <2>1. Tail(frames) = <<>> <=> Len(Tail(frames)) = 0
    BY <1>1, EmptySeq
  <2>2. \A n \in Nat \ {0} : n - 1 = 0 <=> n = 1
    OBVIOUS
  <2>. QED
    BY <1>1, <1>2, <2>1, <2>2
<1>4. CASE Len(frames) = 1
  BY <1>1, <1>3, <1>4 DEF Closed
<1>5. CASE Len(frames) # 1
  <2>1. 1 \in 1..(Len(frames) - 1) /\ Len(frames) - 1 \in 1..(Len(frames) - 1)
    <3>1. \A n \in Nat \ {0} : n # 1 => 1 \in 1..(n - 1) /\ n - 1 \in 1..(n - 1)
      OBVIOUS
    <3>. QED
      BY <1>1, <1>5, <3>1
  <2>2. Head(frames).kind = "output"
    BY <1>1, <2>1 DEF Closed
  <2>3. Tail(frames)[Len(Tail(frames))] = frames[Len(frames)]
    BY <1>1, <1>2, <2>1
  <2>4. ASSUME NEW i \in 1..(Len(Tail(frames)) - 1) PROVE Tail(frames)[i].kind = "output"
    <3>1. i \in 1..(Len(frames) - 1) /\ i + 1 \in 1..(Len(frames) - 1)
      BY <1>1, <1>2
    <3>. QED
      BY <1>2, <3>1 DEF Closed
  <2>. QED
    BY <1>3, <1>5, <2>2, <2>3, <2>4 DEF Closed
<1>. QED
  BY <1>4, <1>5

-----------------------------------------------------------------------------
(* The types hold. *)

\* A frame is one, whatever it carries.
LEMMA FrameIs ==
    ASSUME NEW kind \in {"eval", "call", "line", "output", "prompt", "reply"}, NEW r \in Nat,
           NEW text \in Seq(Printed)
    PROVE  /\ Frame(kind, r, text) \in Frames
           /\ Frame(kind, r, text).kind = kind /\ Frame(kind, r, text).request = r
           /\ Frame(kind, r, text).text = text
BY DEF Frame, Frames

LEMMA ReadingIs == Reading \in Tasks /\ Reading.doing = "reading" /\ Reading.request = 0 /\ Reading.prints = 0
BY DEF Reading, Tasks

LEMMA InitTyped == Init => WellTyped
<1>. SUFFICES ASSUME Init PROVE WellTyped
  OBVIOUS
<1>1. <<>> \in Seq(Nat) /\ <<>> \in Seq(Frames) /\ <<>> \in Seq(Printed)
  BY EmptySeq
<1>. QED
  BY <1>1, ReadingIs DEF Init, WellTyped

\* What the first frame is, and the rest.
LEMMA FirstFrame ==
    ASSUME NEW frames \in Seq(Frames), frames # <<>>
    PROVE  /\ Head(frames) \in Frames /\ Tail(frames) \in Seq(Frames)
           /\ Head(frames).request \in Nat /\ Head(frames).text \in Seq(Printed)
<1>1. Head(frames) \in Frames /\ Tail(frames) \in Seq(Frames)
  BY HeadTailProperties
<1>. QED
  BY <1>1 DEF Frames

\* The kernels and their editors keep the types,
LEMMA KernelTyped ==
    ASSUME WellTyped, NEW k \in Kernel, Kernels(k) \/ Type(k)
    PROVE  WellTyped'
<1>. USE DEF WellTyped, kernels, editors, serving, pipes, history
<1>e. <<>> \in Seq(Printed)
  BY EmptySeq
<1>1. ASSUME NEW kind \in {"eval", "call"}, Begin(k, kind) PROVE WellTyped'
  <2>1. request'[k] \in Nat /\ request' \in [Kernel -> Nat] /\ phase' \in [Kernel -> {"idle", "waiting", "asking"}]
    BY <1>1 DEF Begin
  <2>2. Frame(kind, request'[k], <<>>) \in Frames
    BY <1>e, <2>1, FrameIs
  <2>. HIDE DEF WellTyped
  <2>3. up[k] \in Seq(Frames)
    BY DEF WellTyped
  <2>4. Append(up[k], Frame(kind, request'[k], <<>>)) \in Seq(Frames)
    BY <2>2, <2>3, AppendProperties
  <2>5. up' \in [Kernel -> Seq(Frames)]
    BY <1>1, <2>4 DEF Begin, Send, WellTyped
  <2>6. UNCHANGED <<prompts, lines, task, output, streaming, lock, flushing, evaluating, input, down,
                    shown, taken, given, interrupted, lookup>>
    BY <1>1 DEF Begin
  <2>. QED
    BY <2>1, <2>5, <2>6 DEF WellTyped
<1>2. CASE TakeOutput(k)
  <2>1. Head(down[k]).text \in Seq(Printed) /\ Tail(down[k]) \in Seq(Frames)
    BY <1>2, FirstFrame DEF TakeOutput, Arrives
  <2>2. down' \in [Kernel -> Seq(Frames)] /\ phase' \in [Kernel -> {"idle", "waiting", "asking"}]
    BY <1>2, <2>1 DEF TakeOutput, Take
  <2>3. /\ shown' = [j \in Kernel |-> [r \in Requests(j) |-> shown'[j][r]]]
        /\ \A j \in Kernel : \A r \in Requests(j) : shown'[j][r] \in Seq(Printed)
    <3>1. \A s \in Seq(Printed) : s \o Head(down[k]).text \in Seq(Printed)
      BY <2>1, ConcatProperties
    <3>. QED
      BY <1>2, <3>1 DEF TakeOutput
  <2>. QED
    BY <1>2, <2>2, <2>3 DEF TakeOutput
<1>3. CASE TakePrompt(k)
  <2>1. Tail(down[k]) \in Seq(Frames)
    BY <1>3, FirstFrame DEF TakePrompt, Arrives
  <2>. QED
    BY <1>3, <2>1 DEF TakePrompt, Take
<1>4. CASE AnswerNothing(k)
  <2>1. Tail(down[k]) \in Seq(Frames)
    BY <1>4, FirstFrame DEF AnswerNothing, Arrives
  <2>2. Frame("line", request[k], <<>>) \in Frames
    <3>1. request[k] \in Nat
      OBVIOUS
    <3>. HIDE DEF WellTyped
    <3>. QED
      BY <1>e, <3>1, FrameIs
  <2>3. Append(up[k], Frame("line", request[k], <<>>)) \in Seq(Frames)
    BY <2>2, AppendProperties
  <2>. QED
    BY <1>4, <2>1, <2>3 DEF AnswerNothing, Take, Send
<1>5. CASE AnswerLine(k)
  <2>1. Head(lines[k]) \in Nat /\ Tail(lines[k]) \in Seq(Nat)
    BY <1>5, HeadTailProperties DEF AnswerLine
  <2>2. Frame("line", Head(lines[k]), <<>>) \in Frames
    BY <1>e, <2>1, FrameIs
  <2>3. Append(up[k], Frame("line", Head(lines[k]), <<>>)) \in Seq(Frames)
    BY <2>2, AppendProperties
  <2>. QED
    BY <1>5, <2>1, <2>3 DEF AnswerLine, Send
<1>6. CASE TakeReply(k)
  <2>1. /\ Head(down[k]).text \in Seq(Printed) /\ Tail(down[k]) \in Seq(Frames)
        /\ Head(down[k]).request \in Nat
    BY <1>6, FirstFrame DEF TakeReply, Arrives
  <2>2. down' \in [Kernel -> Seq(Frames)] /\ phase' \in [Kernel -> {"idle", "waiting", "asking"}]
    BY <1>6, <2>1 DEF TakeReply, Take
  <2>3. taken' \in [Kernel -> [reply : Nat, for : Nat]] /\ interrupted' \in [Kernel -> Nat]
    BY <1>6, <2>1 DEF TakeReply
  <2>4. /\ shown' = [j \in Kernel |-> [r \in Requests(j) |-> shown'[j][r]]]
        /\ \A j \in Kernel : \A r \in Requests(j) : shown'[j][r] \in Seq(Printed)
    <3>1. \A s \in Seq(Printed) : s \o Head(down[k]).text \in Seq(Printed)
      BY <2>1, ConcatProperties
    <3>. QED
      BY <1>6, <3>1 DEF TakeReply
  <2>. QED
    BY <1>6, <2>2, <2>3, <2>4 DEF TakeReply
<1>7. CASE Type(k)
  <2>1. Append(lines[k], prompts[k]) \in Seq(Nat)
    BY AppendProperties
  <2>. QED
    BY <1>7, <2>1 DEF Type
<1>. QED
  BY <1>1, <1>2, <1>3, <1>4, <1>5, <1>6, <1>7 DEF Kernels

\* A task goes on.
LEMMA TaskWith ==
    ASSUME NEW t \in Tasks
    PROVE  /\ \A doing \in {"reading", "running", "asking", "ending"} :
                [t EXCEPT !.doing = doing] \in Tasks
           /\ [t EXCEPT !.prints = @ + 1] \in Tasks /\ [t EXCEPT !.asks = @ + 1] \in Tasks
           /\ [t EXCEPT !.doing = "asking", !.asks = @ + 1] \in Tasks
<1>. USE DEF Tasks
<1>1. ASSUME NEW doing \in {"reading", "running", "asking", "ending"}
      PROVE  [t EXCEPT !.doing = doing] \in Tasks
  OBVIOUS
<1>2. [t EXCEPT !.prints = @ + 1] \in Tasks
  OBVIOUS
<1>3. [t EXCEPT !.asks = @ + 1] \in Tasks
  OBVIOUS
<1>4. [t EXCEPT !.doing = "asking", !.asks = @ + 1] \in Tasks
  <2>. DEFINE u == [t EXCEPT !.doing = "asking"]
  <2>1. u \in Tasks
    OBVIOUS
  <2>2. [t EXCEPT !.doing = "asking", !.asks = @ + 1] = [u EXCEPT !.asks = @ + 1]
    OBVIOUS
  <2>. HIDE DEF u
  <2>3. [u EXCEPT !.asks = @ + 1] \in Tasks
    BY <2>1
  <2>. QED
    BY <2>2, <2>3
<1>. HIDE DEF Tasks
<1>. QED
  BY <1>1, <1>2, <1>3, <1>4

\* What an evaluation leaves.
LEMMA LeavesTyped ==
    ASSUME WellTyped, NEW k \in Kernel, Leaves(k)
    PROVE  /\ task' \in [Kernel -> Tasks] /\ lock' \in [Kernel -> {"nobody", "flusher", "prompt"}]
           /\ evaluating' = None /\ input' = None
           /\ task' = [task EXCEPT ![k].doing = "ending"]
           /\ lock'[k] = IF lock[k] = "prompt" THEN "nobody" ELSE lock[k]
           /\ \A j \in Kernel \ {k} : lock'[j] = lock[j]
<1>1. [task[k] EXCEPT !.doing = "ending"] \in Tasks
  <2>1. task[k] \in Tasks
    BY DEF WellTyped
  <2>. QED
    BY <2>1, TaskWith
<1>2. task \in [Kernel -> Tasks] /\ lock \in [Kernel -> {"nobody", "flusher", "prompt"}]
  BY DEF WellTyped
<1>. QED
  BY <1>1, <1>2 DEF Leaves

\* so does the server,
LEMMA ServerTyped ==
    ASSUME WellTyped, NEW k \in Kernel, Serves(k)
    PROVE  WellTyped'
<1>. USE DEF kernels, editors, serving, pipes, history
<1>e. <<>> \in Seq(Printed)
  BY EmptySeq
<1>k. /\ up[k] \in Seq(Frames) /\ down[k] \in Seq(Frames) /\ task[k] \in Tasks
      /\ output[k] \in Seq(Printed) /\ flushing[k] \in Seq(Printed)
      /\ task[k].request \in Nat /\ task[k].prints \in Nat
  BY DEF WellTyped, Tasks
<1>1. CASE Evaluate(k)
  <2>1. Head(up[k]).request \in Nat /\ Tail(up[k]) \in Seq(Frames)
    BY <1>1, <1>k, FirstFrame DEF Evaluate
  <2>2. [Reading EXCEPT !.doing = "running", !.request = Head(up[k]).request] \in Tasks
    BY <2>1 DEF Reading, Tasks
  <2>. QED
    BY <1>1, <2>1, <2>2 DEF Evaluate, WellTyped
<1>2. CASE Call(k)
  <2>1. Head(up[k]).request \in Nat /\ Tail(up[k]) \in Seq(Frames)
    BY <1>2, <1>k, FirstFrame DEF Call
  <2>2. Append(down[k], Frame("reply", Head(up[k]).request, <<>>)) \in Seq(Frames)
    BY <1>e, <1>k, <2>1, FrameIs, AppendProperties
  <2>. QED
    BY <1>2, <2>1, <2>2 DEF Call, WellTyped
<1>3. CASE Typed(k)
  <2>1. Tail(up[k]) \in Seq(Frames)
    BY <1>3, <1>k, FirstFrame DEF Typed
  <2>2. Append(down[k], Frame("reply", 0, <<>>)) \in Seq(Frames)
    BY <1>e, <1>k, FrameIs, AppendProperties
  <2>. QED
    BY <1>3, <2>1, <2>2 DEF Typed, WellTyped
<1>4. CASE PrintOut(k)
  <2>1. task' \in [Kernel -> Tasks] /\ task'[k].prints = task[k].prints + 1
    <3>1. [task[k] EXCEPT !.prints = @ + 1] \in Tasks
      BY <1>k, TaskWith
    <3>2. task \in [Kernel -> Tasks] /\ task' = [task EXCEPT ![k] = [task[k] EXCEPT !.prints = @ + 1]]
      BY <1>4 DEF PrintOut, WellTyped
    <3>3. [task[k] EXCEPT !.prints = @ + 1].prints = task[k].prints + 1
      BY <1>k DEF Tasks
    <3>. QED
      BY <3>1, <3>2, <3>3
  <2>2. <<task[k].request, task'[k].prints>> \in Printed
    BY <1>k, <2>1 DEF Printed
  <2>3. Append(output[k], <<task[k].request, task'[k].prints>>) \in Seq(Printed)
    BY <1>k, <2>2, AppendProperties
  <2>. QED
    BY <1>4, <2>1, <2>3 DEF PrintOut, WellTyped
<1>5. CASE Flush(k)
  BY <1>5, <1>e, <1>k DEF Flush, WellTyped
<1>6. CASE Flushed(k)
  <2>1. Append(down[k], Frame("output", 0, flushing[k])) \in Seq(Frames)
    BY <1>k, FrameIs, AppendProperties
  <2>. QED
    BY <1>6, <1>e, <2>1 DEF Flushed, WellTyped
<1>7. CASE Ask(k)
  <2>1. down[k] \o Pending(k) \o <<Frame("prompt", task[k].request, <<>>)>> \in Seq(Frames)
    <3>1. Frame("output", 0, output[k]) \in Frames /\ Frame("prompt", task[k].request, <<>>) \in Frames
      BY <1>e, <1>k, FrameIs
    <3>2. Pending(k) \in Seq(Frames) /\ <<Frame("prompt", task[k].request, <<>>)>> \in Seq(Frames)
      BY <3>1, EmptySeq DEF Pending
    <3>. QED
      BY <1>k, <3>2, ConcatProperties
  <2>2. task' \in [Kernel -> Tasks]
    <3>1. [task[k] EXCEPT !.doing = "asking", !.asks = @ + 1] \in Tasks
      BY <1>k, TaskWith
    <3>2. /\ task \in [Kernel -> Tasks]
          /\ task' = [task EXCEPT ![k] = [task[k] EXCEPT !.doing = "asking", !.asks = @ + 1]]
      BY <1>7 DEF Ask, WellTyped
    <3>. QED
      BY <3>1, <3>2
  <2>3. /\ down' \in [Kernel -> Seq(Frames)] /\ output' \in [Kernel -> Seq(Printed)]
        /\ lock' \in [Kernel -> {"nobody", "flusher", "prompt"}]
    BY <1>7, <1>e, <2>1 DEF Ask, WellTyped
  <2>4. UNCHANGED <<phase, request, prompts, lines, streaming, flushing, evaluating, input, up, shown, taken,
                    given, interrupted>>
    BY <1>7 DEF Ask
  <2>. QED
    BY <2>2, <2>3, <2>4 DEF WellTyped
<1>8. CASE AskNobody(k)
  <2>1. task' \in [Kernel -> Tasks]
    <3>1. [task[k] EXCEPT !.asks = @ + 1] \in Tasks
      BY <1>k, TaskWith
    <3>2. task \in [Kernel -> Tasks] /\ task' = [task EXCEPT ![k] = [task[k] EXCEPT !.asks = @ + 1]]
      BY <1>8 DEF AskNobody, WellTyped
    <3>. QED
      BY <3>1, <3>2
  <2>. QED
    BY <1>8, <1>k, <2>1 DEF AskNobody, WellTyped
<1>9. CASE GetLine(k)
  <2>1. Head(up[k]).request \in Nat /\ Tail(up[k]) \in Seq(Frames)
    BY <1>9, <1>k, FirstFrame DEF GetLine
  <2>2. task' \in [Kernel -> Tasks]
    BY <1>9, <1>k DEF GetLine, WellTyped, Tasks
  <2>. QED
    BY <1>9, <1>k, <2>1, <2>2 DEF GetLine, WellTyped
<1>10. CASE End(k)
  <2>1. UNCHANGED <<phase, request, prompts, lines, output, streaming, flushing, up, down, shown, taken,
                    given, interrupted>>
    BY <1>10 DEF End
  <2>2. /\ task' \in [Kernel -> Tasks] /\ lock' \in [Kernel -> {"nobody", "flusher", "prompt"}]
        /\ evaluating' = None /\ input' = None
    BY <1>10, LeavesTyped DEF End
  <2>. QED
    BY <2>1, <2>2 DEF WellTyped
<1>11. CASE Reply(k)
  <2>1. Append(down[k], Frame("reply", task[k].request, output[k])) \in Seq(Frames)
    BY <1>k, FrameIs, AppendProperties
  <2>2. task' \in [Kernel -> Tasks] /\ down' \in [Kernel -> Seq(Frames)]
    BY <1>11, <2>1, ReadingIs DEF Reply, WellTyped
  <2>3. output' \in [Kernel -> Seq(Printed)] /\ streaming' \in [Kernel -> BOOLEAN]
    BY <1>11, <1>e DEF Reply, WellTyped
  <2>4. UNCHANGED <<phase, request, prompts, lines, lock, flushing, evaluating, input, up, shown, taken, given,
                    interrupted>>
    BY <1>11 DEF Reply
  <2>. QED
    BY <2>2, <2>3, <2>4 DEF WellTyped
<1>. QED
  BY <1>1, <1>2, <1>3, <1>4, <1>5, <1>6, <1>7, <1>8, <1>9, <1>10, <1>11 DEF Serves

\* and whatever anybody does.
LEMMA StepTyped == WellTyped /\ [Next]_vars => WellTyped'
<1>. SUFFICES ASSUME WellTyped, [Next]_vars PROVE WellTyped'
  OBVIOUS
<1>1. ASSUME NEW k \in Kernel, Interrupt(k) PROVE WellTyped'
  <2>1. UNCHANGED <<phase, request, prompts, lines, output, streaming, flushing, up, down, shown, taken, given>>
    BY <1>1 DEF Interrupt, kernels, editors, pipes
  <2>2. interrupted' \in [Kernel -> Nat]
    BY <1>1 DEF Interrupt, WellTyped
  <2>3. CASE evaluating = None
    <3>1. UNCHANGED <<task, evaluating, input, lock, lookup>>
      BY <1>1, <2>3 DEF Interrupt
    <3>. QED
      BY <2>1, <2>2, <3>1 DEF WellTyped
  <2>4. CASE evaluating # None
    <3>1. evaluating \in Kernel /\ Leaves(evaluating)
      BY <1>1, <2>4 DEF Interrupt, WellTyped
    <3>2. /\ task' \in [Kernel -> Tasks] /\ lock' \in [Kernel -> {"nobody", "flusher", "prompt"}]
          /\ evaluating' = None /\ input' = None
      BY <3>1, LeavesTyped
    <3>. QED
      BY <2>1, <2>2, <3>2 DEF WellTyped
  <2>. QED
    BY <2>3, <2>4
<1>2. CASE LooksUp \/ UNCHANGED vars
  BY <1>2 DEF LooksUp, LookUp, AnswerLookUp, TakeLookUp, TimeOut, vars, kernels, editors, serving, pipes,
              history, WellTyped
<1>. QED
  BY <1>1, <1>2, KernelTyped, ServerTyped DEF Next

-----------------------------------------------------------------------------
(* Kernels keep out of each other's way. *)

\* What there is of a kernel: all but the slots and the lookups.
Own(k) == <<phase[k], request[k], prompts[k], lines[k], up[k], down[k], task[k], output[k], streaming[k],
            lock[k], flushing[k], shown[k], taken[k], given[k], interrupted[k]>>

\* Nobody is disturbed.
Calm == \A k \in Kernel : Patient(k) /\ Undisturbed(k)

\* What is left alone stays as it is.
LEMMA KernelStays ==
    ASSUME NEW k \in Kernel, KernelInv(k), Own(k)' = Own(k)
    PROVE  KernelInv(k)'
<1>1. /\ phase'[k] = phase[k] /\ request'[k] = request[k] /\ prompts'[k] = prompts[k] /\ lines'[k] = lines[k]
      /\ up'[k] = up[k] /\ down'[k] = down[k] /\ task'[k] = task[k] /\ output'[k] = output[k]
      /\ streaming'[k] = streaming[k] /\ lock'[k] = lock[k] /\ flushing'[k] = flushing[k]
      /\ shown'[k] = shown[k] /\ taken'[k] = taken[k] /\ given'[k] = given[k]
      /\ interrupted'[k] = interrupted[k]
  BY DEF Own
<1>2. Turn(k)'
  BY <1>1 DEF KernelInv, Turn, Idle, Sent, Running, Asked, Prompting, Answered, Ending, Replied
<1>3. Within(k)' /\ Locked(k)' /\ Shown(k)' /\ Matches(k)'
  BY <1>1 DEF KernelInv, Within, Locked, Shown, Matches
<1>4. Cut(k)'
  BY <1>1 DEF KernelInv, Cut
<1>. QED
  BY <1>2, <1>3, <1>4 DEF KernelInv

\* What an interrupt changes: the task of the evaluation in the slot, if there is one.
LEMMA InterruptIs ==
    ASSUME WellTyped, NEW k \in Kernel, Interrupt(k)
    PROVE  /\ interrupted' = [interrupted EXCEPT ![k] = request[k]]
           /\ UNCHANGED <<phase, request, prompts, lines, output, streaming, flushing, up, down, shown,
                          taken, given>>
           /\ \/ UNCHANGED <<task, lock>>
              \/ evaluating \in Kernel /\ Leaves(evaluating)
  BY DEF Interrupt, WellTyped, kernels, editors, pipes

\* What is done by one kernel, or for it, leaves the others alone.
LEMMA OthersStay ==
    ASSUME WellTyped, Slots, NEW k \in Kernel, KernelInv(k), Patient(k), Undisturbed(k),
           Kernels(k) \/ Type(k) \/ Serves(k),
           NEW j \in Kernel, j # k
    PROVE  Own(j)' = Own(j)
<1>. USE DEF Own, kernels, editors, serving, pipes, history
<1>t. /\ phase \in [Kernel -> {"idle", "waiting", "asking"}]
      /\ request \in [Kernel -> Nat] /\ prompts \in [Kernel -> Nat] /\ interrupted \in [Kernel -> Nat]
      /\ lines \in [Kernel -> Seq(Nat)]
      /\ up \in [Kernel -> Seq(Frames)] /\ down \in [Kernel -> Seq(Frames)]
      /\ task \in [Kernel -> Tasks]
      /\ output \in [Kernel -> Seq(Printed)] /\ flushing \in [Kernel -> Seq(Printed)]
      /\ streaming \in [Kernel -> BOOLEAN]
      /\ lock \in [Kernel -> {"nobody", "flusher", "prompt"}]
      /\ DOMAIN shown = Kernel
      /\ taken \in [Kernel -> [reply : Nat, for : Nat]] /\ given \in [Kernel -> [prompt : Nat, to : Nat]]
  BY DEF WellTyped
<1>1. CASE Kernels(k)
  <2>. USE DEF Send, Take
  <2>1. ASSUME NEW kind, Begin(k, kind) PROVE Own(j)' = Own(j)
    BY <1>t, <2>1 DEF Begin
  <2>2. CASE TakeOutput(k)
    BY <1>t, <2>2 DEF TakeOutput
  <2>3. CASE TakePrompt(k)
    BY <1>t, <2>3 DEF TakePrompt
  <2>4. CASE AnswerNothing(k)
    BY <1>t, <2>4 DEF AnswerNothing
  <2>5. CASE AnswerLine(k)
    BY <1>t, <2>5 DEF AnswerLine
  <2>6. CASE TakeReply(k)
    BY <1>t, <2>6 DEF TakeReply
  <2>. QED
    BY <1>1, <2>1, <2>2, <2>3, <2>4, <2>5, <2>6 DEF Kernels
<1>2. CASE Type(k)
  BY <1>t, <1>2 DEF Type
<1>3. CASE Serves(k)
  <2>1. CASE Evaluate(k)
    BY <1>t, <2>1 DEF Evaluate
  <2>2. CASE Call(k)
    BY <1>t, <2>2 DEF Call
  <2>3. CASE Typed(k)
    BY <1>t, <2>3 DEF Typed
  <2>4. CASE PrintOut(k)
    BY <1>t, <2>4 DEF PrintOut
  <2>5. CASE Flush(k)
    BY <1>t, <2>5 DEF Flush
  <2>6. CASE Flushed(k)
    BY <1>t, <2>6 DEF Flushed
  <2>7. CASE Ask(k)
    BY <1>t, <2>7 DEF Ask
  <2>8. CASE AskNobody(k)
    BY <1>t, <2>8 DEF AskNobody
  <2>9. CASE GetLine(k)
    BY <1>t, <2>9 DEF GetLine
  <2>10. CASE End(k)
    BY <1>t, <2>10 DEF End, Leaves
  <2>11. CASE Reply(k)
    BY <1>t, <2>11 DEF Reply
  <2>. QED
    BY <1>3, <2>1, <2>2, <2>3, <2>4, <2>5, <2>6, <2>7, <2>8, <2>9, <2>10, <2>11 DEF Serves
<1>. QED
  BY <1>1, <1>2, <1>3

\* Whoever is in the slot evaluates.
LEMMA SlotsKept == WellTyped /\ Slots /\ [Next]_vars => Slots'
<1>. SUFFICES ASSUME WellTyped, Slots, [Next]_vars PROVE Slots'
  OBVIOUS
<1>. USE DEF kernels, editors, serving, pipes, history
<1>t. task \in [Kernel -> Tasks] /\ evaluating \in Kernel \cup {None}
  BY DEF WellTyped
<1>1. ASSUME NEW k \in Kernel, Leaves(k) PROVE Slots'
  BY <1>1 DEF Leaves, Slots
<1>2. ASSUME UNCHANGED <<task, evaluating>> PROVE Slots'
  BY <1>2 DEF Slots, Evaluates
<1>3. ASSUME NEW k \in Kernel, Kernels(k) \/ Type(k) PROVE Slots'
  BY <1>2, <1>3 DEF Kernels, Begin, TakeOutput, TakePrompt, AnswerNothing, AnswerLine, TakeReply, Type
<1>4. ASSUME NEW k \in Kernel, Interrupt(k) PROVE Slots'
  BY <1>t, <1>1, <1>2, <1>4 DEF Interrupt
<1>5. ASSUME NEW k \in Kernel, Serves(k) PROVE Slots'
  <2>1. CASE Evaluate(k)
    BY <1>t, <2>1 DEF Evaluate, Slots, Evaluates
  <2>2. CASE Call(k) \/ Typed(k) \/ Flush(k) \/ Flushed(k)
    BY <1>2, <2>2 DEF Call, Typed, Flush, Flushed
  <2>3. CASE PrintOut(k) \/ Ask(k) \/ AskNobody(k) \/ GetLine(k)
    <3>1. evaluating' = evaluating /\ \A j \in Kernel \ {k} : task'[j] = task[j]
      BY <1>t, <2>3 DEF PrintOut, Ask, AskNobody, GetLine
    <3>2. task'[k].doing \in {"running", "asking"}
      BY <1>t, <2>3 DEF PrintOut, Ask, AskNobody, GetLine, Tasks
    <3>. QED
      BY <1>t, <3>1, <3>2 DEF Slots, Evaluates
  <2>4. CASE Reply(k)
    BY <1>t, <2>4 DEF Reply, Slots, Evaluates
  <2>5. CASE End(k)
    BY <1>1, <2>5 DEF End
  <2>. QED
    BY <1>5, <2>1, <2>2, <2>3, <2>4, <2>5 DEF Serves
<1>6. ASSUME LooksUp PROVE Slots'
  BY <1>2, <1>6 DEF LooksUp, LookUp, AnswerLookUp, TakeLookUp, TimeOut
<1>. QED
  BY <1>2, <1>3, <1>4, <1>5, <1>6 DEF Next, vars

\* A lookup is answered with its own answer.
LEMMA LookupsKept == LooksUpOnce /\ [Next]_vars => LooksUpOnce'
<1>. SUFFICES ASSUME LooksUpOnce, [Next]_vars PROVE LooksUpOnce'
  OBVIOUS
<1>. USE DEF history
<1>1. CASE UNCHANGED lookup
  BY <1>1 DEF LooksUpOnce
<1>e. Append(<<>>, lookup.number + 1) = <<lookup.number + 1>> /\ Append(<<>>, lookup.number) = <<lookup.number>>
      /\ Head(<<lookup.number>>) = lookup.number /\ Tail(<<lookup.number>>) = <<>>
      /\ <<lookup.number>> # <<>>
  OBVIOUS
<1>2. CASE LookUp
  <2>1. lookup' = [number |-> lookup.number + 1, waiting |-> TRUE, up |-> <<lookup.number + 1>>,
                   down |-> <<>>, taken |-> lookup.taken]
    BY <1>2, <1>e DEF LookUp, LooksUpOnce
  <2>. QED
    BY <2>1 DEF LooksUpOnce
<1>3. CASE AnswerLookUp
  <2>1. lookup' = [number |-> lookup.number, waiting |-> TRUE, up |-> <<>>, down |-> <<lookup.number>>,
                   taken |-> lookup.taken]
    BY <1>3, <1>e DEF AnswerLookUp, LooksUpOnce
  <2>. QED
    BY <2>1 DEF LooksUpOnce
<1>4. CASE TakeLookUp
  <2>1. lookup' = [number |-> lookup.number, waiting |-> FALSE, up |-> <<>>, down |-> <<>>,
                   taken |-> lookup.number]
    BY <1>4, <1>e DEF TakeLookUp, LooksUpOnce
  <2>. QED
    BY <2>1 DEF LooksUpOnce
<1>5. CASE TimeOut
  <2>1. lookup' = [number |-> lookup.number, waiting |-> FALSE, up |-> <<>>, down |-> <<>>,
                   taken |-> lookup.number]
    BY <1>5 DEF TimeOut, NoLookup
  <2>. QED
    BY <2>1 DEF LooksUpOnce
<1>6. ASSUME NEW k \in Kernel, Kernels(k) \/ Type(k) \/ Serves(k) \/ Interrupt(k) PROVE UNCHANGED lookup
  BY <1>6 DEF Kernels, Begin, TakeOutput, TakePrompt, AnswerNothing, AnswerLine, TakeReply, Type, Serves,
              Evaluate, Call, Typed, PrintOut, Flush, Flushed, Ask, AskNobody, GetLine, End, Reply, Interrupt
<1>. QED
  BY <1>1, <1>2, <1>3, <1>4, <1>5, <1>6 DEF Next, LooksUp, vars

-----------------------------------------------------------------------------
(* The kernel and its editor keep the invariant. *)

\* The types of what there is of a kernel.
LEMMA OwnTyped ==
    ASSUME WellTyped, NEW k \in Kernel
    PROVE  /\ phase[k] \in {"idle", "waiting", "asking"}
           /\ request[k] \in Nat /\ prompts[k] \in Nat /\ interrupted[k] \in Nat /\ lines[k] \in Seq(Nat)
           /\ up[k] \in Seq(Frames) /\ down[k] \in Seq(Frames)
           /\ task[k] \in Tasks /\ task[k].doing \in {"reading", "running", "asking", "ending"}
           /\ task[k].prints \in Nat
           /\ output[k] \in Seq(Printed) /\ flushing[k] \in Seq(Printed)
           /\ lock[k] \in {"nobody", "flusher", "prompt"}
           /\ MaxRequests[k] \in Nat /\ MaxPrints[k] \in Nat
BY ReplAssumption DEF WellTyped, Tasks, ReplAssumption

\* Whose turn it is shows in what the server does and what the kernel waits for.
LEMMA TurnIs ==
    ASSUME WellTyped, NEW k \in Kernel, KernelInv(k)
    PROVE  /\ phase[k] = "idle" => Idle(k)
           /\ task[k].doing = "reading" => task[k] = Reading /\ (Idle(k) \/ Sent(k) \/ Replied(k))
           /\ task[k].doing = "running" => Running(k)
           /\ task[k].doing = "asking" => Asked(k) \/ Prompting(k) \/ Answered(k)
           /\ task[k].doing = "ending" => Ending(k)
           /\ task[k].doing # "reading" => task[k].request = request[k]
           /\ ~Prompting(k) => lines[k] = <<>>
BY ReadingIs DEF KernelInv, Turn, Idle, Sent, Running, Asked, Prompting, Answered, Ending, Replied

\* A request begins, of which nothing was shown yet.
LEMMA BeginKept ==
    ASSUME WellTyped, NEW k \in Kernel, KernelInv(k), NEW kind \in {"eval", "call"}, Begin(k, kind)
    PROVE  KernelInv(k)'
<1>1. Idle(k) /\ lines[k] = <<>> /\ request[k] < MaxRequests[k]
  BY TurnIs DEF Begin, Prompting, Idle
<1>2. /\ phase'[k] = "waiting" /\ request'[k] = request[k] + 1
      /\ up'[k] = Append(up[k], Frame(kind, request'[k], <<>>))
      /\ UNCHANGED <<prompts, lines, task, output, streaming, lock, flushing, down, shown, taken, given, interrupted>>
  BY DEF Begin, Send, WellTyped, editors, serving, history
<1>3. up'[k] = <<Frame(kind, request'[k], <<>>)>>
  BY <1>1, <1>2 DEF Idle
<1>4. request'[k] \in Requests(k) /\ request'[k] > request[k] /\ request'[k] \in 0..MaxRequests[k]
  BY <1>1, <1>2, OwnTyped DEF Requests
<1>5. shown'[k][request'[k]] = <<>>
  BY <1>2, <1>4 DEF KernelInv, Shown
<1>6. /\ task'[k] = Reading /\ task'[k].doing = "reading" /\ down'[k] = <<>> /\ output'[k] = <<>>
      /\ flushing'[k] = <<>> /\ phase'[k] # "asking"
  BY <1>1, <1>2, ReadingIs DEF Idle, KernelInv, Locked
<1>7. Turn(k)'
  <2>1. Sent(k)'
    BY <1>2, <1>3, <1>5, <1>6 DEF Sent
  <2>2. ~Prompting(k)'
    BY <1>2 DEF Prompting
  <2>. QED
    BY <1>1, <1>2, <1>6, <2>1, <2>2 DEF Turn
<1>8. Within(k)'
  BY <1>2, <1>4, OwnTyped DEF KernelInv, Within
<1>9. Locked(k)' /\ Matches(k)'
  BY <1>2 DEF KernelInv, Locked, Matches
<1>10. Cut(k)'
  <2>1. Divided(request'[k], MaxPrints[k], <<>>, <<>>, <<>>, <<>>, 0) /\ 0 \in 0..MaxPrints[k]
    BY <1>4, OwnTyped, DividedNone
  <2>. QED
    BY <1>5, <1>6, <2>1 DEF Cut
<1>11. Shown(k)'
  <2>1. Requests(k)' = Requests(k) /\ MaxPrints[k]' = MaxPrints[k]
    BY DEF Requests
  <2>2. ASSUME NEW r \in Requests(k), r > request'[k] PROVE r > request[k]
    BY <1>2, <2>2, OwnTyped DEF Requests
  <2>3. \A r \in Requests(k) :
          /\ \E n \in 0..MaxPrints[k] : shown[k][r] = Run(r, 0, n)
          /\ r > request[k] => shown[k][r] = <<>>
    BY DEF KernelInv, Shown
  <2>4. \A r \in Requests(k) :
          /\ \E n \in 0..MaxPrints[k] : shown'[k][r] = Run(r, 0, n)
          /\ r > request'[k] => shown'[k][r] = <<>>
    BY <1>2, <2>2, <2>3
  <2>. QED
    BY <2>1, <2>4 DEF Shown
<1>. QED
  BY <1>7, <1>8, <1>9, <1>10, <1>11 DEF KernelInv

\* What a frame carries is shown.
LEMMA TakenShown ==
    ASSUME WellTyped, NEW k \in Kernel, KernelInv(k), phase[k] # "idle", down[k] # <<>>,
           request' = request, task' = task, flushing' = flushing, output' = output,
           down'[k] = Tail(down[k]),
           shown'[k] = [shown[k] EXCEPT ![request[k]] = @ \o Head(down[k]).text]
    PROVE  Cut(k)' /\ Shown(k)'
<1>1. request[k] \in Requests(k) /\ request[k] \in Nat /\ MaxPrints[k] \in Nat
  BY OwnTyped DEF KernelInv, Within, Requests
<1>2. shown[k] = [r \in Requests(k) |-> shown[k][r]]
  BY DEF WellTyped
<1>3. /\ shown'[k][request[k]] = shown[k][request[k]] \o Head(down[k]).text
      /\ \A r \in Requests(k) \ {request[k]} : shown'[k][r] = shown[k][r]
  BY <1>1, <1>2
<1>4. PICK n \in 0..MaxPrints[k] :
        /\ Divided(request[k], MaxPrints[k], shown[k][request[k]], down[k], flushing[k], output[k], n)
        /\ task[k].doing # "reading" => n = task[k].prints
  BY DEF KernelInv, Cut
<1>5. Divided(request[k], MaxPrints[k], shown'[k][request[k]], down'[k], flushing[k], output[k], n)
  <2>1. down[k] \in Seq(Frames)
    BY OwnTyped
  <2>2. Divided(request[k], MaxPrints[k], shown[k][request[k]] \o Head(down[k]).text, Tail(down[k]),
                flushing[k], output[k], n)
    BY <1>1, <1>4, <2>1, DividedTake
  <2>. QED
    BY <1>3, <2>2
<1>6. Cut(k)'
  BY <1>4, <1>5 DEF Cut
<1>7. PICK a \in 0..n : shown'[k][request[k]] = Run(request[k], 0, a)
  BY <1>1, <1>5, DividedSeen
<1>8. a \in 0..MaxPrints[k]
  BY <1>1
<1>9. ASSUME NEW r \in Requests(k)
      PROVE  /\ \E c \in 0..MaxPrints[k] : shown'[k][r] = Run(r, 0, c)
             /\ r > request[k] => shown'[k][r] = <<>>
  <2>1. CASE r = request[k]
    BY <1>1, <1>7, <1>8, <2>1
  <2>2. CASE r # request[k]
    BY <1>3, <2>2 DEF KernelInv, Shown
  <2>. QED
    BY <2>1, <2>2
<1>10. Shown(k)'
  BY <1>9 DEF Shown
<1>. QED
  BY <1>6, <1>10

\* Output is shown.
LEMMA TakeOutputKept ==
    ASSUME WellTyped, NEW k \in Kernel, KernelInv(k), TakeOutput(k)
    PROVE  KernelInv(k)'
<1>1. /\ phase[k] # "idle" /\ down[k] # <<>> /\ Head(down[k]).kind = "output"
      /\ phase'[k] = "waiting" /\ down'[k] = Tail(down[k])
      /\ shown'[k] = [shown[k] EXCEPT ![request[k]] = @ \o Head(down[k]).text]
      /\ UNCHANGED <<request, prompts, lines, up, task, output, streaming, lock, flushing, taken, given, interrupted>>
  BY DEF TakeOutput, Arrives, Take, WellTyped, editors, serving
<1>2. down[k] \in Seq(Frames) /\ task[k].doing \in {"reading", "running", "asking", "ending"}
  BY OwnTyped
<1>3. Cut(k)' /\ Shown(k)'
  BY <1>1, TakenShown
<1>4. Within(k)' /\ Locked(k)' /\ Matches(k)'
  BY <1>1 DEF KernelInv, Within, Locked, Matches
<1>5. ~Prompting(k) /\ ~Prompting(k)' /\ lines'[k] = <<>> /\ (task'[k].doing # "reading" => task'[k].request = request'[k])
  BY <1>1, TurnIs DEF Prompting
<1>6. \/ Running(k)' \/ Asked(k)' \/ Ending(k)' \/ Replied(k)'
  <2>1. CASE Running(k)
    BY <1>1, <1>2, <2>1, OutputsLess DEF Running
  <2>2. CASE Asked(k)
    <3>1. Closed(down[k], "prompt", request[k]) /\ down[k][Len(down[k])].text = <<>>
      BY <2>2 DEF Asked
    <3>2. Tail(down[k]) # <<>>
      BY <1>1, <1>2, <3>1, ClosedLess
    <3>3. Closed(down'[k], "prompt", request[k]) /\ down'[k][Len(down'[k])].text = <<>>
      BY <1>1, <1>2, <3>1, <3>2, ClosedLess
    <3>. QED
      BY <1>1, <2>2, <3>3 DEF Asked
  <2>3. CASE Ending(k)
    BY <1>1, <1>2, <2>3, OutputsLess DEF Ending
  <2>4. CASE Replied(k)
    <3>1. Closed(down[k], "reply", request[k])
      BY <2>4 DEF Replied
    <3>2. Tail(down[k]) # <<>>
      BY <1>1, <1>2, <3>1, ClosedLess
    <3>3. Closed(down'[k], "reply", request[k])
      BY <1>1, <1>2, <3>1, <3>2, ClosedLess
    <3>. QED
      BY <1>1, <2>4, <3>3 DEF Replied
  <2>5. ~Idle(k) /\ ~Sent(k) /\ ~Prompting(k) /\ ~Answered(k)
    BY <1>1 DEF Idle, Sent, Prompting, Answered
  <2>. QED
    BY <2>1, <2>2, <2>3, <2>4, <2>5 DEF KernelInv, Turn
<1>7. Turn(k)'
  BY <1>5, <1>6 DEF Turn
<1>. QED
  BY <1>3, <1>4, <1>7 DEF KernelInv

\* A frame that carries nothing shows nothing.
LEMMA NothingTaken ==
    ASSUME WellTyped, NEW k \in Kernel, KernelInv(k), phase[k] # "idle", down[k] # <<>>,
           Head(down[k]).text = <<>>, UNCHANGED <<request, task, flushing, output, shown>>,
           down'[k] = Tail(down[k])
    PROVE  Cut(k)' /\ Shown(k)'
<1>1. request[k] \in Requests(k) /\ request[k] \in Nat /\ MaxPrints[k] \in Nat /\ down[k] \in Seq(Frames)
  BY OwnTyped DEF KernelInv, Within, Requests
<1>2. shown[k][request[k]] \in Seq(Printed)
  BY <1>1 DEF WellTyped
<1>3. shown[k][request[k]] \o <<>> = shown[k][request[k]]
  BY <1>2, ConcatEmptySeq
<1>4. PICK n \in 0..MaxPrints[k] :
        /\ Divided(request[k], MaxPrints[k], shown[k][request[k]], down[k], flushing[k], output[k], n)
        /\ task[k].doing # "reading" => n = task[k].prints
  BY DEF KernelInv, Cut
<1>5. Divided(request[k], MaxPrints[k], shown[k][request[k]] \o <<>>, Tail(down[k]), flushing[k], output[k], n)
  BY <1>1, <1>4, DividedTake
<1>6. Cut(k)'
  BY <1>3, <1>4, <1>5 DEF Cut
<1>7. Shown(k)'
  BY DEF KernelInv, Shown
<1>. QED
  BY <1>6, <1>7

\* A prompt is the last frame there is, and its line comes from nowhere else.
LEMMA PromptIs ==
    ASSUME WellTyped, NEW k \in Kernel, KernelInv(k), phase[k] = "waiting", Arrives(k, "prompt")
    PROVE  /\ Asked(k) /\ down[k] # <<>> /\ Tail(down[k]) = <<>> /\ Head(down[k]).text = <<>>
           /\ lines[k] = <<>>
<1>1. down[k] # <<>> /\ Head(down[k]).kind = "prompt" /\ down[k] \in Seq(Frames)
  BY OwnTyped DEF Arrives
<1>2. ~Idle(k) /\ ~Sent(k) /\ ~Prompting(k) /\ ~Answered(k)
  BY <1>1 DEF Idle, Sent, Prompting, Answered
<1>3. ~Running(k) /\ ~Ending(k)
  BY <1>1, OutputsLess DEF Running, Ending
<1>4. ~Replied(k)
  BY <1>1, ClosedLess DEF Replied
<1>5. Asked(k)
  BY <1>2, <1>3, <1>4 DEF KernelInv, Turn
<1>6. Tail(down[k]) = <<>> /\ Head(down[k]) = down[k][Len(down[k])]
  BY <1>1, <1>5, ClosedLess DEF Asked
<1>. QED
  BY <1>1, <1>2, <1>5, <1>6, TurnIs DEF Asked

\* The prompt is shown,
LEMMA TakePromptKept ==
    ASSUME WellTyped, NEW k \in Kernel, KernelInv(k), TakePrompt(k)
    PROVE  KernelInv(k)'
<1>1. /\ Asked(k) /\ down[k] # <<>> /\ Tail(down[k]) = <<>> /\ Head(down[k]).text = <<>> /\ lines[k] = <<>>
      /\ phase[k] = "waiting"
  BY PromptIs DEF TakePrompt
<1>2. /\ phase'[k] = "asking" /\ down'[k] = Tail(down[k]) /\ prompts'[k] = request[k]
      /\ UNCHANGED <<request, lines, up, task, output, streaming, lock, flushing, shown, taken, given, interrupted>>
  BY DEF TakePrompt, Take, WellTyped, serving, history
<1>3. Cut(k)' /\ Shown(k)'
  BY <1>1, <1>2, NothingTaken
<1>4. Within(k)' /\ Locked(k)' /\ Matches(k)'
  BY <1>1, <1>2 DEF KernelInv, Within, Locked, Matches
<1>5. Prompting(k)'
  BY <1>1, <1>2 DEF Asked, Prompting
<1>6. Turn(k)'
  BY <1>1, <1>2, <1>5, TurnIs DEF Turn
<1>. QED
  BY <1>3, <1>4, <1>6 DEF KernelInv

\* or answered,
LEMMA AnswerNothingKept ==
    ASSUME WellTyped, NEW k \in Kernel, KernelInv(k), AnswerNothing(k)
    PROVE  KernelInv(k)'
<1>1. /\ Asked(k) /\ down[k] # <<>> /\ Tail(down[k]) = <<>> /\ Head(down[k]).text = <<>> /\ lines[k] = <<>>
      /\ phase[k] = "waiting"
  BY PromptIs DEF AnswerNothing
<1>2. /\ down'[k] = Tail(down[k]) /\ up'[k] = Append(up[k], Frame("line", request[k], <<>>))
      /\ UNCHANGED <<phase, request, prompts, lines, task, output, streaming, lock, flushing, shown, taken, given,
                     interrupted>>
  BY DEF AnswerNothing, Take, Send, WellTyped, kernels, editors, serving, history
<1>3. Cut(k)' /\ Shown(k)'
  BY <1>1, <1>2, NothingTaken
<1>4. Within(k)' /\ Locked(k)' /\ Matches(k)'
  BY <1>2 DEF KernelInv, Within, Locked, Matches
<1>5. up'[k] = <<Frame("line", request[k], <<>>)>>
  BY <1>1, <1>2 DEF Asked
<1>6. Answered(k)' /\ ~Prompting(k)'
  BY <1>1, <1>2, <1>5 DEF Asked, Answered, Prompting
<1>7. Turn(k)'
  BY <1>1, <1>2, <1>6, TurnIs DEF Turn
<1>. QED
  BY <1>3, <1>4, <1>7 DEF KernelInv

\* with the line that was typed at it.
LEMMA AnswerLineKept ==
    ASSUME WellTyped, NEW k \in Kernel, KernelInv(k), AnswerLine(k)
    PROVE  KernelInv(k)'
<1>1. phase[k] = "asking" /\ lines[k] # <<>>
  BY DEF AnswerLine
<1>2. Prompting(k) /\ lines[k] = <<request[k]>>
  <2>1. Prompting(k)
    BY <1>1, TurnIs
  <2>. QED
    BY <1>1, <2>1 DEF KernelInv, Turn
<1>3. /\ phase'[k] = "waiting" /\ lines'[k] = Tail(lines[k])
      /\ up'[k] = Append(up[k], Frame("line", Head(lines[k]), <<>>))
      /\ UNCHANGED <<request, prompts, down, task, output, streaming, lock, flushing, shown, taken, given, interrupted>>
  BY DEF AnswerLine, Send, WellTyped, serving, history
<1>4. Head(lines[k]) = request[k] /\ Tail(lines[k]) = <<>>
  BY <1>2
<1>5. up'[k] = <<Frame("line", request[k], <<>>)>> /\ lines'[k] = <<>>
  BY <1>2, <1>3, <1>4 DEF Prompting
<1>6. Answered(k)' /\ ~Prompting(k)'
  BY <1>2, <1>3, <1>5 DEF Prompting, Answered
<1>7. Turn(k)'
  BY <1>3, <1>5, <1>6, TurnIs DEF Turn
<1>8. Within(k)' /\ Locked(k)' /\ Matches(k)' /\ Shown(k)'
  BY <1>1, <1>3 DEF KernelInv, Within, Locked, Matches, Shown
<1>9. Cut(k)'
  BY <1>1, <1>3 DEF KernelInv, Cut
<1>. QED
  BY <1>7, <1>8, <1>9 DEF KernelInv

\* The editor sends what was typed at the prompt of the request that waits.
LEMMA TypeKept ==
    ASSUME WellTyped, NEW k \in Kernel, KernelInv(k), Type(k), Patient(k)
    PROVE  KernelInv(k)'
<1>1. /\ prompts[k] # 0 /\ lines'[k] = Append(lines[k], prompts[k]) /\ prompts'[k] = 0
      /\ UNCHANGED <<phase, request, up, down, task, output, streaming, lock, flushing, shown, taken, given, interrupted>>
  BY DEF Type, WellTyped, kernels, serving, pipes, history
<1>2. Len(lines'[k]) > Len(lines[k]) /\ lines'[k] # lines[k]
  <2>1. lines[k] \in Seq(Nat) /\ prompts[k] \in Nat
    BY OwnTyped
  <2>2. Len(lines'[k]) = Len(lines[k]) + 1 /\ Len(lines[k]) \in Nat
    BY <1>1, <2>1, AppendProperties, LenProperties
  <2>. QED
    BY <2>2
<1>3. phase[k] = "asking" /\ prompts[k] = request[k] /\ task[k].doing = "asking"
  BY <1>2 DEF Patient
<1>4. Prompting(k)
  BY <1>3, ReadingIs DEF KernelInv, Turn, Idle, Sent, Running, Asked, Answered, Ending, Replied
<1>5. lines[k] = <<>>
  BY <1>1, <1>4 DEF KernelInv, Turn
<1>6. lines'[k] = <<request[k]>>
  BY <1>1, <1>3, <1>5
<1>7. Prompting(k)'
  BY <1>1, <1>4 DEF Prompting
<1>8. Turn(k)'
  BY <1>1, <1>6, <1>7, TurnIs DEF Turn
<1>9. Within(k)' /\ Locked(k)' /\ Matches(k)' /\ Shown(k)'
  BY <1>1, OwnTyped DEF KernelInv, Within, Locked, Matches, Shown
<1>10. Cut(k)'
  BY <1>1 DEF KernelInv, Cut
<1>. QED
  BY <1>8, <1>9, <1>10 DEF KernelInv

\* The reply is the last frame there is.
LEMMA TakeReplyKept ==
    ASSUME WellTyped, NEW k \in Kernel, KernelInv(k), TakeReply(k)
    PROVE  KernelInv(k)'
<1>1. /\ phase[k] # "idle" /\ down[k] # <<>> /\ Head(down[k]).kind = "reply"
      /\ phase'[k] = "idle" /\ down'[k] = Tail(down[k])
      /\ shown'[k] = [shown[k] EXCEPT ![request[k]] = @ \o Head(down[k]).text]
      /\ taken'[k] = [reply |-> Head(down[k]).request, for |-> request[k]]
      /\ UNCHANGED <<request, prompts, lines, up, task, output, streaming, lock, flushing, given, interrupted>>
  BY DEF TakeReply, Arrives, Take, WellTyped, editors, serving
<1>2. down[k] \in Seq(Frames)
  BY OwnTyped
<1>3. Replied(k)
  <2>1. ~Idle(k) /\ ~Sent(k) /\ ~Prompting(k) /\ ~Answered(k)
    BY <1>1 DEF Idle, Sent, Prompting, Answered
  <2>2. ~Running(k) /\ ~Ending(k)
    BY <1>1, <1>2, OutputsLess DEF Running, Ending
  <2>3. ~Asked(k)
    BY <1>1, <1>2, ClosedLess DEF Asked
  <2>. QED
    BY <2>1, <2>2, <2>3 DEF KernelInv, Turn
<1>4. Tail(down[k]) = <<>> /\ Head(down[k]).request = request[k]
  BY <1>1, <1>2, <1>3, ClosedLess DEF Replied
<1>5. Cut(k)' /\ Shown(k)'
  BY <1>1, TakenShown
<1>6. Idle(k)' /\ ~Prompting(k)'
  BY <1>1, <1>3, <1>4 DEF Replied, Idle, Prompting
<1>7. lines'[k] = <<>> /\ (task'[k].doing # "reading" => task'[k].request = request'[k])
  BY <1>1, <1>3, TurnIs, ReadingIs DEF Replied, Prompting
<1>8. Turn(k)'
  BY <1>6, <1>7 DEF Turn
<1>9. Within(k)'
  BY <1>1, OwnTyped DEF KernelInv, Within
<1>10. Locked(k)' /\ Matches(k)'
  BY <1>1, <1>4 DEF KernelInv, Locked, Matches
<1>. QED
  BY <1>5, <1>8, <1>9, <1>10 DEF KernelInv

-----------------------------------------------------------------------------
(* So does the server. *)

\* What a task that reads finds is the request of its kernel.
LEMMA SentIs ==
    ASSUME WellTyped, NEW k \in Kernel, KernelInv(k), task[k].doing = "reading", up[k] # <<>>
    PROVE  /\ Sent(k) /\ Head(up[k]).kind \in {"eval", "call"} /\ Head(up[k]).request = request[k]
           /\ Tail(up[k]) = <<>> /\ lines[k] = <<>> /\ phase[k] = "waiting" /\ down[k] = <<>>
           /\ output[k] = <<>> /\ flushing[k] = <<>>
           /\ Divided(request[k], MaxPrints[k], <<>>, <<>>, <<>>, <<>>, 0)
           /\ shown[k][request[k]] = <<>>
<1>1. Sent(k)
  BY TurnIs DEF Idle, Replied
<1>2. PICK kind \in {"eval", "call"} : up[k] = <<Frame(kind, request[k], <<>>)>>
  BY <1>1 DEF Sent
<1>3. Head(up[k]) = Frame(kind, request[k], <<>>) /\ Tail(up[k]) = <<>>
  BY <1>2
<1>4. Head(up[k]).kind = kind /\ Head(up[k]).request = request[k]
  BY <1>3 DEF Frame
<1>5. ~Prompting(k)
  BY <1>1 DEF Sent, Prompting
<1>6. output[k] = <<>> /\ flushing[k] = <<>>
  BY DEF KernelInv, Locked
<1>7. Divided(request[k], MaxPrints[k], <<>>, <<>>, <<>>, <<>>, 0)
  BY OwnTyped, DividedNone
<1>. QED
  BY <1>1, <1>2, <1>3, <1>4, <1>5, <1>6, <1>7, TurnIs DEF Sent

\* The evaluation of a request begins,
LEMMA EvaluateKept ==
    ASSUME WellTyped, NEW k \in Kernel, KernelInv(k), Evaluate(k)
    PROVE  KernelInv(k)'
<1>1. /\ Sent(k) /\ Head(up[k]).request = request[k]
      /\ Tail(up[k]) = <<>> /\ lines[k] = <<>> /\ phase[k] = "waiting" /\ down[k] = <<>>
      /\ output[k] = <<>> /\ flushing[k] = <<>> /\ task[k].doing = "reading"
      /\ Divided(request[k], MaxPrints[k], <<>>, <<>>, <<>>, <<>>, 0)
      /\ shown[k][request[k]] = <<>>
  BY SentIs DEF Evaluate
<1>2. /\ up'[k] = Tail(up[k])
      /\ task'[k] = [Reading EXCEPT !.doing = "running", !.request = Head(up[k]).request]
      /\ UNCHANGED <<phase, request, prompts, lines, down, output, lock, flushing, shown, taken, given, interrupted>>
  BY DEF Evaluate, WellTyped, kernels, editors, history
<1>3. task'[k].doing = "running" /\ task'[k].request = request[k] /\ task'[k].prints = 0
  BY <1>1, <1>2 DEF Reading
<1>4. Outputs(down'[k])
  BY <1>1, <1>2, EmptySeq DEF Outputs
<1>5. Running(k)' /\ ~Prompting(k)'
  BY <1>1, <1>2, <1>3, <1>4 DEF Running, Prompting
<1>6. Turn(k)'
  BY <1>1, <1>2, <1>3, <1>5 DEF Turn
<1>7. Within(k)' /\ Matches(k)' /\ Shown(k)'
  BY <1>2, <1>3, OwnTyped DEF KernelInv, Within, Matches, Shown
<1>8. Locked(k)'
  BY <1>1, <1>2, <1>3 DEF KernelInv, Locked
<1>9. Cut(k)'
  BY <1>1, <1>2, <1>3, OwnTyped DEF Cut
<1>. QED
  BY <1>6, <1>7, <1>8, <1>9 DEF KernelInv

\* or it is answered at once.
LEMMA CallKept ==
    ASSUME WellTyped, NEW k \in Kernel, KernelInv(k), Call(k)
    PROVE  KernelInv(k)'
<1>1. /\ Sent(k) /\ Head(up[k]).request = request[k]
      /\ Tail(up[k]) = <<>> /\ lines[k] = <<>> /\ phase[k] = "waiting" /\ down[k] = <<>>
      /\ output[k] = <<>> /\ flushing[k] = <<>> /\ task[k] = Reading /\ task[k].doing = "reading"
      /\ Divided(request[k], MaxPrints[k], <<>>, <<>>, <<>>, <<>>, 0)
      /\ shown[k][request[k]] = <<>>
  BY SentIs DEF Call, Sent
<1>2. /\ up'[k] = Tail(up[k]) /\ down'[k] = Append(down[k], Frame("reply", Head(up[k]).request, <<>>))
      /\ UNCHANGED <<phase, request, prompts, lines, task, output, streaming, lock, flushing, shown, taken, given,
                     interrupted>>
  BY DEF Call, WellTyped, kernels, editors, serving, history
<1>. DEFINE reply == Frame("reply", request[k], <<>>)
<1>3. reply \in Frames /\ reply.kind = "reply" /\ reply.request = request[k] /\ reply.text = <<>>
  <2>1. request[k] \in Nat
    BY OwnTyped
  <2>2. <<>> \in Seq(Printed)
    BY EmptySeq
  <2>3. reply \in Frames
    BY <2>1, <2>2, FrameIs
  <2>4. reply.kind = "reply" /\ reply.request = request[k] /\ reply.text = <<>>
    BY DEF Frame
  <2>. QED
    BY <2>3, <2>4
<1>4. down'[k] = Append(<<>>, reply)
  BY <1>1, <1>2
<1>. HIDE DEF reply
<1>e. <<>> \in Seq(Frames) /\ Outputs(<<>>)
  BY EmptySeq DEF Outputs
<1>5. Closed(down'[k], "reply", request[k])
  BY <1>3, <1>4, <1>e, ClosedWith
<1>6. Replied(k)' /\ ~Prompting(k)'
  BY <1>1, <1>2, <1>5, ReadingIs DEF Replied, Prompting
<1>7. Turn(k)'
  BY <1>1, <1>2, <1>6 DEF Turn
<1>8. Within(k)' /\ Locked(k)' /\ Matches(k)' /\ Shown(k)'
  BY <1>2 DEF KernelInv, Within, Locked, Matches, Shown
<1>9. Divided(request[k], MaxPrints[k], <<>>, Append(<<>>, reply), <<>>, <<>>, 0)
  <2>1. request[k] \in Nat /\ MaxPrints[k] \in Nat /\ 0 \in 0..MaxPrints[k]
    BY OwnTyped
  <2>. QED
    BY <1>1, <1>3, <1>e, <2>1, DividedSend
<1>10. Cut(k)'
  BY <1>1, <1>2, <1>4, <1>9, OwnTyped DEF Cut
<1>. QED
  BY <1>7, <1>8, <1>10 DEF KernelInv

\* A line is never read where code is.
LEMMA NeverTyped ==
    ASSUME WellTyped, NEW k \in Kernel, KernelInv(k)
    PROVE  ~Typed(k)
BY SentIs DEF Typed

\* A line is printed, and kept.
LEMMA PrintOutKept ==
    ASSUME WellTyped, NEW k \in Kernel, KernelInv(k), PrintOut(k)
    PROVE  KernelInv(k)'
<1>1. Running(k) /\ lines[k] = <<>> /\ task[k].request = request[k] /\ task[k].doing = "running"
  BY TurnIs DEF PrintOut, Running, Prompting
<1>2. /\ task[k].prints < MaxPrints[k]
      /\ task'[k] = [task[k] EXCEPT !.prints = @ + 1]
      /\ output'[k] = Append(output[k], <<task[k].request, task'[k].prints>>)
      /\ UNCHANGED <<phase, request, prompts, lines, up, down, streaming, lock, flushing, shown, taken, given,
                     interrupted>>
  BY DEF PrintOut, WellTyped, kernels, editors, pipes, history
<1>3. /\ task'[k].doing = "running" /\ task'[k].request = request[k]
      /\ task'[k].prints = task[k].prints + 1 /\ task'[k].prints \in 0..MaxPrints[k]
  BY <1>1, <1>2, OwnTyped DEF Tasks
<1>4. Running(k)' /\ ~Prompting(k)'
  BY <1>1, <1>2, <1>3 DEF Running, Prompting
<1>5. Turn(k)'
  BY <1>1, <1>2, <1>3, <1>4 DEF Turn
<1>6. Within(k)' /\ Matches(k)' /\ Shown(k)'
  BY <1>2, <1>3 DEF KernelInv, Within, Matches, Shown
<1>7. Locked(k)'
  BY <1>1, <1>2, <1>3 DEF KernelInv, Locked
<1>8. Divided(request[k], MaxPrints[k], shown[k][request[k]], down[k], flushing[k], output[k], task[k].prints)
      /\ task[k].prints \in 0..MaxPrints[k]
  BY <1>1 DEF KernelInv, Cut, Running
<1>9. Divided(request[k], MaxPrints[k], shown[k][request[k]], down[k], flushing[k],
              Append(output[k], <<request[k], task[k].prints + 1>>), task[k].prints + 1)
  BY <1>2, <1>8, OwnTyped, DividedPrint
<1>10. Cut(k)'
  BY <1>1, <1>2, <1>3, <1>9 DEF Cut
<1>. QED
  BY <1>5, <1>6, <1>7, <1>10 DEF KernelInv

\* The flusher takes what was kept,
LEMMA FlushKept ==
    ASSUME WellTyped, NEW k \in Kernel, KernelInv(k), Flush(k)
    PROVE  KernelInv(k)'
<1>1. /\ lock[k] = "nobody" /\ streaming[k] /\ output[k] # <<>>
      /\ lock'[k] = "flusher" /\ flushing'[k] = output[k] /\ output'[k] = <<>>
      /\ UNCHANGED <<phase, request, prompts, lines, up, down, task, streaming, shown, taken, given, interrupted>>
  BY DEF Flush, WellTyped, kernels, editors, pipes, history
<1>2. flushing[k] = <<>> /\ task[k].doing # "reading" /\ task[k].doing # "asking"
  BY <1>1 DEF KernelInv, Locked
<1>3. Turn(k)'
  BY <1>1 DEF KernelInv, Turn, Idle, Sent, Running, Asked, Prompting, Answered, Ending, Replied
<1>4. Within(k)' /\ Matches(k)' /\ Shown(k)'
  BY <1>1 DEF KernelInv, Within, Matches, Shown
<1>5. Locked(k)'
  BY <1>1, <1>2 DEF Locked
<1>6. phase[k] # "idle"
  BY <1>2, TurnIs, ReadingIs DEF Idle
<1>7. PICK n \in 0..MaxPrints[k] :
        /\ Divided(request[k], MaxPrints[k], shown[k][request[k]], down[k], flushing[k], output[k], n)
        /\ task[k].doing # "reading" => n = task[k].prints
  BY <1>6 DEF KernelInv, Cut
<1>8. Divided(request[k], MaxPrints[k], shown[k][request[k]], down[k], output[k], <<>>, n)
  BY <1>2, <1>7, OwnTyped, DividedWrite
<1>9. Cut(k)'
  BY <1>1, <1>7, <1>8 DEF Cut
<1>. QED
  BY <1>3, <1>4, <1>5, <1>9 DEF KernelInv

\* and writes it, ahead of what comes later.
LEMMA FlushedKept ==
    ASSUME WellTyped, NEW k \in Kernel, KernelInv(k), Flushed(k)
    PROVE  KernelInv(k)'
<1>. DEFINE frame == Frame("output", 0, flushing[k])
<1>1. /\ flushing[k] # <<>> /\ down'[k] = Append(down[k], frame) /\ flushing'[k] = <<>> /\ lock'[k] = "nobody"
      /\ UNCHANGED <<phase, request, prompts, lines, up, output, task, streaming, shown, taken, given, interrupted>>
  BY DEF Flushed, WellTyped, kernels, editors, history
<1>2. frame \in Frames /\ frame.kind = "output" /\ frame.text = flushing[k]
  <2>1. flushing[k] \in Seq(Printed) /\ 0 \in Nat
    BY OwnTyped
  <2>2. PICK text \in Seq(Printed) : text = flushing[k]
    BY <2>1
  <2>3. /\ Frame("output", 0, text) \in Frames
        /\ Frame("output", 0, text).kind = "output" /\ Frame("output", 0, text).text = text
    BY <2>1, FrameIs
  <2>. QED
    BY <2>2, <2>3
<1>. HIDE DEF frame
<1>3. task[k].doing \in {"running", "ending"} /\ down[k] \in Seq(Frames)
  BY <1>1, OwnTyped DEF KernelInv, Locked
<1>4. Running(k)' \/ Ending(k)'
  <2>1. CASE task[k].doing = "running"
    BY <1>1, <1>2, <1>3, <2>1, TurnIs, OutputsMore DEF Running
  <2>2. CASE task[k].doing = "ending"
    BY <1>1, <1>2, <1>3, <2>2, TurnIs, OutputsMore DEF Ending
  <2>. QED
    BY <1>3, <2>1, <2>2
<1>5. ~Prompting(k) /\ ~Prompting(k)'
  BY <1>1, <1>3 DEF Prompting
<1>6. Turn(k)'
  BY <1>1, <1>3, <1>4, <1>5, TurnIs DEF Turn
<1>7. Within(k)' /\ Matches(k)' /\ Shown(k)'
  BY <1>1 DEF KernelInv, Within, Matches, Shown
<1>8. Locked(k)'
  BY <1>1, <1>3 DEF KernelInv, Locked
<1>9. phase[k] # "idle"
  BY <1>3, TurnIs, ReadingIs DEF Idle
<1>10. PICK n \in 0..MaxPrints[k] :
        /\ Divided(request[k], MaxPrints[k], shown[k][request[k]], down[k], flushing[k], output[k], n)
        /\ task[k].doing # "reading" => n = task[k].prints
  BY <1>9 DEF KernelInv, Cut
<1>11. Divided(request[k], MaxPrints[k], shown[k][request[k]], Append(down[k], frame), <<>>, output[k], n)
  BY <1>2, <1>3, <1>10, OwnTyped, DividedSend
<1>12. Cut(k)'
  BY <1>1, <1>10, <1>11 DEF Cut
<1>. QED
  BY <1>6, <1>7, <1>8, <1>12 DEF KernelInv

\* What was printed goes ahead of a prompt,
LEMMA AskKept ==
    ASSUME WellTyped, NEW k \in Kernel, KernelInv(k), Ask(k)
    PROVE  KernelInv(k)'
<1>. DEFINE kept == Frame("output", 0, output[k])  prompt == Frame("prompt", request[k], <<>>)
            frames == down[k] \o Pending(k)
<1>1. Running(k) /\ lines[k] = <<>> /\ task[k].request = request[k] /\ task[k].doing = "running"
      /\ phase[k] = "waiting" /\ up[k] = <<>> /\ Outputs(down[k]) /\ down[k] \in Seq(Frames)
  BY TurnIs, OwnTyped DEF Ask, Running, Prompting
<1>2. /\ lock[k] = "nobody" /\ lock'[k] = "prompt" /\ output'[k] = <<>>
      /\ down'[k] = down[k] \o Pending(k) \o <<prompt>>
      /\ task'[k] = [task[k] EXCEPT !.doing = "asking", !.asks = @ + 1]
      /\ UNCHANGED <<phase, request, prompts, lines, up, streaming, flushing, shown, taken, given, interrupted>>
  BY <1>1 DEF Ask, WellTyped, kernels, editors, history
<1>3. task'[k].doing = "asking" /\ task'[k].request = request[k] /\ task'[k].prints = task[k].prints
  BY <1>1, <1>2, OwnTyped DEF Tasks
<1>4. /\ kept \in Frames /\ kept.kind = "output" /\ kept.text = output[k]
      /\ prompt \in Frames /\ prompt.kind = "prompt" /\ prompt.request = request[k] /\ prompt.text = <<>>
  <2>1. request[k] \in Nat /\ output[k] \in Seq(Printed) /\ 0 \in Nat
    BY OwnTyped
  <2>2. <<>> \in Seq(Printed)
    BY EmptySeq
  <2>3. kept \in Frames /\ kept.kind = "output" /\ kept.text = output[k]
    BY <2>1, FrameIs
  <2>4. prompt \in Frames
    BY <2>1, <2>2, FrameIs
  <2>5. prompt.kind = "prompt" /\ prompt.request = request[k] /\ prompt.text = <<>>
    BY DEF Frame
  <2>. QED
    BY <2>3, <2>4, <2>5
<1>. HIDE DEF kept, prompt
<1>5. flushing[k] = <<>>
  BY <1>2 DEF KernelInv, Locked
<1>6. Divided(request[k], MaxPrints[k], shown[k][request[k]], down[k], <<>>, output[k], task[k].prints)
      /\ task[k].prints \in 0..MaxPrints[k] /\ request[k] \in Nat /\ MaxPrints[k] \in Nat
  BY <1>1, <1>5, OwnTyped DEF KernelInv, Cut
<1>7. /\ frames \in Seq(Frames) /\ Outputs(frames)
      /\ Divided(request[k], MaxPrints[k], shown[k][request[k]], frames, <<>>, <<>>, task[k].prints)
  <2>1. CASE output[k] = <<>>
    <3>1. frames = down[k]
      BY <1>1, <2>1, ConcatEmptySeq DEF Pending
    <3>. QED
      BY <1>1, <1>6, <2>1, <3>1
  <2>2. CASE output[k] # <<>>
    <3>1. frames = Append(down[k], kept)
      BY <1>1, <1>4, <2>2, AppendIsConcat DEF Pending, kept
    <3>2. Append(down[k], kept) \in Seq(Frames) /\ Outputs(Append(down[k], kept))
      BY <1>1, <1>4, AppendProperties, OutputsMore
    <3>3. Divided(request[k], MaxPrints[k], shown[k][request[k]], down[k], output[k], <<>>, task[k].prints)
      BY <1>6, DividedWrite
    <3>4. Divided(request[k], MaxPrints[k], shown[k][request[k]], Append(down[k], kept), <<>>, <<>>, task[k].prints)
      BY <1>1, <1>4, <1>6, <3>3, DividedSend
    <3>. QED
      BY <3>1, <3>2, <3>4
  <2>. QED
    BY <2>1, <2>2
<1>. HIDE DEF frames
<1>8. down'[k] = Append(frames, prompt)
  <2>1. down'[k] = frames \o <<prompt>>
    BY <1>2 DEF frames
  <2>. QED
    BY <1>4, <1>7, <2>1, AppendIsConcat
<1>9. Closed(down'[k], "prompt", request[k]) /\ down'[k][Len(down'[k])].text = <<>>
  BY <1>4, <1>7, <1>8, ClosedWith
<1>10. Asked(k)' /\ ~Prompting(k)'
  BY <1>1, <1>2, <1>3, <1>9 DEF Asked, Prompting
<1>11. Turn(k)'
  BY <1>1, <1>2, <1>3, <1>10 DEF Turn
<1>12. Within(k)' /\ Matches(k)' /\ Shown(k)'
  BY <1>2, <1>3 DEF KernelInv, Within, Matches, Shown
<1>13. Locked(k)'
  BY <1>1, <1>2, <1>3, <1>5 DEF Locked
<1>14. Divided(request[k], MaxPrints[k], shown[k][request[k]], down'[k], <<>>, <<>>, task[k].prints)
  BY <1>4, <1>6, <1>7, <1>8, DividedSend
<1>15. Cut(k)'
  BY <1>2, <1>3, <1>5, <1>6, <1>14 DEF Cut
<1>. QED
  BY <1>11, <1>12, <1>13, <1>15 DEF KernelInv

\* which goes to the kernel whose evaluation asks.
LEMMA NeverNobody ==
    ASSUME WellTyped, NEW k \in Kernel, AskNobody(k), Undisturbed(k)
    PROVE  FALSE
<1>1. task'[k].asks = task[k].asks + 1 /\ task[k].asks \in Nat
  BY DEF AskNobody, WellTyped, Tasks
<1>2. input = k
  BY <1>1 DEF Undisturbed
<1>. QED
  BY <1>2, ReplAssumption DEF AskNobody, ReplAssumption

\* The frame that getline gets is the line for its prompt.
LEMMA GetLineKept ==
    ASSUME WellTyped, NEW k \in Kernel, KernelInv(k), GetLine(k)
    PROVE  KernelInv(k)'
<1>1. Answered(k) /\ lines[k] = <<>> /\ task[k].request = request[k] /\ task[k].doing = "asking"
  BY TurnIs DEF GetLine, Asked, Prompting, Answered
<1>2. /\ up'[k] = Tail(up[k]) /\ given'[k] = [prompt |-> Head(up[k]).request, to |-> task[k].request]
      /\ task'[k] = [task[k] EXCEPT !.doing = "running"] /\ lock'[k] = "nobody"
      /\ UNCHANGED <<phase, request, prompts, lines, down, output, streaming, flushing, shown, taken, interrupted>>
  BY DEF GetLine, WellTyped, kernels, editors
<1>3. task'[k].doing = "running" /\ task'[k].request = request[k] /\ task'[k].prints = task[k].prints
  BY <1>1, <1>2, OwnTyped DEF Tasks
<1>4. Tail(up[k]) = <<>> /\ Head(up[k]).request = request[k]
  BY <1>1 DEF Answered, Frame
<1>5. Outputs(down'[k]) /\ phase[k] = "waiting"
  BY <1>1, <1>2, EmptySeq DEF Answered, Outputs
<1>6. Running(k)' /\ ~Prompting(k)'
  BY <1>2, <1>3, <1>4, <1>5 DEF Running, Prompting
<1>7. Turn(k)'
  BY <1>1, <1>2, <1>3, <1>6 DEF Turn
<1>8. Within(k)' /\ Matches(k)' /\ Shown(k)'
  BY <1>1, <1>2, <1>3, <1>4 DEF KernelInv, Within, Matches, Shown
<1>9. Locked(k)'
  BY <1>1, <1>2, <1>3 DEF KernelInv, Locked
<1>10. Cut(k)'
  BY <1>1, <1>2, <1>3, <1>5 DEF KernelInv, Cut
<1>. QED
  BY <1>7, <1>8, <1>9, <1>10 DEF KernelInv

\* An evaluation is over, by itself or interrupted, but not while its line is on
\* its way or its prompt is.
LEMMA OverKept ==
    ASSUME WellTyped, NEW k \in Kernel, KernelInv(k), Leaves(k),
           Running(k) \/ (Prompting(k) /\ lines[k] = <<>>),
           interrupted'[k] \in 0..MaxRequests[k],
           UNCHANGED <<phase, request, prompts, lines, up, down, output, streaming, flushing, shown, taken, given>>
    PROVE  KernelInv(k)'
<1>1. /\ task'[k] = [task[k] EXCEPT !.doing = "ending"]
      /\ lock'[k] = IF lock[k] = "prompt" THEN "nobody" ELSE lock[k]
  <2>1. /\ task' = [task EXCEPT ![k].doing = "ending"]
        /\ lock'[k] = IF lock[k] = "prompt" THEN "nobody" ELSE lock[k]
    BY LeavesTyped
  <2>2. task \in [Kernel -> Tasks]
    BY DEF WellTyped
  <2>. QED
    BY <2>1, <2>2
<1>2. task'[k].doing = "ending" /\ task'[k].request = task[k].request /\ task'[k].prints = task[k].prints
  BY <1>1, OwnTyped DEF Tasks
<1>3. task[k].doing # "reading" /\ phase[k] # "idle" /\ task[k].request = request[k] /\ lines[k] = <<>>
  BY TurnIs DEF Running, Prompting
<1>4. Ending(k)' /\ ~Prompting(k)'
  BY <1>2, EmptySeq DEF Running, Prompting, Ending, Outputs
<1>5. Turn(k)'
  BY <1>2, <1>3, <1>4 DEF Turn
<1>6. Within(k)' /\ Matches(k)' /\ Shown(k)'
  BY <1>2 DEF KernelInv, Within, Matches, Shown
<1>7. Locked(k)'
  <2>1. lock[k] = "prompt" => flushing[k] = <<>>
    BY DEF KernelInv, Locked
  <2>. QED
    BY <1>1, <1>2, <2>1 DEF KernelInv, Locked
<1>8. Cut(k)'
  BY <1>2, <1>3 DEF KernelInv, Cut
<1>. QED
  BY <1>5, <1>6, <1>7, <1>8 DEF KernelInv

LEMMA EndKept ==
    ASSUME WellTyped, NEW k \in Kernel, KernelInv(k), End(k)
    PROVE  KernelInv(k)'
<1>1. Running(k)
  BY TurnIs DEF End
<1>2. UNCHANGED <<phase, request, prompts, lines, up, down, output, streaming, flushing, shown, taken, given,
                  interrupted>> /\ Leaves(k)
  BY DEF End, kernels, editors, pipes, history
<1>3. interrupted'[k] \in 0..MaxRequests[k]
  BY <1>2 DEF KernelInv, Within
<1>. QED
  BY <1>1, <1>2, <1>3, OverKept

\* Whoever is interrupted, an evaluation that is cancelled was running or waited
\* for a line that was not sent yet.
LEMMA InterruptKept ==
    ASSUME WellTyped, Slots, Calm, NEW k \in Kernel, Interrupt(k), NEW j \in Kernel, KernelInv(j)
    PROVE  KernelInv(j)'
<1>1. interrupted' = [interrupted EXCEPT ![k] = request[k]] /\ interrupted \in [Kernel -> Nat]
  BY InterruptIs DEF WellTyped
<1>2. UNCHANGED <<phase, request, prompts, lines, up, down, output, streaming, flushing, shown, taken, given>>
  BY InterruptIs
<1>3. interrupted'[j] \in 0..MaxRequests[j]
  BY <1>1 DEF KernelInv, Within
<1>4. CASE task'[j] = task[j] /\ lock'[j] = lock[j]
  <2>1. Turn(j)'
    BY <1>2, <1>4 DEF KernelInv, Turn, Idle, Sent, Running, Asked, Prompting, Answered, Ending, Replied
  <2>2. Within(j)' /\ Matches(j)' /\ Shown(j)' /\ Locked(j)'
    BY <1>2, <1>3, <1>4 DEF KernelInv, Within, Matches, Shown, Locked
  <2>3. Cut(j)'
    BY <1>2, <1>4 DEF KernelInv, Cut
  <2>. QED
    BY <2>1, <2>2, <2>3 DEF KernelInv
<1>5. CASE evaluating = j /\ Leaves(j)
  <2>1. Evaluates(j) /\ Patient(j)
    BY <1>5, ReplAssumption DEF Slots, Calm, ReplAssumption
  <2>2. task'[j].doing = "ending"
    BY <1>5, OwnTyped DEF Leaves, Tasks, WellTyped
  <2>3. task[j].doing = "asking" => phase[j] = "asking" /\ lines[j] = <<>>
    BY <2>1, <2>2 DEF Patient
  <2>4. Running(j) \/ Prompting(j)
    BY <2>1, <2>3, TurnIs DEF Evaluates, Asked, Answered
  <2>5. Prompting(j) => lines[j] = <<>>
    BY <2>3 DEF Prompting
  <2>. QED
    BY <1>2, <1>3, <1>5, <2>4, <2>5, OverKept
<1>6. ASSUME evaluating \in Kernel, Leaves(evaluating), evaluating # j
      PROVE  task'[j] = task[j] /\ lock'[j] = lock[j]
  BY <1>6 DEF Leaves, WellTyped
<1>. QED
  BY <1>4, <1>5, <1>6, InterruptIs

\* What is left goes with the reply.
LEMMA ReplyKept ==
    ASSUME WellTyped, NEW k \in Kernel, KernelInv(k), Reply(k)
    PROVE  KernelInv(k)'
<1>. DEFINE reply == Frame("reply", request[k], output[k])
<1>1. Ending(k) /\ lines[k] = <<>> /\ task[k].request = request[k] /\ task[k].doing = "ending"
      /\ down[k] \in Seq(Frames) /\ Outputs(down[k]) /\ phase[k] # "idle"
  BY TurnIs, OwnTyped DEF Reply, Ending, Prompting
<1>2. /\ lock[k] = "nobody" /\ streaming'[k] = FALSE /\ down'[k] = Append(down[k], reply) /\ output'[k] = <<>>
      /\ task'[k] = Reading
      /\ UNCHANGED <<phase, request, prompts, lines, up, lock, flushing, shown, taken, given, interrupted>>
  BY <1>1 DEF Reply, WellTyped, kernels, editors, history
<1>3. reply \in Frames /\ reply.kind = "reply" /\ reply.request = request[k] /\ reply.text = output[k]
  <2>1. request[k] \in Nat /\ output[k] \in Seq(Printed)
    BY OwnTyped
  <2>. QED
    BY <2>1, FrameIs
<1>. HIDE DEF reply
<1>4. Closed(down'[k], "reply", request[k])
  BY <1>1, <1>2, <1>3, ClosedWith
<1>5. flushing[k] = <<>>
  BY <1>2 DEF KernelInv, Locked
<1>6. Replied(k)' /\ ~Prompting(k)'
  BY <1>1, <1>2, <1>4, ReadingIs DEF Ending, Replied, Prompting
<1>7. Turn(k)'
  BY <1>1, <1>2, <1>6, ReadingIs DEF Turn
<1>8. Within(k)' /\ Matches(k)' /\ Shown(k)'
  BY <1>2, ReadingIs, OwnTyped DEF KernelInv, Within, Matches, Shown
<1>9. Locked(k)'
  BY <1>2, <1>5, ReadingIs DEF Locked
<1>10. PICK n \in 0..MaxPrints[k] :
        Divided(request[k], MaxPrints[k], shown[k][request[k]], down[k], flushing[k], output[k], n)
  BY <1>1 DEF KernelInv, Cut
<1>11. Divided(request[k], MaxPrints[k], shown[k][request[k]], down[k], output[k], <<>>, n)
  BY <1>5, <1>10, OwnTyped, DividedWrite
<1>12. Divided(request[k], MaxPrints[k], shown[k][request[k]], Append(down[k], reply), <<>>, <<>>, n)
  BY <1>1, <1>3, <1>11, OwnTyped, DividedSend
<1>13. Cut(k)'
  BY <1>2, <1>5, <1>12, ReadingIs DEF Cut
<1>. QED
  BY <1>7, <1>8, <1>9, <1>13 DEF KernelInv

-----------------------------------------------------------------------------
(* The theorems. *)

LEMMA InitRepl == Init => ReplInv
<1>. SUFFICES ASSUME Init PROVE ReplInv
  OBVIOUS
<1>1. WellTyped
  BY InitTyped
<1>2. Slots
  BY DEF Init, Slots
<1>3. LooksUpOnce
  BY DEF Init, LooksUpOnce, NoLookup
<1>4. ASSUME NEW k \in Kernel PROVE KernelInv(k)
  <2>1. Idle(k) /\ ~Prompting(k) /\ lines[k] = <<>>
    BY DEF Init, Idle, Prompting
  <2>2. Turn(k)
    BY <2>1, ReadingIs DEF Init, Turn
  <2>3. Within(k)
    BY ReadingIs, ReplAssumption DEF Init, Within, ReplAssumption
  <2>4. Locked(k) /\ Matches(k) /\ Cut(k)
    BY ReadingIs DEF Init, Locked, Matches, Cut
  <2>5. Shown(k)
    <3>1. ASSUME NEW r \in Requests(k) PROVE 0 \in 0..MaxPrints[k] /\ Run(r, 0, 0) = <<>>
      BY ReplAssumption, RunIs DEF ReplAssumption, Requests
    <3>. QED
      BY <3>1 DEF Init, Shown
  <2>. QED
    BY <2>2, <2>3, <2>4, <2>5 DEF KernelInv
<1>. QED
  BY <1>1, <1>2, <1>3, <1>4 DEF ReplInv

LEMMA StepRepl == ReplInv /\ [Next /\ Calm]_vars => ReplInv'
<1>. SUFFICES ASSUME ReplInv, [Next /\ Calm]_vars PROVE ReplInv'
  OBVIOUS
<1>1. WellTyped' /\ Slots' /\ LooksUpOnce' /\ WellTyped /\ Slots
  BY StepTyped, SlotsKept, LookupsKept DEF ReplInv
<1>2. ASSUME NEW k \in Kernel, Patient(k), Undisturbed(k),
             Kernels(k) \/ Type(k) \/ Serves(k)
      PROVE  KernelInv(k)'
  <2>1. KernelInv(k)
    BY DEF ReplInv
  <2>2. CASE Kernels(k)
    BY <1>1, <2>1, <2>2, BeginKept, TakeOutputKept, TakePromptKept, AnswerNothingKept, AnswerLineKept,
       TakeReplyKept DEF Kernels
  <2>3. CASE Type(k)
    BY <1>1, <1>2, <2>1, <2>3, TypeKept
  <2>4. CASE Serves(k)
    BY <1>1, <1>2, <2>1, <2>4, EvaluateKept, CallKept, NeverTyped, PrintOutKept, FlushKept, FlushedKept,
       AskKept, NeverNobody, GetLineKept, EndKept, ReplyKept DEF Serves
  <2>. QED
    BY <1>2, <2>2, <2>3, <2>4
<1>3. ASSUME NEW j \in Kernel PROVE KernelInv(j)'
  <2>1. KernelInv(j)
    BY DEF ReplInv
  <2>2. CASE LooksUp \/ UNCHANGED vars
    <3>1. Own(j)' = Own(j)
      BY <2>2 DEF LooksUp, LookUp, AnswerLookUp, TakeLookUp, TimeOut, vars, kernels, editors, serving, pipes,
                  history, Own
    <3>. QED
      BY <2>1, <3>1, KernelStays
  <2>3. ASSUME NEW k \in Kernel, Kernels(k) \/ Type(k) \/ Serves(k), Calm
        PROVE  KernelInv(j)'
    <3>1. Patient(k) /\ Undisturbed(k) /\ KernelInv(k)
      BY <2>3 DEF Calm, ReplInv
    <3>2. CASE j = k
      BY <1>2, <2>3, <3>1, <3>2
    <3>3. CASE j # k
      <4>1. Own(j)' = Own(j)
        BY <1>1, <2>3, <3>1, <3>3, OthersStay
      <4>. QED
        BY <2>1, <4>1, KernelStays
    <3>. QED
      BY <3>2, <3>3
  <2>4. ASSUME NEW k \in Kernel, Interrupt(k), Calm PROVE KernelInv(j)'
    BY <1>1, <2>1, <2>4, InterruptKept
  <2>. QED
    BY <2>2, <2>3, <2>4 DEF Next
<1>. QED
  BY <1>1, <1>3 DEF ReplInv

\* The inductive invariant: for every kernel, whose turn it is and where the output
\* of its request is; that no kernel touches another's evaluation; and the lookups.
THEOREM ReplCorrect == Init /\ [][Next /\ Calm]_vars => []ReplInv
<1>. QED
  BY InitRepl, StepRepl, PTL

\* While nobody is disturbed the connections keep their types: who waits for a line
\* holds the lock, nothing is written by two at once, and at most one frame is on
\* its way to the server.
THEOREM ReplTyped == Init /\ [][Next /\ Calm]_vars => []TypeOK
<1>1. ASSUME ReplInv PROVE TypeOK
  <2>1. ASSUME NEW k \in Kernel
        PROVE  /\ {request[k], prompts[k], interrupted[k]} \subseteq 0..MaxRequests[k]
               /\ lines[k] \in Seq(Requests(k))
               /\ output[k] \in Prints(k) /\ flushing[k] \in Prints(k)
               /\ task[k].doing \in {"reading", "running", "asking", "ending"}
               /\ lock[k] = "flusher" <=> flushing[k] # <<>>
               /\ lock[k] = "prompt" <=> task[k].doing = "asking"
               /\ task[k].doing = "reading" => output[k] = <<>> /\ ~streaming[k]
               /\ Len(up[k]) <= 1
    <3>0. KernelInv(k) /\ WellTyped
      BY <1>1 DEF ReplInv
    <3>1. {request[k], prompts[k], interrupted[k]} \subseteq 0..MaxRequests[k]
      BY <3>0 DEF KernelInv, Within
    <3>2. lines[k] = <<>> \/ (lines[k] = <<request[k]>> /\ request[k] # 0)
      BY <3>0 DEF KernelInv, Turn, Prompting, Within
    <3>3. lines[k] \in Seq(Requests(k))
      <4>1. CASE lines[k] = <<>>
        BY <4>1, EmptySeq
      <4>2. CASE lines[k] = <<request[k]>> /\ request[k] # 0
        <5>1. request[k] \in Requests(k)
          BY <3>0, <3>1, <4>2, OwnTyped DEF Requests
        <5>. QED
          BY <4>2, <5>1
      <4>. QED
        BY <3>2, <4>1, <4>2
    <3>4. up[k] = <<>> \/ \E frame : up[k] = <<frame>>
      BY <3>0 DEF KernelInv, Turn, Idle, Sent, Running, Asked, Prompting, Answered, Ending, Replied
    <3>5. Len(up[k]) <= 1
      <4>1. CASE up[k] = <<>>
        <5>1. Len(up[k]) = 0
          BY <4>1, EmptySeq
        <5>. QED
          BY <5>1
      <4>2. ASSUME NEW frame, up[k] = <<frame>> PROVE Len(up[k]) <= 1
        <5>1. Len(up[k]) = 1
          BY <4>2
        <5>. QED
          BY <5>1
      <4>. QED
        BY <3>4, <4>1, <4>2
    <3>6. output[k] \in Prints(k) /\ flushing[k] \in Prints(k)
      <4>1. CASE phase[k] = "idle"
        <5>1. output[k] = <<>> /\ flushing[k] = <<>>
          BY <3>0, <4>1, TurnIs, ReadingIs DEF Idle, KernelInv, Locked
        <5>. QED
          BY <5>1, EmptySeq DEF Prints
      <4>2. CASE phase[k] # "idle"
        <5>1. PICK n \in 0..MaxPrints[k] :
                Divided(request[k], MaxPrints[k], shown[k][request[k]], down[k], flushing[k], output[k], n)
          BY <3>0, <4>2 DEF KernelInv, Cut
        <5>2. PICK b, m \in 0..MaxPrints[k] :
                b <= m /\ m <= n /\ flushing[k] = Run(request[k], b, m) /\ output[k] = Run(request[k], m, n)
          BY <5>1 DEF Divided
        <5>3. request[k] \in Requests(k) /\ MaxPrints[k] \in Nat
          BY <3>0, <3>1, <4>2, OwnTyped DEF Requests, KernelInv, Within
        <5>4. Requests(k) \subseteq Nat
          BY DEF Requests
        <5>5. /\ Run(request[k], b, m) \in Seq(Requests(k) \X (1..MaxPrints[k]))
              /\ Run(request[k], m, n) \in Seq(Requests(k) \X (1..MaxPrints[k]))
          BY <5>2, <5>3, <5>4, RunWithin
        <5>. QED
          BY <5>2, <5>5 DEF Prints
      <4>. QED
        BY <4>1, <4>2
    <3>. QED
      BY <3>0, <3>1, <3>3, <3>5, <3>6, OwnTyped DEF KernelInv, Locked
  <2>2. /\ phase \in [Kernel -> {"idle", "waiting", "asking"}]
        /\ evaluating \in Kernel \cup {None} /\ input \in Kernel \cup {None}
    BY <1>1 DEF ReplInv, WellTyped
  <2>. QED
    BY <2>1, <2>2 DEF TypeOK
<1>. QED
  BY <1>1, ReplCorrect, PTL

\* While nobody is disturbed, a reply is taken for the request it is to, a line goes
\* to the evaluation at whose prompt it was typed, and a lookup gets its own answer,
\* although a frame says none of this, prompts and requests are interrupted, and
\* lookups time out.
THEOREM AnswersRight == Init /\ [][Next /\ Calm]_vars => []RightAnswers
<1>1. ReplInv => RightAnswers
  <2>1. ASSUME ReplInv PROVE RightAnswers
    BY <2>1 DEF ReplInv, KernelInv, Matches, LooksUpOnce, RightAnswers, RepliesMatch, LinesMatch, LookupsMatch
  <2>. QED
    BY <2>1
<1>. QED
  BY <1>1, ReplCorrect, PTL

\* While nobody is disturbed, all that an evaluation prints is shown under its own
\* request, in its order, however it is cut between the flusher, prompts and the reply.
THEOREM OutputOrdered == Init /\ [][Next /\ Calm]_vars => []OutputInOrder
<1>1. ASSUME ReplInv PROVE OutputInOrder
  <2>1. ASSUME NEW k \in Kernel, NEW r \in Requests(k)
        PROVE  /\ shown[k][r] = [i \in DOMAIN shown[k][r] |-> <<r, i>>]
               /\ task[k].request = r => Len(shown[k][r]) <= task[k].prints
               /\ phase[k] = "idle" => output[k] = <<>> /\ flushing[k] = <<>>
    <3>0. KernelInv(k) /\ WellTyped
      BY <1>1 DEF ReplInv
    <3>n. r \in Nat \ {0} /\ MaxPrints[k] \in Nat
      BY <3>0, OwnTyped DEF Requests
    <3>1. PICK a \in 0..MaxPrints[k] : shown[k][r] = Run(r, 0, a)
      BY <3>0 DEF KernelInv, Shown
    <3>2. shown[k][r] = [i \in DOMAIN shown[k][r] |-> <<r, i>>]
      <4>1. Run(r, 0, a) = [i \in 1..a |-> <<r, i>>]
        BY <3>n DEF Run, Line
      <4>. QED
        BY <3>1, <4>1
    <3>3. ASSUME task[k].request = r PROVE Len(shown[k][r]) <= task[k].prints
      <4>1. task[k].doing # "reading" /\ request[k] = r /\ phase[k] # "idle"
        BY <3>0, <3>3, <3>n, TurnIs, ReadingIs DEF Idle
      <4>2. /\ Divided(request[k], MaxPrints[k], shown[k][request[k]], down[k], flushing[k], output[k],
                       task[k].prints)
            /\ task[k].prints \in 0..MaxPrints[k]
        BY <3>0, <4>1 DEF KernelInv, Cut
      <4>3. PICK c \in 0..task[k].prints : shown[k][r] = Run(r, 0, c)
        BY <3>n, <4>1, <4>2, DividedSeen
      <4>4. Len(shown[k][r]) = c
        <5>1. 0 \in Nat /\ c \in Nat /\ 0 <= c
          BY <4>2
        <5>2. Len(Run(r, 0, c)) = c - 0
          BY <3>n, <5>1, RunIs
        <5>. QED
          BY <4>3, <5>1, <5>2
      <4>. QED
        BY <4>2, <4>3, <4>4
    <3>4. phase[k] = "idle" => output[k] = <<>> /\ flushing[k] = <<>>
      BY <3>0, TurnIs, ReadingIs DEF Idle, KernelInv, Locked
    <3>. QED
      BY <3>2, <3>3, <3>4
  <2>. QED
    BY <2>1 DEF OutputInOrder
<1>. QED
  BY <1>1, ReplCorrect, PTL
===============================================================================
