-------------------------------- MODULE Restart --------------------------------
(***************************************************************************)
(* MonitorManagers that follow one another, or run side by side: the       *)
(* server's socket file, which outlives a daemon that dies; its acceptor,  *)
(* with the clients in its backlog; and the children, which outlive it too.*)
(*                                                                         *)
(* A child is named by the client whose command launched it.               *)
(***************************************************************************)
EXTENDS Naturals

CONSTANTS
    Daemon,   \* runs of the program
    Client,   \* commands sent to the MonitorManager's socket
    Class,
    None,
    Debug     \* the daemons that are builds with KEKMONITORS_DEBUG

ASSUME RestartAssumption ==
    /\ Debug \subseteq Daemon
    /\ None \notin Daemon
    /\ None \notin Class

VARIABLES
    state,      \* how far a daemon is
    accepting,  \* the daemons with an async_accept under way
    shutdowns,  \* how many shutdowns a daemon has carried out
    starved,    \* history: daemons whose accept failed
    file,       \* the daemon that bound the socket file, if the file is there
    client,     \* where a command is
    server,     \* the daemon it is at
    child,      \* the process it launched
    classOf     \* the class of that process

vars == <<state, accepting, shutdowns, starved, file, client, server, child, classOf>>

\* "bound": the acceptor listens, the rest of the constructor is to come;
\* "failed": bind() threw; "died": by an exception, a signal or a kill.
State == {"none", "unlinked", "bound", "up", "closing", "exited", "failed", "died"}

\* "waiting": in the backlog; "reading": accepted, its command is being read.
ClientState == {"idle", "waiting", "reading", "over"}

TypeOK ==
    /\ state \in [Daemon -> State]
    /\ accepting \subseteq Daemon
    /\ shutdowns \in [Daemon -> Nat]
    /\ starved \subseteq Daemon
    /\ file \in Daemon \cup {None}
    /\ client \in [Client -> ClientState]
    /\ server \in [Client -> Daemon \cup {None}]
    /\ child \in [Client -> {"none", "running", "over"}]
    /\ classOf \in [Client -> Class \cup {None}]
    /\ \A c \in Client :
          /\ client[c] \in {"waiting", "reading"} => server[c] # None
          /\ child[c] = "running" => server[c] # None /\ classOf[c] # None

Init ==
    /\ state = [d \in Daemon |-> "none"]
    /\ accepting = {}
    /\ shutdowns = [d \in Daemon |-> 0]
    /\ starved = {}
    /\ file = None
    /\ client = [c \in Client |-> "idle"]
    /\ server = [c \in Client |-> None]
    /\ child = [c \in Client |-> "none"]
    /\ classOf = [c \in Client |-> None]

Listening(d) == state[d] \in {"bound", "up"}

Running(d) == state[d] \in {"up", "closing"}

serving == <<client, server, child, classOf>>

-----------------------------------------------------------------------------
(* Starting.                                                               *)

\* "Removing leftover monitor manager socket", in a debug build: nobody is asked
\* whether it is left over.
Unlink(d) ==
    /\ d \in Debug
    /\ state[d] = "none"
    /\ state' = [state EXCEPT ![d] = "unlinked"]
    /\ file' = None
    /\ UNCHANGED <<accepting, shutdowns, starved, serving>>

Ready(d) == IF d \in Debug THEN "unlinked" ELSE "none"

\* Fault: the file is removed in every build, and bound to as it is.
BindOver(d) ==
    /\ state[d] = Ready(d)
    /\ file' = d
    /\ state' = [state EXCEPT ![d] = "bound"]
    /\ UNCHANGED <<accepting, shutdowns, starved, serving>>

\* bind() fails on a file that is there, whether or not anyone listens on it.
Bind(d) ==
    /\ state[d] = Ready(d)
    /\ IF file = None
       THEN file' = d /\ state' = [state EXCEPT ![d] = "bound"]
       ELSE UNCHANGED file /\ state' = [state EXCEPT ![d] = "failed"]
    /\ UNCHANGED <<accepting, shutdowns, starved, serving>>

\* The end of the constructor.  Its scan of the sockets that an earlier daemon's
\* monitors have registers none of them.
StartAccepting(d) ==
    /\ state[d] = "bound"
    /\ state' = [state EXCEPT ![d] = "up"]
    /\ accepting' = accepting \cup {d}
    /\ UNCHANGED <<shutdowns, starved, file, serving>>

-----------------------------------------------------------------------------
(* Clients.                                                                *)

\* The kernel takes a connection for any acceptor that is open.
Connect(c) ==
    /\ client[c] = "idle"
    /\ IF file # None /\ Listening(file)
       THEN /\ client' = [client EXCEPT ![c] = "waiting"]
            /\ server' = [server EXCEPT ![c] = file]
       ELSE /\ client' = [client EXCEPT ![c] = "over"]
            /\ UNCHANGED server
    /\ UNCHANGED <<state, accepting, shutdowns, starved, file, child, classOf>>

\* Fault: accepting is not started again.
AcceptOnce(c) ==
    /\ client[c] = "waiting"
    /\ state[server[c]] = "up"
    /\ server[c] \in accepting
    /\ client' = [client EXCEPT ![c] = "reading"]
    /\ accepting' = accepting \ {server[c]}
    /\ UNCHANGED <<state, shutdowns, starved, file, server, child, classOf>>

\* onConnect without an error, which starts accepting again.
Accept(c) ==
    /\ client[c] = "waiting"
    /\ state[server[c]] = "up"
    /\ server[c] \in accepting
    /\ client' = [client EXCEPT ![c] = "reading"]
    /\ UNCHANGED <<state, accepting, shutdowns, starved, file, server, child, classOf>>

\* onConnect with an error, such as no descriptor left, which does not.
AcceptFails(c) ==
    /\ client[c] = "waiting"
    /\ state[server[c]] = "up"
    /\ server[c] \in accepting
    /\ accepting' = accepting \ {server[c]}
    /\ starved' = starved \cup {server[c]}
    /\ UNCHANGED <<state, shutdowns, file, serving>>

\* A command is being read, or has been read, also by a daemon that closes.
Dispatched(c) == client[c] = "reading" /\ Running(server[c])

Done(c) == client' = [client EXCEPT ![c] = "over"]

\* Any command that launches nothing, or none in time.
OtherCommand(c) ==
    /\ Dispatched(c)
    /\ Done(c)
    /\ UNCHANGED <<state, accepting, shutdowns, starved, file, server, child, classOf>>

ChildrenOf(d) == {p \in Client : server[p] = d /\ child[p] = "running"}

\* onAdd refuses a class that this daemon's registry holds.
OnAdd(c, k) ==
    /\ Dispatched(c)
    /\ \A p \in ChildrenOf(server[c]) : classOf[p] # k
    /\ Done(c)
    /\ child' = [child EXCEPT ![c] = "running"]
    /\ classOf' = [classOf EXCEPT ![c] = k]
    /\ UNCHANGED <<state, accepting, shutdowns, starved, file, server>>

\* Clients in the backlog of an acceptor that closes are cut off.
CutOff(d, others) ==
    client' = [p \in Client |->
        IF p \in others \/ (server[p] = d /\ client[p] = "waiting") THEN "over" ELSE client[p]]

\* Fault: the acceptor is closed and its file left.
ShutdownKeepingFile(c) ==
    LET d == server[c] IN
    /\ Dispatched(c)
    /\ state' = [state EXCEPT ![d] = "closing"]
    /\ accepting' = accepting \ {d}
    /\ shutdowns' = [shutdowns EXCEPT ![d] = @ + 1]
    /\ child' = [p \in Client |-> IF p \in ChildrenOf(d) THEN "over" ELSE child[p]]
    /\ CutOff(d, {c})
    /\ UNCHANGED <<starved, file, server, classOf>>

\* The acceptor is closed, the file at its path removed, whoever's it is by then,
\* and every child that is registered is terminated.
Shutdown(c) ==
    LET d == server[c] IN
    /\ Dispatched(c)
    /\ state' = [state EXCEPT ![d] = "closing"]
    /\ accepting' = accepting \ {d}
    /\ shutdowns' = [shutdowns EXCEPT ![d] = @ + 1]
    /\ file' = None
    /\ child' = [p \in Client |-> IF p \in ChildrenOf(d) THEN "over" ELSE child[p]]
    /\ CutOff(d, {c})
    /\ UNCHANGED <<starved, server, classOf>>

-----------------------------------------------------------------------------
(* Ends.                                                                   *)

\* Fault: the loop is stopped with children that were launched after the shutdown.
ReturnAtOnce(d) ==
    /\ state[d] = "closing"
    /\ \A c \in Client : server[c] = d => client[c] # "reading"
    /\ state' = [state EXCEPT ![d] = "exited"]
    /\ UNCHANGED <<accepting, shutdowns, starved, file, serving>>

\* io.run() returns when neither a command nor a child is left to wait for.
Return(d) ==
    /\ state[d] = "closing"
    /\ \A c \in Client : server[c] = d => client[c] # "reading"
    /\ ChildrenOf(d) = {}
    /\ state' = [state EXCEPT ![d] = "exited"]
    /\ UNCHANGED <<accepting, shutdowns, starved, file, serving>>

\* Also in the constructor, once the acceptor is there: the database, the scan
\* and the watches may throw.  The file and the children stay.
Dies(d) ==
    /\ Listening(d) \/ Running(d)
    /\ state' = [state EXCEPT ![d] = "died"]
    /\ accepting' = accepting \ {d}
    /\ CutOff(d, {c \in Client : server[c] = d /\ client[c] = "reading"})
    /\ UNCHANGED <<shutdowns, starved, file, server, child, classOf>>

ProcessExits(p) ==
    /\ child[p] = "running"
    /\ child' = [child EXCEPT ![p] = "over"]
    /\ UNCHANGED <<state, accepting, shutdowns, starved, file, client, server, classOf>>

\* Somebody removes what a daemon that died has left.
CleanUp ==
    /\ file # None
    /\ state[file] = "died"
    /\ file' = None
    /\ UNCHANGED <<state, accepting, shutdowns, starved, serving>>

Command(c) == OtherCommand(c) \/ Shutdown(c) \/ \E k \in Class : OnAdd(c, k)

Next ==
    \/ \E d \in Daemon : Unlink(d) \/ Bind(d) \/ StartAccepting(d) \/ Return(d) \/ Dies(d)
    \/ \E c \in Client :
          Connect(c) \/ Accept(c) \/ AcceptFails(c) \/ Command(c) \/ ProcessExits(c)
    \/ CleanUp

Spec == Init /\ [][Next]_vars

\* The constructor ends, the loop runs what is ready, and a read ends by its
\* timeout.  Nothing makes a daemon start or die, a client connect, a child exit.
Fairness ==
    /\ \A d \in Daemon : WF_vars(StartAccepting(d)) /\ WF_vars(Return(d))
    /\ \A c \in Client : WF_vars(Accept(c) \/ AcceptFails(c)) /\ WF_vars(Command(c))

FairSpec == Spec /\ Fairness

-----------------------------------------------------------------------------
(* Safety.                                                                 *)

\* A daemon carried out a second shutdown, for a client it had accepted before
\* the first: it removed whatever file it found (server.cpp:94).
ShutDownTwice == \E d \in Daemon : shutdowns[d] > 1

\* A debug build was started: it unlinked whatever file it found (server.cpp:31).
DebugStarted == \E d \in Debug : state[d] # "none"

\* Among release builds a daemon that listens is the one clients reach: nobody
\* binds over it, and nobody removes its file but a daemon that is shut down twice.
ListeningIsReachable ==
    \A d \in Daemon : Listening(d) => file = d \/ ShutDownTwice \/ DebugStarted

\* The file is that of a daemon that listens or has died: no clean end, with
\* whatever shutdowns came before and after, keeps the next daemon from binding.
OnlyCrashesLeaveFiles == file # None => Listening(file) \/ state[file] = "died"

\* Across restarts, a class runs twice only if one of its two daemons has died, or
\* has taken the command after its shutdown, or was made unreachable, by a second
\* shutdown or by a debug build.
SecondInstanceNeedsCrash ==
    \A p, q \in Client :
        p # q /\ child[p] = "running" /\ child[q] = "running" /\ classOf[p] = classOf[q] =>
            \/ \E r \in {p, q} : state[server[r]] \in {"closing", "died"}
            \/ ShutDownTwice
            \/ DebugStarted

\* Nobody waits where nobody will come: a client in a backlog is at a daemon whose
\* constructor is not through, or that accepts, or one of whose accepts has failed.
WaitingHasAcceptor ==
    \A c \in Client : client[c] = "waiting" =>
        \/ state[server[c]] = "bound"
        \/ state[server[c]] = "up" /\ server[c] \in accepting \cup starved

-----------------------------------------------------------------------------
(* Liveness, under Fairness.                                               *)

\* A client in the backlog is accepted or cut off, unless an accept has failed:
\* then nobody is accepted any more, and the daemon cannot even be shut down.
WaitingIsServed ==
    \A c \in Client : client[c] = "waiting" ~>
        client[c] # "waiting" \/ server[c] \in starved
===============================================================================
