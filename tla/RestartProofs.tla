---------------------------- MODULE RestartProofs ----------------------------
(***************************************************************************)
(* Proofs about Restart, for any number of daemons, clients and classes.   *)
(***************************************************************************)
EXTENDS Restart, TLAPS

-----------------------------------------------------------------------------
(* Types.                                                                  *)

\* Every variable keeps its type, through starts, crashes and shutdowns.
THEOREM TypeCorrect == Spec => []TypeOK
<1>1. Init => TypeOK
  BY DEF Init, TypeOK, State, ClientState
<1>2. TypeOK /\ [Next]_vars => TypeOK'
  <2> SUFFICES ASSUME TypeOK, [Next]_vars PROVE TypeOK'
    OBVIOUS
  <2> USE RestartAssumption DEF TypeOK, State, ClientState, serving
  <2>1. ASSUME NEW d \in Daemon, Unlink(d) PROVE TypeOK'
    BY <2>1 DEF Unlink
  <2>2. ASSUME NEW d \in Daemon, Bind(d) PROVE TypeOK'
    BY <2>2 DEF Bind, Ready
  <2>3. ASSUME NEW d \in Daemon, StartAccepting(d) PROVE TypeOK'
    BY <2>3 DEF StartAccepting
  <2>4. ASSUME NEW d \in Daemon, Return(d) PROVE TypeOK'
    BY <2>4 DEF Return
  <2>5. ASSUME NEW d \in Daemon, Dies(d) PROVE TypeOK'
    BY <2>5 DEF Dies, CutOff
  <2>6. ASSUME NEW c \in Client, Connect(c) PROVE TypeOK'
    BY <2>6 DEF Connect
  <2>7. ASSUME NEW c \in Client, Accept(c) PROVE TypeOK'
    BY <2>7 DEF Accept
  <2>8. ASSUME NEW c \in Client, AcceptFails(c) PROVE TypeOK'
    BY <2>8 DEF AcceptFails
  <2>9. ASSUME NEW c \in Client, OtherCommand(c) PROVE TypeOK'
    BY <2>9 DEF OtherCommand, Dispatched, Done
  <2>10. ASSUME NEW c \in Client, NEW k \in Class, OnAdd(c, k) PROVE TypeOK'
    BY <2>10 DEF OnAdd, Dispatched, Done
  <2>11. ASSUME NEW c \in Client, Shutdown(c) PROVE TypeOK'
    BY <2>11 DEF Shutdown, Dispatched, CutOff
  <2>12. ASSUME NEW c \in Client, ProcessExits(c) PROVE TypeOK'
    BY <2>12 DEF ProcessExits
  <2>13. CASE CleanUp
    BY <2>13 DEF CleanUp
  <2>14. CASE UNCHANGED vars
    BY <2>14 DEF vars
  <2> QED
    BY <2>1, <2>2, <2>3, <2>4, <2>5, <2>6, <2>7, <2>8, <2>9, <2>10, <2>11, <2>12,
       <2>13, <2>14 DEF Next, Command
<1> QED BY <1>1, <1>2, PTL DEF Spec

-----------------------------------------------------------------------------
(* The inductive invariant.                                                *)

\* A daemon counts its shutdowns: none before the first, one at least after it.
ShutdownsCounted ==
    \A d \in Daemon :
        /\ state[d] \in {"none", "unlinked", "bound", "up"} => shutdowns[d] = 0
        /\ state[d] = "closing" => shutdowns[d] > 0

\* A child that runs was launched by a command that is over, and its daemon has
\* not returned: it waits for the child, unless it died.
ChildHasParent ==
    \A p \in Client : child[p] = "running" =>
        /\ client[p] = "over"
        /\ state[server[p]] \in {"up", "closing", "died"}

\* The children of one daemon are of different classes.
SiblingsDiffer ==
    \A p, q \in Client :
        p # q /\ child[p] = "running" /\ child[q] = "running" /\ server[p] = server[q] =>
            classOf[p] # classOf[q]

IInv ==
    /\ TypeOK
    /\ ShutdownsCounted
    /\ OnlyCrashesLeaveFiles
    /\ ListeningIsReachable
    /\ ChildHasParent
    /\ SiblingsDiffer

\* A daemon that has shut down twice has done so for good.
LEMMA ShutDownTwiceForGood ==
    ASSUME TypeOK, ShutDownTwice,
           \A d \in Daemon : shutdowns'[d] \in Nat /\ shutdowns'[d] >= shutdowns[d]
    PROVE  ShutDownTwice'
  BY DEF TypeOK, ShutDownTwice

\* What no step but those of a daemon's life can disturb.
LEMMA DaemonsUntouched ==
    ASSUME IInv, UNCHANGED <<state, shutdowns, file>>
    PROVE  /\ ShutdownsCounted'
           /\ OnlyCrashesLeaveFiles'
           /\ ListeningIsReachable'
  BY DEF IInv, ShutdownsCounted, OnlyCrashesLeaveFiles, ListeningIsReachable, ShutDownTwice,
         DebugStarted, Listening

\* What no step but a launch, an exit, or the end of a parent can disturb.
LEMMA ChildrenUntouched ==
    ASSUME IInv, UNCHANGED <<child, classOf>>,
           \A p \in Client : child[p] = "running" =>
               /\ client'[p] = "over"
               /\ server'[p] = server[p]
               /\ state'[server[p]] \in {"up", "closing", "died"}
    PROVE  ChildHasParent' /\ SiblingsDiffer'
  BY DEF IInv, ChildHasParent, SiblingsDiffer

-----------------------------------------------------------------------------
(* One lemma for each kind of step.                                        *)

\* A daemon that starts: it binds only where no file is, and has no children yet.
LEMMA StartInv ==
    ASSUME IInv, NEW d \in Daemon, Unlink(d) \/ Bind(d) \/ StartAccepting(d)
    PROVE  /\ ShutdownsCounted'
           /\ OnlyCrashesLeaveFiles'
           /\ ListeningIsReachable'
           /\ ChildHasParent'
           /\ SiblingsDiffer'
<1> USE RestartAssumption DEF IInv, TypeOK, State, serving
<1>1. \A p \in Client : child[p] = "running" => server[p] # d \/ state[d] # "none"
  BY DEF ChildHasParent
<1>2. ChildHasParent' /\ SiblingsDiffer'
  <2>1. UNCHANGED serving
    BY DEF Unlink, Bind, StartAccepting
  <2>2. /\ state[d] \in {"none", "unlinked", "bound"}
        /\ \A e \in Daemon \ {d} : state'[e] = state[e]
    BY DEF Unlink, Bind, Ready, StartAccepting
  <2> QED BY <2>1, <2>2, ChildrenUntouched DEF ChildHasParent
<1>3. ShutdownsCounted'
  BY DEF ShutdownsCounted, Unlink, Bind, Ready, StartAccepting
<1>4. OnlyCrashesLeaveFiles'
  BY DEF OnlyCrashesLeaveFiles, Listening, Unlink, Bind, Ready, StartAccepting
<1>5. ListeningIsReachable'
  <2>1. CASE Unlink(d)
    BY <2>1 DEF Unlink, ListeningIsReachable, DebugStarted
  <2>2. CASE Bind(d)
    BY <2>2 DEF Bind, Ready, ListeningIsReachable, ShutDownTwice, DebugStarted, Listening
  <2>3. CASE StartAccepting(d)
    BY <2>3 DEF StartAccepting, ListeningIsReachable, ShutDownTwice, DebugStarted, Listening
  <2> QED BY <2>1, <2>2, <2>3
<1> QED BY <1>2, <1>3, <1>4, <1>5

\* A daemon that ends: cleanly after a shutdown and without children, or by dying,
\* which leaves its file and its children.
LEMMA EndInv ==
    ASSUME IInv, NEW d \in Daemon, Return(d) \/ Dies(d)
    PROVE  /\ ShutdownsCounted'
           /\ OnlyCrashesLeaveFiles'
           /\ ListeningIsReachable'
           /\ ChildHasParent'
           /\ SiblingsDiffer'
<1> USE DEF IInv, TypeOK, State, ClientState, serving
<1>1. ShutdownsCounted' /\ OnlyCrashesLeaveFiles' /\ ListeningIsReachable'
  BY RestartAssumption
     DEF ShutdownsCounted, OnlyCrashesLeaveFiles, ListeningIsReachable, ShutDownTwice,
         DebugStarted, Listening, Running, Return, Dies
<1>2. CASE Return(d)
  <2>1. \A p \in Client : child[p] = "running" => server[p] # d
    BY <1>2 DEF Return, ChildrenOf
  <2> QED BY <1>1, <1>2, <2>1, ChildrenUntouched DEF ChildHasParent, Return
<1>3. CASE Dies(d)
  <2>1. \A p \in Client : child[p] = "running" => client'[p] = "over"
    BY <1>3 DEF Dies, CutOff, ChildHasParent
  <2> QED BY <1>1, <1>3, <2>1, ChildrenUntouched DEF ChildHasParent, Dies
<1> QED BY <1>2, <1>3

\* A client's steps, and a child's exit, touch no daemon; a client with a child that
\* runs is over already.
LEMMA ClientInv ==
    ASSUME IInv, NEW c \in Client,
           Connect(c) \/ Accept(c) \/ AcceptFails(c) \/ OtherCommand(c) \/ ProcessExits(c)
    PROVE  /\ ShutdownsCounted'
           /\ OnlyCrashesLeaveFiles'
           /\ ListeningIsReachable'
           /\ ChildHasParent'
           /\ SiblingsDiffer'
<1> USE DEF IInv, TypeOK, serving
<1>1. UNCHANGED <<state, shutdowns, file>>
  BY DEF Connect, Accept, AcceptFails, OtherCommand, ProcessExits
<1>2. ShutdownsCounted' /\ OnlyCrashesLeaveFiles' /\ ListeningIsReachable'
  BY <1>1, DaemonsUntouched
<1>3. CASE Connect(c)
  BY <1>2, <1>3, ChildrenUntouched DEF Connect, ChildHasParent
<1>4. CASE Accept(c)
  BY <1>2, <1>4, ChildrenUntouched DEF Accept, ChildHasParent
<1>5. CASE AcceptFails(c)
  BY <1>2, <1>5, ChildrenUntouched DEF AcceptFails, ChildHasParent
<1>6. CASE OtherCommand(c)
  BY <1>2, <1>6, ChildrenUntouched DEF OtherCommand, Dispatched, Done, ChildHasParent
<1>7. CASE ProcessExits(c)
  BY <1>2, <1>7 DEF ProcessExits, ChildHasParent, SiblingsDiffer
<1> QED BY <1>3, <1>4, <1>5, <1>6, <1>7

\* onAdd launches a class that no other child of its daemon has.
LEMMA OnAddInv ==
    ASSUME IInv, NEW c \in Client, NEW k \in Class, OnAdd(c, k)
    PROVE  /\ ShutdownsCounted'
           /\ OnlyCrashesLeaveFiles'
           /\ ListeningIsReachable'
           /\ ChildHasParent'
           /\ SiblingsDiffer'
<1> USE DEF IInv, TypeOK
<1>1. ShutdownsCounted' /\ OnlyCrashesLeaveFiles' /\ ListeningIsReachable'
  BY DaemonsUntouched DEF OnAdd
<1>2. child[c] # "running"
  BY DEF OnAdd, Dispatched, ChildHasParent
<1>3. ChildHasParent'
  BY DEF ChildHasParent, OnAdd, Dispatched, Done, Running
<1>4. SiblingsDiffer'
  <2> SUFFICES ASSUME NEW p \in Client, NEW q \in Client, p # q,
                      child'[p] = "running", child'[q] = "running", server'[p] = server'[q]
               PROVE  classOf'[p] # classOf'[q]
    BY DEF SiblingsDiffer
  <2>1. CASE p = c
    BY <2>1 DEF OnAdd, ChildrenOf
  <2>2. CASE q = c
    BY <2>2 DEF OnAdd, ChildrenOf
  <2>3. CASE p # c /\ q # c
    BY <2>3 DEF OnAdd, SiblingsDiffer
  <2> QED BY <2>1, <2>2, <2>3
<1> QED BY <1>1, <1>3, <1>4

\* A daemon that is up and shuts down removes its own file, or another one has
\* shut down twice; one that is closing has now shut down twice itself.
LEMMA ShutdownInv ==
    ASSUME IInv, NEW c \in Client, Shutdown(c)
    PROVE  /\ ShutdownsCounted'
           /\ OnlyCrashesLeaveFiles'
           /\ ListeningIsReachable'
           /\ ChildHasParent'
           /\ SiblingsDiffer'
<1> USE RestartAssumption DEF IInv, TypeOK
<1> DEFINE d == server[c]
<1>1. d \in Daemon /\ state[d] \in {"up", "closing"}
  BY DEF Shutdown, Dispatched, Running
<1>2. ShutdownsCounted'
  BY <1>1 DEF Shutdown, ShutdownsCounted
<1>3. OnlyCrashesLeaveFiles'
  BY DEF Shutdown, OnlyCrashesLeaveFiles
<1>4. ListeningIsReachable'
  <2> SUFFICES ASSUME ~DebugStarted', NEW e \in Daemon, Listening(e)'
               PROVE  file' = e \/ ShutDownTwice'
    BY DEF ListeningIsReachable
  <2>0. ~DebugStarted
    BY <1>1 DEF Shutdown, DebugStarted
  <2>1. e # d /\ Listening(e)
    BY <1>1 DEF Shutdown, Listening
  <2>2. \A a \in Daemon : shutdowns'[a] \in Nat /\ shutdowns'[a] >= shutdowns[a]
    BY <1>1 DEF Shutdown
  <2>3. CASE ShutDownTwice
    BY <2>2, <2>3, ShutDownTwiceForGood
  <2>4. CASE ~ShutDownTwice
    <3>1. file = e /\ state[d] # "up"
      BY <1>1, <2>0, <2>1, <2>4 DEF ListeningIsReachable, Listening
    <3>2. shutdowns[d] > 0
      BY <1>1, <3>1 DEF ShutdownsCounted
    <3> QED BY <1>1, <3>2 DEF Shutdown, ShutDownTwice
  <2> QED BY <2>3, <2>4
<1>5. ChildHasParent'
  BY <1>1 DEF Shutdown, ChildHasParent, ChildrenOf, CutOff
<1>6. SiblingsDiffer'
  BY DEF Shutdown, SiblingsDiffer
<1> QED BY <1>2, <1>3, <1>4, <1>5, <1>6

\* The file somebody removes is that of a daemon that died.
LEMMA CleanUpInv ==
    ASSUME IInv, CleanUp
    PROVE  /\ ShutdownsCounted'
           /\ OnlyCrashesLeaveFiles'
           /\ ListeningIsReachable'
           /\ ChildHasParent'
           /\ SiblingsDiffer'
<1> USE DEF IInv, serving
<1>1. ShutdownsCounted' /\ OnlyCrashesLeaveFiles' /\ ListeningIsReachable'
  BY DEF CleanUp, ShutdownsCounted, OnlyCrashesLeaveFiles, ListeningIsReachable,
         ShutDownTwice, DebugStarted, Listening
<1> QED BY <1>1, ChildrenUntouched DEF CleanUp, ChildHasParent

\* Every step keeps the invariant: the daemons' files, shutdowns and children.
THEOREM Invariance == Spec => []IInv
<1>1. Init => IInv
  BY DEF Init, IInv, TypeOK, State, ClientState, ShutdownsCounted, OnlyCrashesLeaveFiles,
         ListeningIsReachable, Listening, ChildHasParent, SiblingsDiffer
<1>2. IInv /\ TypeOK' /\ [Next]_vars => IInv'
  <2> SUFFICES ASSUME IInv, TypeOK', [Next]_vars PROVE IInv'
    OBVIOUS
  <2>1. CASE \E d \in Daemon : Unlink(d) \/ Bind(d) \/ StartAccepting(d)
    BY <2>1, StartInv DEF IInv
  <2>2. CASE \E d \in Daemon : Return(d) \/ Dies(d)
    BY <2>2, EndInv DEF IInv
  <2>3. CASE \E c \in Client :
               Connect(c) \/ Accept(c) \/ AcceptFails(c) \/ OtherCommand(c) \/ ProcessExits(c)
    BY <2>3, ClientInv DEF IInv
  <2>4. CASE \E c \in Client, k \in Class : OnAdd(c, k)
    BY <2>4, OnAddInv DEF IInv
  <2>5. CASE \E c \in Client : Shutdown(c)
    BY <2>5, ShutdownInv DEF IInv
  <2>6. CASE CleanUp
    BY <2>6, CleanUpInv DEF IInv
  <2>7. CASE UNCHANGED vars
    BY <2>7, DaemonsUntouched, ChildrenUntouched DEF IInv, vars, ChildHasParent
  <2> QED BY <2>1, <2>2, <2>3, <2>4, <2>5, <2>6, <2>7 DEF Next, Command
<1> QED BY <1>1, <1>2, TypeCorrect, PTL DEF Spec

-----------------------------------------------------------------------------
(* Safety.                                                                 *)

\* Clients reach every daemon that listens, until one has been shut down twice
\* (server.cpp:94) or a debug build has been started (server.cpp:31).
THEOREM Reachability == Spec => []ListeningIsReachable
  BY Invariance, PTL DEF IInv

\* Only a daemon that died leaves a file at which nobody listens.
THEOREM CleanEndsLeaveNoFile == Spec => []OnlyCrashesLeaveFiles
  BY Invariance, PTL DEF IInv

\* A daemon that is up accepts, until an accept fails.
UpAccepts == \A d \in Daemon : state[d] = "up" => d \in accepting \cup starved

\* A daemon stops accepting when it stops being up, with its backlog cut off.
LEMMA AcceptingNext ==
    ASSUME TypeOK, TypeOK', UpAccepts, WaitingHasAcceptor, [Next]_vars
    PROVE  UpAccepts' /\ WaitingHasAcceptor'
<1> USE RestartAssumption
    DEF TypeOK, State, ClientState, serving, UpAccepts, WaitingHasAcceptor
<1>1. ASSUME NEW d \in Daemon, Unlink(d) \/ Bind(d) PROVE UpAccepts' /\ WaitingHasAcceptor'
  BY <1>1 DEF Unlink, Bind, Ready
<1>2. ASSUME NEW d \in Daemon, StartAccepting(d) PROVE UpAccepts' /\ WaitingHasAcceptor'
  BY <1>2 DEF StartAccepting
<1>3. ASSUME NEW d \in Daemon, Return(d) PROVE UpAccepts' /\ WaitingHasAcceptor'
  BY <1>3 DEF Return
<1>4. ASSUME NEW d \in Daemon, Dies(d) PROVE UpAccepts' /\ WaitingHasAcceptor'
  BY <1>4 DEF Dies, CutOff
<1>5. ASSUME NEW c \in Client, Connect(c) PROVE UpAccepts' /\ WaitingHasAcceptor'
  BY <1>5 DEF Connect, Listening
<1>6. ASSUME NEW c \in Client, Accept(c) \/ AcceptFails(c)
      PROVE  UpAccepts' /\ WaitingHasAcceptor'
  BY <1>6 DEF Accept, AcceptFails
<1>7. ASSUME NEW c \in Client, OtherCommand(c) \/ ProcessExits(c)
      PROVE  UpAccepts' /\ WaitingHasAcceptor'
  BY <1>7 DEF OtherCommand, Dispatched, Done, ProcessExits
<1>8. ASSUME NEW c \in Client, NEW k \in Class, OnAdd(c, k)
      PROVE  UpAccepts' /\ WaitingHasAcceptor'
  BY <1>8 DEF OnAdd, Dispatched, Done
<1>9. ASSUME NEW c \in Client, Shutdown(c) PROVE UpAccepts' /\ WaitingHasAcceptor'
  BY <1>9 DEF Shutdown, Dispatched, CutOff
<1>10. CASE CleanUp \/ UNCHANGED vars
  BY <1>10 DEF CleanUp, vars
<1> QED
  BY <1>1, <1>2, <1>3, <1>4, <1>5, <1>6, <1>7, <1>8, <1>9, <1>10 DEF Next, Command

\* Whoever waits has an acceptor to come for it, or one that has failed
\* (server.cpp:80).
THEOREM NobodyWaitsInVain == Spec => []WaitingHasAcceptor
<1>1. Init => UpAccepts /\ WaitingHasAcceptor
  BY DEF Init, UpAccepts, WaitingHasAcceptor
<1> QED BY <1>1, AcceptingNext, TypeCorrect, PTL DEF Spec

\* Two daemons that are up would both be at the file: across restarts, a class runs
\* twice only if a daemon crashed, outlived its shutdown or was made unreachable.
THEOREM NoSecondInstanceWithoutCrash == Spec => []SecondInstanceNeedsCrash
<1>1. IInv => SecondInstanceNeedsCrash
  <2> SUFFICES ASSUME IInv, ~DebugStarted, NEW p \in Client, NEW q \in Client, p # q,
                      child[p] = "running", child[q] = "running", classOf[p] = classOf[q],
                      state[server[p]] \notin {"closing", "died"},
                      state[server[q]] \notin {"closing", "died"}
               PROVE  ShutDownTwice
    BY DEF SecondInstanceNeedsCrash
  <2>1. server[p] # server[q]
    BY DEF IInv, SiblingsDiffer
  <2>2. /\ server[p] \in Daemon /\ state[server[p]] = "up"
        /\ server[q] \in Daemon /\ state[server[q]] = "up"
    BY DEF IInv, TypeOK, ChildHasParent
  <2> QED BY <2>1, <2>2 DEF IInv, ListeningIsReachable, Listening
<1> QED BY <1>1, Invariance, PTL
==============================================================================
