---------------------------- MODULE MonitorManager ----------------------------
(***************************************************************************)
(* The MonitorManager daemon: it launches monitor and scraper processes on *)
(* request, keeps a registry of them, and learns from the operating system *)
(* that a process has exited (SIGCHLD) or that a socket file has appeared  *)
(* in, or vanished from, the socket directory (inotify).                   *)
(*                                                                         *)
(* One thread runs io_context::run(), so every handler is one step; the    *)
(* interleavings are those of the handlers, and of the processes and files *)
(* outside.  An operation is one command of one client, from the accepted  *)
(* connection to the answer; the process an add launches and the add's     *)
(* two-second delay timer are named by that operation.                     *)
(***************************************************************************)
EXTENDS StoredObjects, Naturals, Sequences

CONSTANTS
    MaxEvents,      \* bound: inotify events waiting to be read
    SocketBound     \* bound: what a socket file may be

\* "live": a process listens on it; "stale": the file is all that is left.
SocketState == {"absent", "live", "stale"}

ASSUME MonitorManagerAssumption ==
    /\ MaxEvents \in Nat
    /\ SocketBound \subseteq SocketState
    /\ "absent" \in SocketBound

VARIABLES
    mode,     \* how far the daemon is: see Mode
    stored,   \* _storedMonitors and _storedScrapers
    phase,    \* where an operation is: see Phase
    keyOf,    \* the key an add or a stop works on
    replies,  \* the answers written to an operation's connection
    timer,    \* the delay timer of an add, and its wait
    proc,     \* the process an add launched, as the kernel sees it
    sock,     \* the socket file of a key
    events    \* the socket directory's inotify events, oldest first

vars == <<mode, stored, phase, keyOf, replies, timer, proc, sock, events>>

\* io.run() is working for clients, is running out of work, has returned, or
\* was left by an exception nobody catches or through a null pointer.
Mode == {"up", "closing", "exited", "uncaught", "segfault"}

\* A command is read in "accepted"; an add waits for its timer in "adding"; a
\* stop for its write, then for the monitor's answer.
Phase == {"idle", "accepted", "adding", "stopWrite", "stopRead", "done"}

\* A wait that has "expired" or was "aborted" has its handler queued.
TimerState == {"none", "armed", "expired", "aborted"}

\* "exited": the kernel still holds the status; "reaped": a waitpid() of the
\* daemon took it outside the SIGCHLD handler; "gone": on_exit was called.
ProcessState == {"none", "running", "exited", "reaped", "gone"}

Answer == {"ok", "error"}

Event == [key : Key, type : {"IN_CREATE", "IN_DELETE"}]

TypeOK ==
    /\ mode \in Mode
    /\ stored \in Registry
    /\ phase \in [Op -> Phase]
    /\ keyOf \in [Op -> Key \cup {None}]
    /\ replies \in [Op -> Seq(Answer)]
    /\ timer \in [Op -> TimerState]
    /\ proc \in [Op -> ProcessState]
    /\ sock \in [Key -> SocketState]
    /\ events \in Seq(Event)

\* The constructor's scan of the socket directory finds the files that are
\* there and registers none of them: see VerifySocketIsCommunicating.
Init ==
    /\ mode = "up"
    /\ stored = [k \in Key |-> Absent]
    /\ phase = [o \in Op |-> "idle"]
    /\ keyOf = [o \in Op |-> None]
    /\ replies = [o \in Op |-> <<>>]
    /\ timer = [o \in Op |-> "none"]
    /\ proc = [o \in Op |-> "none"]
    /\ sock \in [Key -> SocketBound]
    /\ events = <<>>

Running == mode \in {"up", "closing"}

Dispatched(o) == Running /\ phase[o] = "accepted"

Reply(o, answer) ==
    /\ replies' = [replies EXCEPT ![o] = Append(@, answer)]
    /\ phase' = [phase EXCEPT ![o] = "done"]

\* Fault: an aborted wait does not call its handler.
TimersAfterForgetting(registry) ==
    [o \in Op |-> IF /\ timer[o] = "armed"
                     /\ \A k \in Key : \/ registry[k] = Absent
                                       \/ registry[k].onAddTimer # o
                  THEN "none" ELSE timer[o]]

\* The entry owns its timer: to erase the one is to destroy, hence to cancel,
\* the other, unless the wait is over already.
TimersAfter(registry) ==
    [o \in Op |-> IF /\ timer[o] = "armed"
                     /\ \A k \in Key : \/ registry[k] = Absent
                                       \/ registry[k].onAddTimer # o
                  THEN "aborted" ELSE timer[o]]

UpdateRegistry(registry) ==
    /\ stored' = registry
    /\ timer' = TimersAfter(registry)

-----------------------------------------------------------------------------
(* Connections and the commands that leave the registry alone.             *)

\* UnixServer accepts while its acceptor is open.
Accept(o) ==
    /\ mode = "up"
    /\ phase[o] = "idle"
    /\ phase' = [phase EXCEPT ![o] = "accepted"]
    /\ UNCHANGED <<mode, stored, keyOf, replies, timer, proc, sock, events>>

\* No command within a second, or not one that parses: no answer.
ReadFails(o) ==
    /\ Dispatched(o)
    /\ phase' = [phase EXCEPT ![o] = "done"]
    /\ UNCHANGED <<mode, stored, keyOf, replies, timer, proc, sock, events>>

Unrecognised(o) ==
    /\ Dispatched(o)
    /\ Reply(o, "error")
    /\ UNCHANGED <<mode, stored, keyOf, timer, proc, sock, events>>

OnPing(o) ==
    /\ Dispatched(o)
    /\ Reply(o, "ok")
    /\ UNCHANGED <<mode, stored, keyOf, timer, proc, sock, events>>

OnGetStatus(o) ==
    /\ Dispatched(o)
    /\ Reply(o, "ok")
    /\ UNCHANGED <<mode, stored, keyOf, timer, proc, sock, events>>

-----------------------------------------------------------------------------
(* Adding a monitor or a scraper.                                          *)

CanAdd(k) ==
    stored[k] # Absent =>
        /\ ~stored[k].isBeingAdded
        /\ stored[k].process = None
        /\ ~stored[k].endpoint

\* Payload or name missing, entry in use, no answer from the database, or
\* class not registered in it.
AddRefused(o) ==
    /\ Dispatched(o)
    /\ Reply(o, "error")
    /\ UNCHANGED <<mode, stored, keyOf, timer, proc, sock, events>>

\* An add or a stop whose name is not a string; an add that finds no Python 3,
\* a document without a path, or no room for a process: _handleCallback catches
\* out_of_range and nothing else.
CommandThrows(o) ==
    /\ Dispatched(o)
    /\ mode' = "uncaught"
    /\ UNCHANGED <<stored, phase, keyOf, replies, timer, proc, sock, events>>

OnAdd(o, k) ==
    /\ Dispatched(o)
    /\ CanAdd(k)
    /\ stored' = [stored EXCEPT ![k] = Launched(@, o)]
    /\ proc' = [proc EXCEPT ![o] = "running"]
    /\ timer' = [timer EXCEPT ![o] = "armed"]
    /\ keyOf' = [keyOf EXCEPT ![o] = k]
    /\ phase' = [phase EXCEPT ![o] = "adding"]
    /\ UNCHANGED <<mode, replies, sock, events>>

TimerExpires(o) ==
    /\ Running
    /\ timer[o] = "armed"
    /\ timer' = [timer EXCEPT ![o] = "expired"]
    /\ UNCHANGED <<mode, stored, phase, keyOf, replies, proc, sock, events>>

\* The delay timer's handler, called with operation_canceled.
AddTimerAborted(o) ==
    LET k == keyOf[o] IN
    /\ Running
    /\ timer[o] = "aborted"
    /\ timer' = [timer EXCEPT ![o] = "none"]
    /\ \/ /\ stored[k] = Absent
          /\ Reply(o, "error")
          /\ UNCHANGED stored
       \/ /\ stored[k] # Absent
          /\ stored' = [stored EXCEPT ![k].isBeingAdded = FALSE,
                                      ![k].confirmAdded = FALSE]
          /\ IF stored[k].confirmAdded
             THEN Reply(o, "ok")
             ELSE phase' = [phase EXCEPT ![o] = "done"] /\ UNCHANGED replies
    /\ UNCHANGED <<mode, keyOf, proc, sock, events>>

\* child::running(): a waitpid() that takes the status if there is one.
Reap(p) == [proc EXCEPT ![p] = IF @ = "exited" THEN "reaped" ELSE @]

\* The delay timer's handler, called without error ...
HandleExpiry(o) ==
    /\ Running
    /\ timer[o] = "expired"
    /\ timer' = [timer EXCEPT ![o] = "none"]
    /\ UNCHANGED <<keyOf, sock, events>>

\* ... finds no entry: "THIS CASE (1) SHOULD NOT HAVE HAPPENED".
AddTimerFindsNoEntry(o) ==
    /\ HandleExpiry(o)
    /\ stored[keyOf[o]] = Absent
    /\ Reply(o, "error")
    /\ UNCHANGED <<mode, stored, proc>>

\* ... finds an entry and follows its null p_process.
AddTimerFindsNoProcess(o) ==
    /\ HandleExpiry(o)
    /\ stored[keyOf[o]] # Absent
    /\ stored[keyOf[o]].process = None
    /\ mode' = "segfault"
    /\ UNCHANGED <<stored, phase, replies, proc>>

\* Fault: the entry stays marked as being added.
AddTimerLeavesMark(o) ==
    LET k == keyOf[o] IN
    /\ HandleExpiry(o)
    /\ HasProcess(stored, k)
    /\ proc[stored[k].process] = "running"
    /\ Reply(o, "ok")
    /\ UNCHANGED <<mode, stored, proc>>

\* ... finds the process running: outcome 4 of the comment.
AddTimerFindsRunning(o) ==
    LET k == keyOf[o] IN
    /\ HandleExpiry(o)
    /\ HasProcess(stored, k)
    /\ proc[stored[k].process] = "running"
    /\ stored' = [stored EXCEPT ![k].isBeingAdded = FALSE]
    /\ Reply(o, "ok")
    /\ UNCHANGED <<mode, proc>>

\* ... finds it dead, its exit not yet reported: "CASE (2)".
AddTimerFindsDead(o) ==
    LET k == keyOf[o] IN
    /\ HandleExpiry(o)
    /\ HasProcess(stored, k)
    /\ proc[stored[k].process] # "running"
    /\ proc' = Reap(stored[k].process)
    /\ Reply(o, "error")
    /\ UNCHANGED <<mode, stored>>

-----------------------------------------------------------------------------
(* The processes.                                                          *)

ProcessExits(o) ==
    /\ Running
    /\ proc[o] = "running"
    /\ proc' = [proc EXCEPT ![o] = "exited"]
    /\ UNCHANGED <<mode, stored, phase, keyOf, replies, timer, sock, events>>

\* Fault: the exit is logged and the entry left as it was.
OnProcessExitLogging(o) ==
    /\ Running
    /\ proc[o] = "exited"
    /\ proc' = [proc EXCEPT ![o] = "gone"]
    /\ UNCHANGED <<mode, stored, phase, keyOf, replies, timer, sock, events>>

\* Fault: what the comment of onAdd says, taken literally: the exit cancels the
\* timer, whether or not the entry goes.
OnProcessExitCancelling(o) ==
    LET k == keyOf[o] IN
    /\ Running
    /\ proc[o] = "exited"
    /\ proc' = [proc EXCEPT ![o] = "gone"]
    /\ stored' = IF stored[k] = Absent THEN stored
                 ELSE RemoveStoredProcess(stored, k)
    /\ timer' = [timer EXCEPT ![o] = IF @ = "armed" THEN "aborted" ELSE @]
    /\ UNCHANGED <<mode, phase, keyOf, replies, sock, events>>

\* on_exit from the SIGCHLD handler: it finds the entry by class name.
OnProcessExit(o) ==
    LET k == keyOf[o] IN
    /\ Running
    /\ proc[o] = "exited"
    /\ proc' = [proc EXCEPT ![o] = "gone"]
    /\ UpdateRegistry(IF stored[k] = Absent THEN stored
                      ELSE RemoveStoredProcess(stored, k))
    /\ UNCHANGED <<mode, phase, keyOf, replies, sock, events>>

\* The same for a process reaped before: waitpid() fails, ec is set, and the
\* entry stays as it is.
OnProcessExitError(o) ==
    /\ Running
    /\ proc[o] = "reaped"
    /\ proc' = [proc EXCEPT ![o] = "gone"]
    /\ UNCHANGED <<mode, stored, phase, keyOf, replies, timer, sock, events>>

-----------------------------------------------------------------------------
(* Stopping.                                                               *)

\* Payload or name missing, no socket known, or being stopped already.
StopRefused(o) ==
    /\ Dispatched(o)
    /\ Reply(o, "error")
    /\ UNCHANGED <<mode, stored, keyOf, timer, proc, sock, events>>

CanStop(k) == HasEndpoint(stored, k) /\ ~stored[k].isBeingStopped

OnStop(o, k) ==
    /\ Dispatched(o)
    /\ CanStop(k)
    /\ sock[k] = "live"
    /\ stored' = [stored EXCEPT ![k].isBeingStopped = TRUE]
    /\ keyOf' = [keyOf EXCEPT ![o] = k]
    /\ phase' = [phase EXCEPT ![o] = "stopWrite"]
    /\ UNCHANGED <<mode, replies, timer, proc, sock, events>>

\* connect() to a file nobody listens on, or that is no longer there, throws.
StopThrows(o, k) ==
    /\ Dispatched(o)
    /\ CanStop(k)
    /\ sock[k] # "live"
    /\ mode' = "uncaught"
    /\ stored' = [stored EXCEPT ![k].isBeingStopped = TRUE]
    /\ UNCHANGED <<phase, keyOf, replies, timer, proc, sock, events>>

\* The STOP command was written or not; the socket is forgotten either way.
StopWritten(o, written) ==
    LET k == keyOf[o] IN
    /\ Running
    /\ phase[o] = "stopWrite"
    /\ UpdateRegistry(IF stored[k] = Absent THEN stored
                      ELSE RemoveStoredSocket(stored, k))
    /\ IF written
       THEN phase' = [phase EXCEPT ![o] = "stopRead"] /\ UNCHANGED replies
       ELSE Reply(o, "error")
    /\ UNCHANGED <<mode, keyOf, proc, sock, events>>

\* Fault: the failure to read is handed on as it is.
StopAnswerForwarding(read) == read

\* A timeout (3 s), a broken connection or an answer that does not parse leaves
\* a default Response, whose error is OK.
StopAnswer(read) == IF read = "failed" THEN "ok" ELSE read

StopRead(o, read) ==
    /\ Running
    /\ phase[o] = "stopRead"
    /\ Reply(o, StopAnswer(read))
    /\ UNCHANGED <<mode, stored, keyOf, timer, proc, sock, events>>

-----------------------------------------------------------------------------
(* The socket directory.                                                   *)

\* The watch on the directory queues an event while the inotify descriptor is open.
Notify(k, type) ==
    events' = IF mode = "up" THEN Append(events, [key |-> k, type |-> type])
              ELSE events

SocketAppears(k) ==
    /\ Running
    /\ "live" \in SocketBound
    /\ Len(events) < MaxEvents
    /\ sock[k] = "absent"
    /\ sock' = [sock EXCEPT ![k] = "live"]
    /\ Notify(k, "IN_CREATE")
    /\ UNCHANGED <<mode, stored, phase, keyOf, replies, timer, proc>>

SocketVanishes(k) ==
    /\ Running
    /\ Len(events) < MaxEvents
    /\ sock[k] # "absent"
    /\ sock' = [sock EXCEPT ![k] = "absent"]
    /\ Notify(k, "IN_DELETE")
    /\ UNCHANGED <<mode, stored, phase, keyOf, replies, timer, proc>>

\* Its listener is gone and the file stays: inotify says nothing.
SocketAbandoned(k) ==
    /\ Running
    /\ "stale" \in SocketBound
    /\ sock[k] = "live"
    /\ sock' = [sock EXCEPT ![k] = "stale"]
    /\ UNCHANGED <<mode, stored, phase, keyOf, replies, timer, proc, events>>

NextEvent(k, type) ==
    /\ Running
    /\ events # <<>>
    /\ Head(events) = [key |-> k, type |-> type]
    /\ events' = Tail(events)
    /\ UNCHANGED <<mode, phase, keyOf, replies, proc, sock>>

\* is_socket() ignores the failure of stat(): of a file that is gone again it
\* says whatever the uninitialized buffer says.
IsSocket(k) == IF sock[k] = "absent" THEN BOOLEAN ELSE {TRUE}

\* Creation of a socket file.  Nothing more comes of it than an endpoint in an
\* entry that exists: verifySocketIsCommunicating never calls on_success (after
\* a connect() that works nothing calls on_connect; after one that fails the
\* retry's timer is destroyed, its wait aborted, on return), so no add is ever
\* confirmed by its socket and no entry is made for a socket without one.
OnSocketCreated(k) ==
    /\ NextEvent(k, "IN_CREATE")
    /\ \E isSocket \in IsSocket(k) :
          stored' = IF isSocket /\ stored[k] # Absent
                    THEN [stored EXCEPT ![k].endpoint = TRUE]
                    ELSE stored
    /\ UNCHANGED timer

\* Fault: the removal of a socket is ignored while its entry is being added.
OnSocketDeletedUnlessAdding(k) ==
    /\ NextEvent(k, "IN_DELETE")
    /\ UpdateRegistry(IF stored[k] = Absent \/ stored[k].isBeingAdded THEN stored
                      ELSE RemoveStoredSocket(stored, k))

OnSocketDeleted(k) ==
    /\ NextEvent(k, "IN_DELETE")
    /\ UpdateRegistry(IF stored[k] = Absent THEN stored
                      ELSE RemoveStoredSocket(stored, k))

-----------------------------------------------------------------------------
(* The end.                                                                *)

\* Fault: an add in progress is passed over.
ShutdownSparingAdds(o) ==
    /\ Dispatched(o)
    /\ mode' = "closing"
    /\ events' = <<>>
    /\ LET ending == {k \in Key : HasProcess(stored, k) /\ ~stored[k].isBeingAdded} IN
          /\ UpdateRegistry([k \in Key |-> IF k \in ending
                                          THEN RemoveStoredProcess(stored, k)[k]
                                          ELSE stored[k]])
          /\ proc' = [p \in Op |-> IF /\ \E k \in ending : stored[k].process = p
                                      /\ proc[p] \in {"running", "exited"}
                                   THEN "reaped" ELSE proc[p]]
    /\ Reply(o, "ok")
    /\ UNCHANGED <<keyOf, sock>>

\* Inotify and acceptor are closed; terminate() kills a process and waits for
\* it, running() reaps one that is dead already.  It may come again, from a
\* connection accepted before.
Shutdown(o) ==
    /\ Dispatched(o)
    /\ mode' = "closing"
    /\ events' = <<>>
    /\ UpdateRegistry(TerminateProcesses(stored))
    /\ proc' = [p \in Op |-> IF /\ p \in Registered(stored)
                                /\ proc[p] \in {"running", "exited"}
                             THEN "reaped" ELSE proc[p]]
    /\ Reply(o, "ok")
    /\ UNCHANGED <<keyOf, sock>>

\* What keeps io.run() from returning once nothing is accepted any more.
WorkPending ==
    \E o \in Op :
        \/ phase[o] \notin {"idle", "done"}
        \/ timer[o] # "none"
        \/ proc[o] \in {"running", "exited", "reaped"}

Return ==
    /\ mode = "closing"
    /\ ~WorkPending
    /\ mode' = "exited"
    /\ UNCHANGED <<stored, phase, keyOf, replies, timer, proc, sock, events>>

-----------------------------------------------------------------------------
Dispatch(o) ==
    \/ ReadFails(o)
    \/ Unrecognised(o)
    \/ OnPing(o)
    \/ OnGetStatus(o)
    \/ AddRefused(o)
    \/ CommandThrows(o)
    \/ StopRefused(o)
    \/ Shutdown(o)
    \/ \E k \in Key : OnAdd(o, k) \/ OnStop(o, k) \/ StopThrows(o, k)

AddTimer(o) ==
    \/ AddTimerAborted(o)
    \/ AddTimerFindsNoEntry(o)
    \/ AddTimerFindsNoProcess(o)
    \/ AddTimerFindsRunning(o)
    \/ AddTimerFindsDead(o)

ExitHandler(o) == OnProcessExit(o) \/ OnProcessExitError(o)

StopCompletion(o) ==
    \/ \E written \in BOOLEAN : StopWritten(o, written)
    \/ \E read \in Answer \cup {"failed"} : StopRead(o, read)

OnInotifyUpdate == \E k \in Key : OnSocketCreated(k) \/ OnSocketDeleted(k)

Daemon ==
    \/ \E o \in Op : Dispatch(o) \/ AddTimer(o) \/ ExitHandler(o) \/ StopCompletion(o)
    \/ OnInotifyUpdate
    \/ Return

Environment ==
    \/ \E o \in Op : Accept(o) \/ TimerExpires(o) \/ ProcessExits(o)
    \/ \E k \in Key : SocketAppears(k) \/ SocketVanishes(k) \/ SocketAbandoned(k)

Next == Daemon \/ Environment

Spec == Init /\ [][Next]_vars

\* The loop runs every handler that is ready, a timer that is armed expires, a
\* read ends by its own timeout at the latest, SIGCHLD is delivered.  Nothing
\* makes a client connect, a process exit or a socket file come and go.
Fairness ==
    /\ \A o \in Op : /\ WF_vars(Dispatch(o))
                     /\ WF_vars(TimerExpires(o))
                     /\ WF_vars(AddTimer(o))
                     /\ WF_vars(ExitHandler(o))
                     /\ WF_vars(StopCompletion(o))
    /\ WF_vars(OnInotifyUpdate)
    /\ WF_vars(Return)

FairSpec == Spec /\ Fairness

-----------------------------------------------------------------------------
(* Safety.                                                                 *)

\* No entry is left behind empty: removeStoredSocket and removeStoredProcess
\* erase the one that loses its last member, in whatever order exits, socket
\* removals, stops and the shutdown come.
HasProcessOrEndpoint ==
    \A k \in Key : stored[k] # Absent => HasProcess(stored, k) \/ HasEndpoint(stored, k)

\* A process that lives, or whose exit is still to be handled, is the one its
\* entry holds: no handler, finding the entry by name, forgets the process of
\* another operation.
LiveProcessRegistered ==
    \A o \in Op : proc[o] \in {"running", "exited"} =>
        HasProcess(stored, keyOf[o]) /\ stored[keyOf[o]].process = o

\* No class runs twice.
SingleInstance ==
    \A o, p \in Op : proc[o] = "running" /\ proc[p] = "running" /\ keyOf[o] = keyOf[p]
                      => o = p

\* An operation is answered at most once, and only when it is over.
ReplyOnce ==
    \A o \in Op : Len(replies[o]) <= (IF phase[o] = "done" THEN 1 ELSE 0)

\* An add that ends without an answer (its aborted timer found an entry) has had
\* the same class launched again behind its back.
DropNeedsSuccessor ==
    \A o \in Op : proc[o] # "none" /\ phase[o] = "done" /\ replies[o] = <<>> =>
        \E p \in Op \ {o} : proc[p] # "none" /\ keyOf[p] = keyOf[o]

\* A registered socket whose file is gone is about to be unregistered: the
\* removal is still among the events to be read.
EndpointBacked ==
    mode = "up" =>
        \A k \in Key : HasEndpoint(stored, k) /\ sock[k] = "absent" =>
            \E i \in 1..Len(events) : events[i] = [key |-> k, type |-> "IN_DELETE"]

\* Up to the shutdown, an entry marked as being added has a timer that is still
\* to be handled, unless its process was found dead before its exit was handled.
AddingIsTimed ==
    mode = "up" => \A k \in Key : stored[k] # Absent /\ stored[k].isBeingAdded =>
        \/ timer[stored[k].onAddTimer] # "none"
        \/ HasProcess(stored, k) /\ proc[stored[k].process] \in {"reaped", "gone"}

\* An add that goes on has a timer whose handler is still to come, whichever entry
\* the timer is in by now, or was destroyed with: nothing else would answer it.
PendingAddHasTimer ==
    Running => \A o \in Op : phase[o] = "adding" => timer[o] # "none"

\* An add is answered with OK only if a process of its class runs.
AddOkMeansRunning ==
    [][\A o \in Op : phase[o] = "adding" /\ replies'[o] = <<"ok">> =>
          HasProcess(stored', keyOf[o]) /\ proc'[stored'[keyOf[o]].process] = "running"]_vars

\* An exit that is reported takes the process out of the registry, though it is
\* looked up by the name of its class.
ExitUnregisters ==
    [][\A o \in Op : proc[o] = "exited" /\ proc'[o] = "gone" =>
          o \notin Registered(stored')]_vars

\* The shutdown leaves no process running: the registry knew them all.
ShutdownLeavesNoOrphan ==
    [][mode = "up" /\ mode' = "closing" => \A o \in Op : proc'[o] # "running"]_vars

-----------------------------------------------------------------------------
(* What the comments and messages of onAdd's timer handler say of it       *)
(* (callbacks.cpp:203-212, 261-263).  The code does otherwise.             *)

HandlesExpiry(o) == timer[o] = "expired" /\ timer'[o] = "none"

\* "THIS CASE (2) SHOULD NOT HAVE HAPPENED": a timer that expired without error
\* finds that the process of its class runs.
CaseTwoNeverHappens ==
    [][\A o \in Op : HandlesExpiry(o) /\ HasProcess(stored, keyOf[o]) =>
          proc[stored[keyOf[o]].process] = "running"]_vars

\* "2) FAIL: process exits sooner than timer => onProcessExit --> timer.cancel(),
\* process removed": no timer expires after the exit of its process was handled.
ExitCancelsTimer ==
    [][\A o \in Op : proc[o] = "gone" /\ timer[o] = "armed" => timer'[o] # "expired"]_vars

\* "3) OK: ... socket gets created => onSocketUpdate => timer.cancel()": no timer
\* expires after the socket of its running process was registered.
SocketCancelsTimer ==
    [][\A o \in Op : /\ timer[o] = "armed"
                     /\ proc[o] = "running"
                     /\ HasEndpoint(stored, keyOf[o])
                    => timer'[o] # "expired"]_vars

-----------------------------------------------------------------------------
(* Liveness, under Fairness.                                               *)

Crashed == mode \in {"uncaught", "segfault"}

\* Every accepted connection is dealt with, unless the daemon dies.
EveryRequestCompletes ==
    \A o \in Op : phase[o] = "accepted" ~> phase[o] = "done" \/ Crashed

\* The exit of a process is reflected in the registry, unless running() or
\* terminate() took its status before the signal handler could.
ExitIsRegistered ==
    \A o \in Op : proc[o] = "exited" ~>
        \/ Crashed
        \/ proc[o] = "reaped"
        \/ proc[o] = "gone" /\ o \notin Registered(stored)

\* Once every request accepted before the shutdown has been dispatched, and no
\* process launched by a late add is left, io.run() returns.
ShutdownReturns ==
    mode = "closing" /\ (\A o \in Op : phase[o] # "accepted" /\ proc[o] # "running")
        ~> mode # "closing"

-----------------------------------------------------------------------------
(* The abstract specification.                                             *)

Launches(o) == proc[o] # "none"

slot == [k \in Key |-> IF HasProcess(stored, k) THEN stored[k].process ELSE None]

life == [o \in Op |-> IF ~Launches(o) THEN "unborn"
                      ELSE IF proc[o] = "running" THEN "running" ELSE "dead"]

owner == [o \in Op |-> IF Launches(o) THEN keyOf[o] ELSE None]

Supervisor == INSTANCE Supervisor WITH
    slot <- slot, life <- life, owner <- owner, answers <- replies

\* Whatever the order of its handlers, the MonitorManager behaves as a Supervisor.
ImplementsSupervisor == Supervisor!Spec
==============================================================================
