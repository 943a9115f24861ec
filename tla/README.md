# kekmonitors-cpp: specification of the MonitorManager

`moman` (the MonitorManager) is a daemon that launches *monitors* and *scrapers*
(Python programs) on request, supervises them, watches their configuration and
answers its clients over a Unix socket. This directory holds its TLA+
specification: what is modelled, what TLC checks on small instances and what TLAPS
proves for all of them. Source paths below are relative to the repository.

## 1. Inventory

| Component | Source | State it keeps | Operations |
|---|---|---|---|
| MonitorManager | `src/bin/moman/moman.cpp`, `callbacks.cpp`, `moman.hpp` | `_storedMonitors`, `_storedScrapers`: class name → `StoredObject` (process, endpoint, timer of the add, three flags) | the commands add, stop, status, ping, shutdown; the handlers of the delay timer, of a process's exit and of inotify |
| MonitorScraperCompletion | `callbacks.cpp:10-57` | the first of two responses | posts both halves of a joint command, joins their answers |
| UnixServer | `src/bin/moman/server.cpp` | acceptor, socket file, table of callbacks | bind, accept, read a command, dispatch it, close |
| Connection | `src/lib/connection.cpp` | socket, 1024-byte buffer, timeout | timed reads (1 s for a command, 3 s for a response), writes |
| Inotify | `src/lib/inotify-cxx.cpp` | watches by descriptor and by path, queue of events | add, remove, wait, close |
| Config watcher | `moman.cpp:99-349` | the list of watches | adds and removes watches, sends changed configurations to running processes |
| Cmd, Response, names | `src/lib/msg.cpp`, `core.cpp`, `utils.cpp` | tables filled at start | to and from JSON, lookups by name and by code |
| Configuration file | `src/lib/config.cpp`, `utils.cpp:18-60` | the settings | created if it is not there, then read |
| Clients | `src/bin/cli.cpp`, `stopmm.cpp` | none | send one command, print one answer |
| Monitors and scrapers | outside the repository | | run, exit, create and remove their socket, answer a stop |

**How they interact.** `main` runs one `io_context` on one thread. Everything the
daemon does is a handler of that loop, runs to its end without interruption, and
meets the others through the registry. A client connects; UnixServer reads one
command with a timeout of a second and calls the handler registered for it, with
a callback that writes the answer to that connection. An add launches a process
and waits two seconds on a timer before it answers. The process's exit arrives as
SIGCHLD and calls `onProcessExit`; its socket file's creation and removal arrive
as inotify events. A stop connects to the monitor's socket, writes STOP and reads
its answer, as three separate handlers. Every handler that runs later finds its
entry *by class name*, which by then may be the entry of another add. The same
inotify instance watches the configuration directory, in another branch of the same
handler: that branch adds and removes watches of the instance, and sends what it
reads to the processes of the registry.

**What is hard.** The order in which timer, exit, socket events, stop and further
commands come for one class; a completion that is queued when something else makes
it wrong (`cancel()` and `close()` cannot take it back): the add's timer, a read's
timeout, a batch of inotify events; an exit status that somebody else takes first
(`running()`, `terminate()`); joint commands whose halves take different times or
fail separately; a directory that goes on changing while its events are handled;
what a daemon that dies leaves behind for the next. PROJECT.json lists every hazard
with its line and the properties that would catch it, or the reason why none does.

**What makes each part correct.**

- MonitorManager: it never loses sight of a process that lives; a class runs at
  most once; every request is answered once, and an add with OK only if a process
  of its class runs; a registered socket exists or is about to be unregistered; a
  shutdown leaves nothing behind and lets `io.run()` return.
- Joint commands: one answer, after both halves, OK exactly when both are; a
  status keeps the halves' order.
- Connection: whatever a client does the daemon lives, lets go of the connection in
  the end, and does not close it under the handler of its command; what a client is
  told of its command is true.
- UnixServer over restarts: a daemon that listens is the one clients reach, a clean
  end leaves no file, and a class runs twice only after a crash.
- Inotify and the config watcher: the list, the library's maps and the kernel's
  marks agree; no change of a watched file goes unread; a created file is watched; no
  event is followed through a stale pointer to a change.
- Messages: a command is handled as it was sent or not at all; an error is not
  shown as OK.
- Configuration file: a program finds its settings unless another one is creating
  the file at that moment or left it unfinished, or the user removed it; what the user
  saves is not written over by a program that looks for the file afterwards.

## 2. Modules

| Module | Models | Notes |
|---|---|---|
| `StoredObjects` | the registry: `StoredObject`, `removeStoredSocket`, `removeStoredProcess`, `terminateProcesses` | operators, no state |
| `MonitorManager` | the daemon's registry and its handlers | one action per handler, or per way through a handler |
| `Supervisor` | what the daemon promises, without timers, signals, sockets | abstract specification of `MonitorManager` |
| `MonitorScraperCompletion` | joint commands, composed with `MonitorManager` | EXTENDS `MonitorManager`, whose `Op` is request × kind here (`JointOp`) and whose `Key` is kind × class (`JointKey`); the specification is `JointSpec` |
| `CommonAnswer` | what the client of a command carried out in halves is promised | abstract specification of `MonitorScraperCompletion` |
| `Connection` | both ends of a command's connection | the handlers and timers of both, for several connections |
| `Exchange` | what a command over a connection promises its client | abstract specification of `Connection` |
| `Inotify` | the inotify wrapper, the kernel under it, the files under that | operators and state; no specification of its own |
| `ConfigWatcher` | the daemon's use of it for the configuration directory | EXTENDS `Inotify` |
| `Messages` | a command from the command line to its handler, and its answer back | conversions, codes, lookups |
| `Restart` | daemons that follow one another or run side by side | socket file, acceptor, backlog, children |
| `ConfigFile` | `config.cfg` among programs that start | |
| `MonitorManagerProofs`, `RegistryProofs`, `MonitorScraperCompletionProofs`, `ConnectionProofs`, `RestartProofs`, `ConfigFileProofs`, `ConfigWatcherProofs`, `MessagesProofs` | theorems about the above | section 4 |
| `MC*` | the symmetry sets and model values for TLC | |

Every model takes another part of the program as its environment: `MonitorManager`
has an operation read and answered in one step each, which is what `Exchange`
promises of a `Connection`; `Connection` has a command's handler decide freely, as
`MonitorManager` may; `Restart` keeps of the registry what a shutdown and an add ask
of it; `ConfigWatcher` takes any set of running classes to send to. The daemon has one
inotify instance for the socket directory and the configuration (`moman.cpp:99-104`);
`MonitorManager` models the one branch of its handler, `ConfigWatcher` the other, as
the branches share the instance and no state besides: a watch, its mark and its events
belong to one directory, and nothing removes the socket directory's watch.

### `MonitorManager`

| Variable | Code |
|---|---|
| `mode` | how far `main` is: `up`; `closing` after `shutdown` (acceptor and inotify closed, `io.run()` still busy); `exited`; `uncaught` (an exception left `io.run()`); `segfault` |
| `stored` | both maps; a key is a pair of kind and class name, so the two maps are one function |
| `phase` | where an operation (one command of one client) is: `accepted` while its command is read, `adding` until its timer's handler ends, `stopWrite` and `stopRead` between the three handlers of a stop |
| `keyOf` | the `className` (and kind) the handlers of the operation captured |
| `replies` | what was written to the operation's connection |
| `timer` | the add's `delayTimer`: `armed`, or its handler queued after expiry or cancellation |
| `proc` | the process an add launched, as the kernel sees it: `exited` is a zombie whose SIGCHLD is to be handled, `reaped` one whose status a `waitpid()` of `running()` or `terminate()` has taken, `gone` one for which `on_exit` was called |
| `sock` | the socket file of a key, which processes outside the repository create, leave behind or remove |
| `events` | the inotify queue of the socket directory |

Processes and timers are named by the operation that created them, since an add
creates exactly one of each.

| Code | Action |
|---|---|
| `UnixServer::onConnect`, `_handleCallback`, `Connection::asyncReadCmd` | `Accept`, `ReadFails`, `Unrecognised` |
| `onPing`, `onGetStatus` | `OnPing`, `OnGetStatus` |
| `onAdd`, up to `async_wait` | `AddRefused` (every early return), `CommandThrows`, `OnAdd` |
| the handler given to `async_wait` | `AddTimerAborted` (`operation_canceled`), `AddTimerFindsNoEntry`, `AddTimerFindsNoProcess`, `AddTimerFindsRunning`, `AddTimerFindsDead` |
| the timer's destruction with its entry | `TimersAfter`, part of every action that erases entries |
| `onProcessExit` | `OnProcessExit`; `OnProcessExitError` when `ec` is set |
| `onStop`, its write's and its read's handlers | `StopRefused`, `OnStop`, `StopThrows`; `StopWritten`; `StopRead` |
| `onInotifyUpdate`, `checkSocketAndUpdateList`, `verifySocketIsCommunicating` | `OnSocketCreated`, `OnSocketDeleted` |
| `shutdown` | `Shutdown` |
| `io.run()` returns | `Return` |
| `MonitorScraperCompletion::create`, `run` | `Post` |
| `checkForCompletion` | `CheckForCompletion`, part of the step of the half that answers |
| `makeCommonResponse`, when `errorToString` throws | `CommonResponseThrows` |

Environment: `TimerExpires`, `ProcessExits`, `SocketAppears`, `SocketVanishes`,
`SocketAbandoned` (the listener is gone and the file stays).

Details the model takes from the code and not from its comments:

- `verifySocketIsCommunicating` has no effect. When `connect()` succeeds it
  returns without calling `on_connect`; when it fails it arms a timer that is a
  local variable and dies on return, so that the retry is aborted. Hence
  `p_confirmAdded` is never set, and no entry is ever made for a socket alone,
  neither at start (`moman.cpp:89-97`) nor later.
- A failed read of a stop's answer leaves a default `Response`, whose error is OK.
- `is_socket` ignores the failure of `stat()`: for a file that is gone its result
  is nondeterministic.
- `boost::process` calls `on_exit` with an error when `waitpid()` fails, which is
  the case when `running()` or `terminate()` took the status before; `onProcessExit`
  then leaves the entry alone.
- `_handleCallback` catches `std::out_of_range` only: every other exception ends
  the daemon.

Abstractions:

- **Order of handlers.** The model runs handlers that are ready in any order. The
  real queue is FIFO, but the order in which things get into it is not fixed: an
  exit goes through a pipe, the signal set and a strand before `on_exit` is
  called, the reactor polls between these hops, and in one poll descriptors come
  before timers. The traces of the findings need no other order than these.
- **Inotify events** of the socket directory are handled one at a time; the code
  handles a batch in one handler, which is one of the model's interleavings.
- **Which refusal** an add or a stop gives, and the contents of a status, are not
  told apart. A refusal may come for a missing payload or a database without the
  class as well, so it needs no guard.
- **The database** is asked synchronously inside `onAdd`: its answer is one of the
  action's alternatives. So is a failed launch (`CommandThrows`): a path to Python
  that does not exist throws there.

### `Connection`

| Variable | Code |
|---|---|
| `client`, `clock` | `main` of `cli.cpp` or `stopmm.cpp`, with its Connection and that one's timeout |
| `request` | what it has put on the stream, with the end of its sending side |
| `server`, `open`, `timer` | the daemon's Connection: which completion is under way or queued, whether `p_endpoint` is open, `m_timeout` |
| `answer` | what the daemon has written |
| `carried`, `late` | history: the commands that reached their handler; the timeouts that had expired when their read completed |

`Accept` is `onConnect` and the start of `asyncReadCmd`; `CommandReady` and
`TimerExpires` put a completion in the queue; `CommandRead`, `ReadAborted`,
`OnTimeout` and `OnTimeoutAborted` handle it. `OnTimeoutDangling` is the bound
`this` of a Connection that is gone: nothing may come of it, or memory is corrupt,
or the object there is by now another Connection, which it closes. `Answer`,
`Written` and `Drop` are what a command's handler does with the connection. A
message is a command, or garbage (what does not parse, is longer than the buffer,
or is cut). Writes are one step: see section 6.

### `Inotify` and `ConfigWatcher`

| Variable | Code |
|---|---|
| `present`, `version`, `changes` | the configuration directory: what exists, and how often each file's content has changed |
| `mark`, `queue` | the kernel: a descriptor's mark (on a path's inode, on one without a name, dropped) and the events to be read |
| `watch` | the `InotifyWatch` objects, named by the descriptor they get |
| `watches`, `paths` | `m_watches` and `m_paths` |
| `buf`, `events` | `m_buf` after a read, and `m_events` |
| `handler`, `unscanned` | where the constructor and the inotify handler are |
| `list` | `m_fileWatcher.watches` |
| `parsed` | the version of each file that was last read, `None` if it never was |
| `sent`, `sends` | what the last event sent, and the connections that carry such commands |
| `removed`, `early`, `found` | history: what was removed or replaced; directories made during the constructor; the files it found, until their content changes |

`Scan` and `Start` are the constructor, which watches the files it finds and reads
none of them. `Read`, `DeliverEvent` and `WaitAgain` are
`AsyncWaitForEvents`: one read, one turn of the loop over the buffer, the next wait.
`HandleCreatedDir`, `HandleCreatedFile` (watch, then read: two steps, as the file may
change in between), `HandleCreatedAgain`, `HandleModified`, `HandleDeleted`,
`HandleIgnored` and `HandleDangling` are one event in `onInotifyUpdate`;
`ParseAndSend` is `parseAndSendConfigs` with `sendCmdIfProcess`, whose connection
goes on in `SendProgress`. `OtherPrograms` and `Kernel` are the environment: create,
write, delete, replace by rename, write to a file without a name; IN_IGNORED when the
last user of an inode is gone. An operation that throws in the code is an action with
`mode' = "uncaught"`; a pointer that dangles may do anything a stale object can.

### `Messages`, `Restart`, `ConfigFile`

- `Messages`: `argument` and `options` are the command line, `sentCmd`, `gotCmd` the
  `Cmd` at both ends, `wire` the document under way (a JSON code of any type and a
  payload), `answered` the code of the answer as its author wrote it, `outcome` how
  the client ends. `IntBound` stands for 2^31: `stoi`, the conversion to `CommandType`
  and nlohmann's conversion of a number are taken modulo twice that. `PassOn` lets a
  monitor answer a stop with any code.
- `Restart`: `state` is how far a daemon is (`unlinked`, `bound`, `up`, `closing`,
  `exited`, `failed`, `died`), `accepting` who has an `async_accept` under way,
  `file` who bound the socket file, `client`/`server` where a command waits or is
  read, `child`/`classOf` what it launched. `Unlink` is a debug build's removal of
  the file, `Bind` fails on a file that is there, `AcceptFails` does not accept
  again, `Shutdown` removes the file at the path whoever's it is by then, `Dies`
  may come at any time and leaves the file and the children.
- `ConfigFile`: `stage` is how far a program's `Config()` is, `file` what the file
  holds; `unaware` (who had found no file, and was still to write it, when the user
  last saved it) and `removed` are history. `Check`, `Open` (which truncates), `Write`
  (when the stream is closed) and `Read` are separate steps, as other programs and the
  user run in between. `Kill` ends a program that is writing. `Save` writes the file in
  place or renames a new one over it, in one step, and `Remove` removes it: who had it
  open is then "adrift", and writes to a file that has no name.

## 3. Runs

| Run | Instance | Shows | Distinct states |
|---|---|---|---|
| `safety` | 2 keys, 3 operations, 2 socket events, symmetric | seven invariants, an action property, and that `MonitorManager` implements `Supervisor` | 447 914 |
| `liveness` | 1 key, 3 operations, 1 event | the three liveness properties of the daemon | 97 485 |
| `completion_safety` | 2 requests (4 operations), 1 class (2 keys), 1 event, symmetric | joint commands: three invariants, and that the composition implements `CommonAnswer` | 1 208 032 |
| `completion_liveness` | 2 requests, 1 class, no socket | every joint command is answered | 64 609 |
| `config` | 1 directory, 1 file, 5 changes, 8 watch descriptors | six invariants of the configuration watches, one action property, two liveness properties | 779 176 |
| `connection` | 2 connections | a daemon undisturbed by its clients, two liveness properties, and that `Connection` implements `Exchange` | 195 212 |
| `messages` | 5 commands, 5 errors, 4-bit integers, 2 payloads | what a command and an answer become on their way | 1 948 |
| `restart` | 3 daemons (one a debug build), 3 commands, 1 class | three invariants over restarts, and that waiting clients are served | 398 748 |
| `config_file` | 4 programs, symmetric | two action properties of the file's creation | 12 612 |
| `case_two`, `exit_cancels_timer`, `socket_cancels_timer` | 1 key, 2 operations, 1 event | one finding each, section 5 | |

**`safety`.** `HasProcessOrEndpoint` (no entry outlives both members),
`LiveProcessRegistered` (a process that lives is the one its entry holds, hence no
class runs twice), `DropNeedsSuccessor` (an add ends unanswered only if its class was
launched again), `EndpointBacked` (a registered socket without a file has its removal
in the queue), `AddingIsTimed` (an entry marked as being added has a timer to come,
except after "case 2"), `PendingAddHasTimer` (an add that goes on has a handler to
come, in whichever entry its timer is by now), `TypeOK`; the action
`ShutdownLeavesNoOrphan`; `ImplementsSupervisor`.

**`completion_safety`.** `StatusInOrder` (the labels of a joint status are right);
`OkMeansBothCarriedOut` (an OK means that each half worked on its own key, and launched
if it was an add); `JointIsDriven` (an unanswered joint command has a half that a
handler is to come for, or one that ended unanswered); `ImplementsCommonAnswer`.

**`config`.** `MapsAgree` (the list and the library's two maps), `MarksAgree` (these
and the kernel's marks, but for drops still to be read), `ClosedIsQuiet` (no event
after the shutdown), `DanglingChangesNoWatch` (an event that outlives its watch in
the list adds and removes nothing, unless a directory was removed), `ReadIsCurrent`
(what was read of a watched file is current, or it is as the constructor found it, or
an event is on its way),
`DiesOnlyOfRemovals` (only removed or replaced paths, or a directory that appears
during the constructor, can end the daemon); the action `CreationIsKept` (no step
takes the last event of a file's creation and leaves the file unwatched, unless a
directory was removed); `CreatedIsMonitored`, `SendsEnd`.

**`connection`.** `OnlyLateTimeoutsDisturb`: whatever clients do, the daemon lives
and keeps a connection open under its handler, unless a timeout had expired by the
time its read completed; that exception is in the code (`connection.cpp:47`).
`EveryConnectionIsReleased`, `EveryClientIsTold`, `ImplementsExchange`.

**`messages`.** `HandledAsSent`, `RunsWhatWasAsked`, `ErrorIsNotShownAsOk`,
`DiesOnlyOfStrangers`: a client dies of its own arguments or of a monitor's unknown
code, never of what this program makes.

**`restart`.** `ListeningIsReachable`, `OnlyCrashesLeaveFiles`,
`SecondInstanceNeedsCrash`, `WaitingIsServed`. Each names the exceptions the code has: a second shutdown of one daemon removes its successor's file
(`server.cpp:94`), a debug build removes the file of a daemon that runs
(`server.cpp:31`), a failed accept ends accepting (`server.cpp:53`).

**`config_file`.** `DiesOnlyOfCreation`: at the moment a program dies of the file,
another one has it open for creation or was killed before it had written it, or the
user has removed it. `EditsSurvive`: the step that overwrites what the user has saved
is that of a program that had found no file before the save and is still creating it.

**Bounds.** `Op` bounds the operations of a behaviour: each is used once. Three are
an add, a second add of the same class, and a third command for that class or the
shutdown: the least in which a handler of the first can meet the entry of the
second while a third works on it. Two keys let commands for different entries
interleave. `MaxEvents` bounds the events waiting to be read: two hold a removal
behind a creation of the same file. `SocketBound` says what a socket file may be, at
start and later: absent, live, or stale (its listener is gone). The joint runs have
two requests, since each brings two operations: two joint commands of one class, or
one and a plain command of its monitor. In `completion_liveness` no socket comes or
goes, so stops never get past their refusal: there the halves of adds and of status
commands race with timers and exits. The completion of a stop under fairness is part
of `liveness`, and its joint answer part of `completion_safety`, which leaves out
stale sockets: all they add is the death of the daemon in `StopThrows`, which a
socket whose removal is still to be read brings about as well.

`MaxChanges` is five: enough to create a directory and a file in it, to change it, to
remove both and to make the directory again, in any order and between any two steps
of the daemon. `MaxWd` is one for each way a watch can be added within that; no
behaviour of the instance is cut off by it (the same states are found with nine). A
second file or directory adds no interaction of its own, since watches meet only
through equal paths and through a directory and its files; the proofs hold for any.
Two connections let a dangling timeout hit the other one. Three daemons and three
commands are two shutdowns of one daemon while another binds, or two adds with a
shutdown between them; four programs at the configuration file are one more than the
most that take part in any of its races. `IntBound` = 8 makes an int four bits wide;
`MaxInteger` exceeds both ends of both ranges.

**Fairness.** The loop runs every handler that is ready (`WF` of dispatch, timer,
exit and stop handlers and of inotify, each per operation); an armed timer expires;
a read ends at the latest by its own timeout, so a stop's completion and a command's
dispatch come; SIGCHLD is delivered; a constructor goes on to its end. Nothing is
assumed of the environment: clients need not connect or send, processes need not
exit, files need not appear, change or vanish, daemons need not start or die. Each
liveness property names the outcomes the code really has, such as the death of the
daemon.

**Deadlock** is not checked where a behaviour properly ends: operations, connections
and changes are used up, and a returned or crashed daemon stops. `config_file` checks
it, as its user may always save it.

**Mutants.** A definition whose comment starts with "Fault:" is a plausible bug
(a dropped guard, a removal that erases too much, a handler that answers twice).
PROJECT.json names, for every property, the definition it replaces and the property
that must then fail.

## 4. Refinement and proofs

**Abstract specifications.** `Supervisor` knows one slot per key, the life of each
launched process and the answers. The mapping reads the slot off the entry's process,
the life off `proc`, and the answers off `replies`. Every handler of the daemon is
then one step of the Supervisor or none: in particular no handler that finds its
entry by name may empty the slot of a process that lives, and no answer to an add may
be OK while its slot's process does not run. `Exchange` knows what came of a command
and what its client was told: a command is carried out at most once, what is told is
true or a failure, and a failure says nothing. An answer that is cut leaves the
command undecided. `CommonAnswer` knows what each half of a request has answered and
what the client was told: with the last half's answer, in the same step, what all come
to. The mapping takes the halves' answers off `replies`, for joint requests. The
composition implements `Supervisor` as well, by the mapping of `MonitorManager`.

**Theorems.** They hold for every value of the constants, from the named assumptions
of the modules alone.

| Module | Theorem | Property |
|---|---|---|
| `MonitorManagerProofs` | `TypeCorrect` | `TypeOK` |
| | `ProcessesAreKept` | `LiveProcessRegistered` |
| | `NoSecondInstance` | `SingleInstance` * |
| | `NoEmptyEntry` | `HasProcessOrEndpoint` |
| | `AtMostOneReply` | `ReplyOnce` * |
| | `NoDropWithoutSuccessor` | `DropNeedsSuccessor` |
| | `NoOrphan` | `ShutdownLeavesNoOrphan` |
| | `OkNeedsRunningProcess` | `AddOkMeansRunning` * |
| `RegistryProofs` | `AddingTimed` | `AddingIsTimed` |
| | `EndpointsBacked` | `EndpointBacked` |
| | `AddsAreDriven` | `PendingAddHasTimer` |
| | `ExitsUnregister` | `ExitUnregisters` * |
| | `Refinement` | `ImplementsSupervisor` |
| `MonitorScraperCompletionProofs` | `BothHalvesFirst` | `AnsweredAfterBoth` * |
| | `AnswerIsBoth` | `AnswerIsCommon` * |
| | `StatusLabels` | `StatusInOrder` |
| | `JointKeepsPromises` | under `JointSpec`: `SingleInstance` and the other invariants of the registry |
| | `JointKeepsSteps` | under `JointSpec`: `AddOkMeansRunning`, `ExitUnregisters`, `ShutdownLeavesNoOrphan` |
| | `JointRefinesSupervisor` | under `JointSpec`: `ImplementsSupervisor` |
| | `OkIsForBoth` | `OkMeansBothCarriedOut` |
| | `JointDriven` | `JointIsDriven` |
| | `JointRefinesCommonAnswer` | `ImplementsCommonAnswer` |
| `ConnectionProofs` | `TypeCorrect` | types |
| | `Undisturbed` | `OnlyLateTimeoutsDisturb` |
| | `EveryReadIsTimed` | `ReadsAreTimed` * |
| | `Refinement` | `ImplementsExchange` |
| `ConfigWatcherProofs` | `MapsInStep` | `MapsAgree` |
| | `MarksInStep` | `MarksAgree` |
| | `QuietAfterClose` | `ClosedIsQuiet` |
| | `DanglingIsHarmless` | `DanglingChangesNoWatch` |
| | `NoUpdateIsLost` | `ReadIsCurrent` |
| | `DeathNeedsRemoval` | `DiesOnlyOfRemovals` |
| | `NoCreationIsLost` | `CreationIsKept` |
| `MessagesProofs` | `HandledWhole` | `HandledAsSent` |
| | `NoOtherCommandRuns` | `RunsWhatWasAsked` |
| | `ErrorsAreShown` | `ErrorIsNotShownAsOk` |
| | `OwnCodesAreNamed` | `DiesOnlyOfStrangers` |
| `RestartProofs` | `TypeCorrect` | types |
| | `Reachability` | `ListeningIsReachable` |
| | `CleanEndsLeaveNoFile` | `OnlyCrashesLeaveFiles` |
| | `NoSecondInstanceWithoutCrash` | `SecondInstanceNeedsCrash` |
| | `NobodyWaitsInVain` | `WaitingHasAcceptor` * |
| `ConfigFileProofs` | `TypeCorrect` | types |
| | `DeathNeedsCreator` | `DiesOnlyOfCreation` |
| | `EditsAreKept` | `EditsSurvive` |

So every safety property and refinement that a passing run checks is proved as well.
The properties marked * are proved only, as the runs check what has them in it:
`SingleInstance` follows from `LiveProcessRegistered`, `ReplyOnce` and
`AddOkMeansRunning` say in the daemon's own terms what `Supervisor` says of its
answers, `AnsweredAfterBoth` and `AnswerIsCommon` what `CommonAnswer` says, and the
other three are the safety part of a liveness property (below). The refinement of
`Supervisor` under `JointSpec` is proved only, too; `safety` checks it under `Spec`.
Each module's `Invariance` is the inductive invariant the others rest on; for joint
commands there are three that build on one another, `JointInvariance`,
`ManagerInvariance` and `HalvesInvariance`.

**The registry.** None of the properties of `MonitorManager` is inductive by itself.
That a live process is never forgotten needs that an entry's process, if it has one,
is that of the add whose timer it owns; otherwise an exit handler could empty the slot
of a successor. So the invariant `Inv` says

- `EntriesOwned`: an entry's timer belongs to an add of that key which launched a
  process; its process is null or that add's; it has a process or a socket; it is
  never confirmed;
- `TimersOwned`: an armed timer is owned by the entry of its key, an aborted one by
  no entry any more;
- `OperationPhases`: an add in progress has launched its process, only an add has, and
  an operation that is not done is unanswered;
- `LiveProcessRegistered` and `DropNeedsSuccessor`, which the above make inductive.

Two facts about the registry carry most steps: removals only shrink it
(`ShrinkingKeepsOwners`) and flags leave owners alone (`FlagsKeepOwners`). The step
lemmas follow the groups of the next-state relation (`DispatchSafe`, `AddTimerSafe`,
`ExitSafe`, `StopSafe`, `InotifySafe`, `EnvironmentSafe`), and `DropNeedsSuccessor`
rests on this: an aborted timer that finds an entry finds one it does not own, hence
one of another add. `RegistryProofs` adds that the creation of a socket that is gone
is followed by its removal in the queue (`CreationsAreUndone`), without which a
registration could come with no removal to undo it. That an add always has a timer to
come follows from the ways a timer ends: its handler runs and ends the add, or its
destruction queues the handler (`WaitsKept`). That a reported exit unregisters follows
from `LiveProcessRegistered`, by which the entry of its class holds that process, and
from `EntriesOwned`, by which no other entry does.

**Joint commands.** `ResponsesCounted` relates the first response and the common
answer to what the halves have replied, `SecondHalfWaits` keeps the second operation
of a request for a joint command, and `StatusAtOnce` says that the halves of a status
end in their dispatch, so that the order of posting is the order of responses.

For the composition, every joint step is a step of `MonitorManager`, or one of two
that are the completion's own (`StepsOfTheManager`): the scraper's half is posted, or
the common response throws. These two disturb none of the registry's invariants
(`CompletionKeepsManager`), so `ManagerInv` holds with joint commands too, and with it
every promise of `MonitorManager`, its refinement of `Supervisor` included. The step
lemmas of `MonitorManagerProofs` and `RegistryProofs` are used as they stand. The link
is `ClassKnown`: a joint command keeps the class it was posted with, so that a half's
key is one of `MonitorManager`'s.

`HalvesWork` follows what each half does to its key: an add's half that goes on or is
answered OK has launched under its own kind and the request's class, a stop's half has
launched nothing and works on the same key. `OkMeansBothCarriedOut` is that and the
common answer. `JointIsDriven` joins it with `PendingAddHasTimer` and
`ResponsesCounted`: when no half is in progress and none ended unanswered, both have
answered, and then the client has been answered, too.

**Connection.** `ReadEndsTimer`: once a read has completed, its timer is not armed,
and one that had expired by then is among `late`; with it `OpenUnlessLate` and
`LivesUnlessLate` are inductive, and `CarriedOnce` makes the refinement go through.
`ReadsAreTimed` is inductive over the types: whatever closes an endpoint or ends a
timer, a dangling timeout on another connection included, ends the read with it.

**The configuration watches.** `Inv` joins the types with `DescriptorsUsed` (what was
dropped never comes back), `BatchOnly` (events are kept for one batch only),
`LiveOrDropped` and `LinkedIsLive` (the two halves of `MarksAgree`, the first over the
drops in buffer and queue), and `MapsAgree`. Three further invariants rest on it:
`DirectoriesStay` (the events of a directory's watch find it in the list),
`ReadInv` (a watched file was read since its last change, or has not changed since the
constructor found it, or an IN_MODIFY of its watch is among the events, or it is about
to be read) and `Pristine`: while nothing was
removed, the directories that events say were created are all different and none of
them is watched, so that no Add meets a path it has. `NoCreationIsLost` adds
`DirectoriesMarked` (while no directory was removed, their watches keep their marks, so
the library does not drop their events at delivery) and `ReadingWatched` (a file
about to be read was given its watch first).

**Messages, restarts, the file.** `Conversion` says what an integer of any width
becomes, and the invariant follows a code through its conversions. `RestartProofs`
needs that a daemon counts its shutdowns (`ShutdownsCounted`) and that a running child
has a daemon that has not returned (`ChildHasParent`); then two daemons that are up
would both own the one file. `UpAccepts` says that a daemon that is up has an accept
under way or one that failed; it cuts its backlog off in the step that ends this.
`ConfigFileProofs` needs that the file is empty only while somebody is writing it or
was killed at it (`EmptyIsBeingWritten`), that it is there for whoever writes it
(`WrittenIsThere`) and, until it is removed, for whoever reads it (`ReadIsThere`), and
that all who may still write over a saved file had looked for it before the save
(`WritersAreUnaware`); the two action properties follow from it step by step.

**Only model-checked** are the liveness properties, which TLAPS cannot prove under
fairness. For most of them the part that is safety, that nothing is left with nobody
to go on with it, is an invariant or an action property of its own, and proved:

| Liveness, by TLC | Safety part, proved |
|---|---|
| `EveryRequestCompletes` | `PendingAddHasTimer` |
| `ExitIsRegistered` | `ExitUnregisters` |
| `JointCompletes` | `JointIsDriven` |
| `CreatedIsMonitored` | `CreationIsKept` |
| `EveryConnectionIsReleased`, `EveryClientIsTold` | `ReadsAreTimed` |
| `WaitingIsServed` | `WaitingHasAcceptor` |
| `ShutdownReturns`, `SendsEnd` | none |

## 5. Findings

Each is a run in which TLC finds what a comment or message of the code excludes.

| Run | What the code says | What it does |
|---|---|---|
| `case_two` | "THIS CASE (2) SHOULD NOT HAVE HAPPENED" (`callbacks.cpp:261`) | the timer's handler reaps a dead process; the entry keeps it, and is marked as being added for good |
| `exit_cancels_timer` | an exit cancels the timer (`callbacks.cpp:206`) | not when the entry has a socket; the handler then follows a null `p_process` |
| `socket_cancels_timer` | a socket cancels the timer and confirms the add (`callbacks.cpp:209`) | never |

The models show other behaviour that a maintainer may not expect, without a run of
its own, as the properties above name it as an exception or allow it:

- "THIS CASE (1) SHOULD NOT HAVE HAPPENED" (`callbacks.cpp:248`) does happen: an
  expired timer whose handler is queued outlives its entry (`AddTimerFindsNoEntry`).
- An add may be told OK on account of a successor's process (`AddOkMeansRunning` says
  "a process of its class"), or nothing when its aborted timer finds a successor's
  entry (`DropNeedsSuccessor`).
- A stop whose answer times out is answered with OK (`StopRead`).
- A monitor that answers a joint stop with a code that has no name ends the daemon
  (`CommonResponseThrows`).
- A change of a watched file sends the default command, PING, and not the one of its
  name: the event of a watch on a file has none (`CommandFor`).
- A configuration file that is there when the daemon starts is watched and not read:
  nothing is sent of it before its next change (`Scan`).
- A file replaced by rename stays in the list without a mark, so that it is read once
  more when it is created again and not watched any more.
- A configuration directory made while the daemon runs is watched, and the files that
  were made in it before the watch are missed.
- A path removed and its event handled before IN_IGNORED is read ends the daemon by an
  exception (`HandleDeleted`); so does a directory made during the constructor.
- Two commands to shut down one daemon can remove the socket file of the next one, and
  a debug build that of a daemon that runs (`Restart`).

## 6. Hazards without a property, and what is not modelled

Hazards that PROJECT.json lists without a property:

- `p_isBeingStopped` is never cleared: the model keeps it so, and no comment says a
  second stop should work.
- The buffer of a write is a temporary's: it is read at once unless the socket's
  buffer is full, which these messages do not fill.
- The replaced file, the PING, the stop that timed out and the unknown code that ends
  the daemon, all above: the models do what the code does, and there is no statement in
  the repository to check it against.
- `connect()` blocks when a monitor's backlog is full: the models take it to return
  at once, as how full a backlog is lies outside the repository.

Hazards that a property bounds and does not exclude: the code is exposed to them, the
model goes through them, and the property names them as its exception, so that it shows
that nothing *else* has the effect. PROJECT.json says so in a note at each.

| Hazard | Named by |
|---|---|
| the `connect()` of a stop throws on a stale socket (`callbacks.cpp:389`) | `EveryRequestCompletes` |
| an add that is read after the shutdown (`callbacks.cpp:62`) | `ShutdownReturns` |
| monitors of an earlier daemon, or of one whose file was taken (`moman.cpp:89`, `server.cpp:31`, `34`, `94`) | `SecondInstanceNeedsCrash`, `ListeningIsReachable` |
| an accept that fails (`server.cpp:53`) | `WaitingIsServed` |
| a timeout that is queued when its read completes, or when its connection goes (`connection.cpp:47`, `42`) | `OnlyLateTimeoutsDisturb` |
| deaths by a removed path or an early directory, and by a pointer that dangles (`moman.cpp:105`, `133`, `163`, `213`) | `DiesOnlyOfRemovals` |
| files of a directory that was removed, or made before its watch (`moman.cpp:163`, `212`) | `CreationIsKept`, `CreatedIsMonitored` |
| an answer's unknown code that wraps to OK (`msg.cpp:29`) | `ErrorIsNotShownAsOk` |

Not modelled:

- **Contents**: status answers, logging, settings and payloads beyond whether they fit
  the buffer; the database beyond its answers; memory exhaustion.
- **Partial writes**, and reads in several pieces: a message is written at once, and
  read at its end or at 1024 bytes.
- **Hard links, moves into and out of** the configuration directory, names directly in
  its root other than the subdirectories, its own removal; limits and overflow of
  inotify's queue; a path that changes between the scan's `is_directory` and its Add.
- **Functions of the inotify wrapper nobody calls** (`WaitForEvents`, `PeekEvent`,
  masks, capabilities and their names) and its locks, which are compiled out. Hence
  this component is "partly" modelled.
- **`Connection::quickWriteCmd`**, which nobody calls.
- **Monitors and scrapers** are outside the repository: they are the models'
  environment, which does what it likes.
- **The daemon's directories**: that the scan and the server use the socket path of
  the configuration, and that `stopmm` finds it.

The whole daemon as one composition (registry, connections, configuration watches
together) is out of TLC's reach; the models meet at the interfaces of section 2.
