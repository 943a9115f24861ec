------------------------- MODULE MonitorManagerProofs -------------------------
(***************************************************************************)
(* Proofs about MonitorManager, for every set of keys and operations and   *)
(* every bound on the inotify queue.                                       *)
(***************************************************************************)
EXTENDS MonitorManager, TLAPS

-----------------------------------------------------------------------------
(* The operations on the registry.                                         *)

\* An entry that onAdd leaves behind is held by the operation that launched.
LEMMA LaunchedEntry ==
    ASSUME NEW entry \in StoredObject \cup {Absent}, NEW o \in Op
    PROVE  /\ Launched(entry, o) \in StoredObject
           /\ Launched(entry, o) # Absent
           /\ Launched(entry, o).process = o
           /\ Launched(entry, o).onAddTimer = o
           /\ Launched(entry, o).confirmAdded =
                IF entry = Absent THEN FALSE ELSE entry.confirmAdded
  BY StoredObjectsAssumption DEF Launched, NewStoredObject, StoredObject

\* Setting flags of an entry leaves the registry typed and the entry otherwise as it was.
LEMMA FlagsSet ==
    ASSUME NEW map \in Registry, NEW k \in Key, map[k] # Absent, NEW b \in BOOLEAN, NEW c \in BOOLEAN
    PROVE  /\ [map EXCEPT ![k].endpoint = b] \in Registry
           /\ [map EXCEPT ![k].isBeingAdded = b] \in Registry
           /\ [map EXCEPT ![k].isBeingStopped = b] \in Registry
           /\ [map EXCEPT ![k].isBeingAdded = b, ![k].confirmAdded = c] \in Registry
<1>1. map[k] \in StoredObject
  BY DEF Registry
<1>2. /\ [map[k] EXCEPT !.endpoint = b] \in StoredObject
      /\ [map[k] EXCEPT !.isBeingAdded = b] \in StoredObject
      /\ [map[k] EXCEPT !.isBeingStopped = b] \in StoredObject
      /\ [map[k] EXCEPT !.isBeingAdded = b, !.confirmAdded = c] \in StoredObject
  BY <1>1 DEF StoredObject
<1>3. ASSUME NEW entry \in StoredObject PROVE [map EXCEPT ![k] = entry] \in Registry
  BY DEF Registry
<1>4. [map EXCEPT ![k].isBeingAdded = b, ![k].confirmAdded = c]
      = [map EXCEPT ![k] = [map[k] EXCEPT !.isBeingAdded = b, !.confirmAdded = c]]
  BY DEF Registry
<1> QED BY <1>2, <1>3, <1>4

\* What a change of flags leaves alone.
Flagged(before, after) ==
    \A k \in Key :
        /\ after[k] = Absent <=> before[k] = Absent
        /\ before[k] # Absent => /\ after[k].process = before[k].process
                                 /\ after[k].onAddTimer = before[k].onAddTimer
                                 /\ before[k].endpoint => after[k].endpoint
                                 /\ after[k].confirmAdded => before[k].confirmAdded

\* The flags the handlers set, of an entry they have found.
LEMMA FlagsKeep ==
    ASSUME NEW map \in Registry, NEW k \in Key, map[k] # Absent
    PROVE  /\ Flagged(map, [map EXCEPT ![k].endpoint = TRUE])
           /\ Flagged(map, [map EXCEPT ![k].isBeingAdded = FALSE])
           /\ Flagged(map, [map EXCEPT ![k].isBeingStopped = TRUE])
           /\ Flagged(map, [map EXCEPT ![k].isBeingAdded = FALSE, ![k].confirmAdded = FALSE])
<1>1. map[k] \in StoredObject
  BY DEF Registry
<1>2. ASSUME NEW entry \in StoredObject,
             entry.process = map[k].process, entry.onAddTimer = map[k].onAddTimer,
             map[k].endpoint => entry.endpoint, entry.confirmAdded => map[k].confirmAdded
      PROVE  Flagged(map, [map EXCEPT ![k] = entry])
  BY <1>2, StoredObjectsAssumption DEF Flagged, Registry
<1>3. Flagged(map, [map EXCEPT ![k].endpoint = TRUE])
  <2>1. [map[k] EXCEPT !.endpoint = TRUE] \in StoredObject
    BY <1>1 DEF StoredObject
  <2> QED BY <1>1, <1>2, <2>1 DEF StoredObject
<1>4. Flagged(map, [map EXCEPT ![k].isBeingAdded = FALSE])
  <2>1. [map[k] EXCEPT !.isBeingAdded = FALSE] \in StoredObject
    BY <1>1 DEF StoredObject
  <2> QED BY <1>1, <1>2, <2>1 DEF StoredObject
<1>5. Flagged(map, [map EXCEPT ![k].isBeingStopped = TRUE])
  <2>1. [map[k] EXCEPT !.isBeingStopped = TRUE] \in StoredObject
    BY <1>1 DEF StoredObject
  <2> QED BY <1>1, <1>2, <2>1 DEF StoredObject
<1>6. Flagged(map, [map EXCEPT ![k].isBeingAdded = FALSE, ![k].confirmAdded = FALSE])
  <2> DEFINE entry == [map[k] EXCEPT !.isBeingAdded = FALSE, !.confirmAdded = FALSE]
  <2>1. /\ entry \in StoredObject
        /\ entry.process = map[k].process /\ entry.onAddTimer = map[k].onAddTimer
        /\ entry.endpoint = map[k].endpoint /\ ~entry.confirmAdded
    BY <1>1 DEF StoredObject
  <2>2. [map EXCEPT ![k].isBeingAdded = FALSE, ![k].confirmAdded = FALSE]
        = [map EXCEPT ![k] = entry]
    BY DEF Registry
  <2> QED BY <1>2, <2>1, <2>2
<1> QED BY <1>3, <1>4, <1>5, <1>6

\* Removing a socket erases the entry, if it has no process, or keeps all the rest.
LEMMA SocketRemoved ==
    ASSUME NEW map \in Registry, NEW k \in Key, map[k] # Absent
    PROVE  LET after == RemoveStoredSocket(map, k) IN
           /\ after \in Registry
           /\ \A j \in Key \ {k} : after[j] = map[j]
           /\ after[k] = Absent => map[k].process = None
           /\ after[k] # Absent => /\ after[k].process = map[k].process
                                   /\ after[k].process # None
                                   /\ after[k].onAddTimer = map[k].onAddTimer
                                   /\ after[k].confirmAdded = map[k].confirmAdded
  BY StoredObjectsAssumption DEF RemoveStoredSocket, Registry, StoredObject

\* Removing a process erases the entry, if it has no socket, or keeps all the rest.
LEMMA ProcessRemoved ==
    ASSUME NEW map \in Registry, NEW k \in Key, map[k] # Absent
    PROVE  LET after == RemoveStoredProcess(map, k) IN
           /\ after \in Registry
           /\ \A j \in Key \ {k} : after[j] = map[j]
           /\ after[k] # Absent => /\ after[k].process = None
                                   /\ after[k].endpoint
                                   /\ after[k].onAddTimer = map[k].onAddTimer
                                   /\ after[k].confirmAdded = map[k].confirmAdded
  BY StoredObjectsAssumption DEF RemoveStoredProcess, Registry, StoredObject

\* After the shutdown no entry has a process; the entries with a socket are left.
LEMMA ProcessesTerminated ==
    ASSUME NEW map \in Registry
    PROVE  LET after == TerminateProcesses(map) IN
           /\ after \in Registry
           /\ \A k \in Key : map[k] = Absent => after[k] = Absent
           /\ \A k \in Key : after[k] # Absent =>
                 /\ after[k].process = None
                 /\ map[k].process # None => after[k].endpoint
                 /\ map[k].process = None => after[k] = map[k]
                 /\ after[k].onAddTimer = map[k].onAddTimer
                 /\ after[k].confirmAdded = map[k].confirmAdded
<1> DEFINE after == TerminateProcesses(map)
<1>1. ASSUME NEW k \in Key, HasProcess(map, k)
      PROVE  /\ after[k] = RemoveStoredProcess(map, k)[k]
             /\ map[k] # Absent
  BY <1>1 DEF TerminateProcesses, HasProcess
<1>2. ASSUME NEW k \in Key, ~HasProcess(map, k)
      PROVE  after[k] = map[k]
  BY <1>2 DEF TerminateProcesses
<1>3. after = [k \in Key |-> after[k]]
  BY DEF TerminateProcesses
<1>4. ASSUME NEW k \in Key
      PROVE  after[k] \in StoredObject \cup {Absent}
  <2>1. CASE HasProcess(map, k)
    BY <1>1, <2>1, ProcessRemoved DEF Registry
  <2>2. CASE ~HasProcess(map, k)
    BY <1>2, <2>2 DEF Registry
  <2> QED BY <2>1, <2>2
<1>5. after \in Registry
  BY <1>3, <1>4 DEF Registry
<1>6. ASSUME NEW k \in Key
      PROVE  /\ map[k] = Absent => after[k] = Absent
             /\ after[k] # Absent =>
                 /\ after[k].process = None
                 /\ map[k].process # None => after[k].endpoint
                 /\ map[k].process = None => after[k] = map[k]
                 /\ after[k].onAddTimer = map[k].onAddTimer
                 /\ after[k].confirmAdded = map[k].confirmAdded
  <2>1. CASE HasProcess(map, k)
    BY <1>1, <2>1, ProcessRemoved DEF HasProcess
  <2>2. CASE ~HasProcess(map, k)
    BY <1>2, <2>2 DEF HasProcess
  <2> QED BY <2>1, <2>2
<1> QED BY <1>5, <1>6

-----------------------------------------------------------------------------
(* Types.                                                                  *)

\* An update of the registry leaves every timer in a state it can be in.
LEMMA TimersTyped ==
    ASSUME TypeOK, NEW registry
    PROVE  TimersAfter(registry) \in [Op -> TimerState]
  BY DEF TypeOK, TimersAfter, TimerState

\* An answer ends the operation and is one more in its replies.
LEMMA ReplyTyped ==
    ASSUME TypeOK, NEW o \in Op, NEW answer \in Answer, Reply(o, answer)
    PROVE  replies' \in [Op -> Seq(Answer)] /\ phase' \in [Op -> Phase]
  BY DEF TypeOK, Reply, Phase

\* An operation that has launched a process or is stopping one works on a key.
KeyKnown ==
    \A o \in Op :
        \/ timer[o] # "none"
        \/ proc[o] # "none"
        \/ phase[o] \in {"adding", "stopWrite", "stopRead"}
        => keyOf[o] \in Key

Typed == TypeOK /\ KeyKnown

\* An update of the registry starts no timer.
LEMMA TimersStopped ==
    ASSUME TypeOK, NEW registry, NEW o \in Op
    PROVE  /\ timer[o] = "none" <=> TimersAfter(registry)[o] = "none"
           /\ TimersAfter(registry)[o] \in {timer[o], "aborted"}
  BY DEF TypeOK, TimersAfter, TimerState

\* Init is typed because the socket files it allows are.
LEMMA InitTyped == Init => Typed
  BY MonitorManagerAssumption
  DEF Init, Typed, TypeOK, KeyKnown, Mode, Registry, Phase, TimerState, ProcessState

\* Dispatching a command keeps the types.
LEMMA DispatchTyped ==
    ASSUME Typed, NEW o \in Op, Dispatch(o)
    PROVE  Typed'
<1> USE DEF Typed, TypeOK
<1>1. CASE ReadFails(o)
  BY <1>1 DEF ReadFails, Phase, KeyKnown
<1>2. CASE Unrecognised(o) \/ AddRefused(o) \/ StopRefused(o) \/ OnPing(o) \/ OnGetStatus(o)
  <2>1. PICK answer \in Answer : Reply(o, answer)
    BY <1>2 DEF Unrecognised, AddRefused, StopRefused, OnPing, OnGetStatus, Answer
  <2>2. UNCHANGED <<mode, stored, keyOf, timer, proc, sock, events>>
    BY <1>2 DEF Unrecognised, AddRefused, StopRefused, OnPing, OnGetStatus
  <2> QED BY <2>1, <2>2, ReplyTyped DEF Reply, KeyKnown
<1>3. CASE CommandThrows(o)
  BY <1>3 DEF CommandThrows, Mode, KeyKnown
<1>4. CASE Shutdown(o)
  <2>1. stored' \in Registry /\ timer' \in [Op -> TimerState]
    BY <1>4, ProcessesTerminated, TimersTyped DEF Shutdown, UpdateRegistry
  <2>2. replies' \in [Op -> Seq(Answer)] /\ phase' \in [Op -> Phase]
    BY <1>4, ReplyTyped DEF Shutdown, Answer
  <2>3. mode' \in Mode /\ events' \in Seq(Event) /\ proc' \in [Op -> ProcessState]
    BY <1>4 DEF Shutdown, Mode, ProcessState
  <2>4. KeyKnown'
    BY <1>4, TimersStopped DEF Shutdown, UpdateRegistry, Reply, KeyKnown
  <2> QED BY <1>4, <2>1, <2>2, <2>3, <2>4 DEF Shutdown
<1>5. ASSUME NEW k \in Key, OnAdd(o, k) PROVE Typed'
  <2>1. stored' \in Registry
    BY <1>5, LaunchedEntry DEF OnAdd, Registry
  <2> QED BY <1>5, <2>1 DEF OnAdd, Phase, TimerState, ProcessState, KeyKnown
<1>6. ASSUME NEW k \in Key, OnStop(o, k) \/ StopThrows(o, k) PROVE Typed'
  <2>1. stored[k] # Absent /\ stored' = [stored EXCEPT ![k].isBeingStopped = TRUE]
    BY <1>6 DEF OnStop, StopThrows, CanStop, HasEndpoint
  <2>2. stored' \in Registry
    BY <2>1, FlagsSet
  <2> QED BY <1>6, <2>2 DEF OnStop, StopThrows, Phase, Mode, KeyKnown
<1> QED BY <1>1, <1>2, <1>3, <1>4, <1>5, <1>6 DEF Dispatch

\* So does the handler of a delay timer, whatever it finds.
LEMMA AddTimerTyped ==
    ASSUME Typed, NEW o \in Op, AddTimer(o)
    PROVE  Typed'
<1> USE DEF Typed, TypeOK
<1> DEFINE k == keyOf[o]
<1>1. k \in Key
  BY DEF AddTimer, AddTimerAborted, AddTimerFindsNoEntry, AddTimerFindsNoProcess,
         AddTimerFindsRunning, AddTimerFindsDead, HandleExpiry, KeyKnown
<1>2. CASE AddTimerAborted(o)
  <2>1. replies' \in [Op -> Seq(Answer)] /\ phase' \in [Op -> Phase]
    BY <1>2, ReplyTyped DEF AddTimerAborted, Answer, Phase
  <2>2. stored' \in Registry
    <3>1. CASE stored[k] = Absent
      BY <1>2, <3>1 DEF AddTimerAborted
    <3>2. CASE stored[k] # Absent
      <4>1. stored' = [stored EXCEPT ![k].isBeingAdded = FALSE, ![k].confirmAdded = FALSE]
        BY <1>2, <3>2 DEF AddTimerAborted
      <4> QED BY <1>1, <3>2, <4>1, FlagsSet
    <3> QED BY <3>1, <3>2
  <2>3. KeyKnown'
    BY <1>2 DEF AddTimerAborted, Reply, KeyKnown
  <2> QED BY <1>2, <2>1, <2>2, <2>3 DEF AddTimerAborted, TimerState
<1>3. CASE AddTimerFindsNoEntry(o)
  BY <1>3, ReplyTyped
  DEF AddTimerFindsNoEntry, HandleExpiry, Answer, TimerState, Reply, KeyKnown
<1>4. CASE AddTimerFindsNoProcess(o)
  BY <1>4 DEF AddTimerFindsNoProcess, HandleExpiry, Mode, TimerState, KeyKnown
<1>5. CASE AddTimerFindsRunning(o)
  <2>1. stored' \in Registry
    BY <1>1, <1>5, FlagsSet DEF AddTimerFindsRunning, HasProcess
  <2> QED BY <1>5, <2>1, ReplyTyped
      DEF AddTimerFindsRunning, HandleExpiry, Answer, TimerState, Reply, KeyKnown
<1>6. CASE AddTimerFindsDead(o)
  <2>1. /\ proc' \in [Op -> ProcessState]
        /\ \A p \in Op : proc[p] = "none" => proc'[p] = "none"
    BY <1>6 DEF AddTimerFindsDead, Reap, ProcessState
  <2> QED BY <1>6, <2>1, ReplyTyped
      DEF AddTimerFindsDead, HandleExpiry, Answer, TimerState, Reply, KeyKnown
<1> QED BY <1>2, <1>3, <1>4, <1>5, <1>6 DEF AddTimer

\* So does the handler of an exit.
LEMMA ExitTyped ==
    ASSUME Typed, NEW o \in Op, ExitHandler(o)
    PROVE  Typed'
<1> USE DEF Typed, TypeOK
<1>1. CASE OnProcessExit(o)
  <2>1. keyOf[o] \in Key
    BY <1>1 DEF OnProcessExit, KeyKnown
  <2>2. stored' \in Registry /\ timer' \in [Op -> TimerState]
    BY <1>1, <2>1, ProcessRemoved, TimersTyped DEF OnProcessExit, UpdateRegistry
  <2>3. KeyKnown'
    BY <1>1, TimersStopped DEF OnProcessExit, UpdateRegistry, KeyKnown
  <2> QED BY <1>1, <2>2, <2>3 DEF OnProcessExit, ProcessState
<1>2. CASE OnProcessExitError(o)
  BY <1>2 DEF OnProcessExitError, ProcessState, KeyKnown
<1> QED BY <1>1, <1>2 DEF ExitHandler

\* So do the two completions of a stop.
LEMMA StopTyped ==
    ASSUME Typed, NEW o \in Op, StopCompletion(o)
    PROVE  Typed'
<1> USE DEF Typed, TypeOK
<1>1. ASSUME NEW written \in BOOLEAN, StopWritten(o, written) PROVE Typed'
  <2>1. keyOf[o] \in Key
    BY <1>1 DEF StopWritten, KeyKnown
  <2>2. stored' \in Registry /\ timer' \in [Op -> TimerState]
    BY <1>1, <2>1, SocketRemoved, TimersTyped DEF StopWritten, UpdateRegistry
  <2>3. replies' \in [Op -> Seq(Answer)] /\ phase' \in [Op -> Phase]
    BY <1>1, ReplyTyped DEF StopWritten, Answer, Phase
  <2>4. KeyKnown'
    BY <1>1, <2>1, TimersStopped DEF StopWritten, UpdateRegistry, Reply, KeyKnown
  <2> QED BY <1>1, <2>2, <2>3, <2>4 DEF StopWritten
<1>2. ASSUME NEW read \in Answer \cup {"failed"}, StopRead(o, read) PROVE Typed'
  <2>1. StopAnswer(read) \in Answer
    BY DEF StopAnswer, Answer
  <2> QED BY <1>2, <2>1, ReplyTyped DEF StopRead, Reply, KeyKnown
<1> QED BY <1>1, <1>2 DEF StopCompletion

\* So do the inotify events.
LEMMA InotifyTyped ==
    ASSUME Typed, OnInotifyUpdate
    PROVE  Typed'
<1> USE DEF Typed, TypeOK
<1>1. PICK k \in Key : OnSocketCreated(k) \/ OnSocketDeleted(k)
  BY DEF OnInotifyUpdate
<1>2. Tail(events) \in Seq(Event)
  BY <1>1 DEF OnSocketCreated, OnSocketDeleted, NextEvent
<1>3. CASE OnSocketCreated(k)
  <2>1. stored' \in Registry
    <3>1. \/ stored' = stored
          \/ /\ stored[k] # Absent
             /\ stored' = [stored EXCEPT ![k].endpoint = TRUE]
      BY <1>3 DEF OnSocketCreated
    <3>2. stored[k] # Absent => [stored EXCEPT ![k].endpoint = TRUE] \in Registry
      BY FlagsSet
    <3> QED BY <3>1, <3>2
  <2> QED BY <1>2, <1>3, <2>1 DEF OnSocketCreated, NextEvent, KeyKnown
<1>4. CASE OnSocketDeleted(k)
  <2>1. stored' \in Registry /\ timer' \in [Op -> TimerState]
    BY <1>4, SocketRemoved, TimersTyped DEF OnSocketDeleted, UpdateRegistry
  <2>2. KeyKnown'
    BY <1>4, TimersStopped DEF OnSocketDeleted, NextEvent, UpdateRegistry, KeyKnown
  <2> QED BY <1>2, <1>4, <2>1, <2>2 DEF OnSocketDeleted, NextEvent
<1> QED BY <1>1, <1>3, <1>4

\* So does everything outside the daemon.
LEMMA EnvironmentTyped ==
    ASSUME Typed, Environment
    PROVE  Typed'
<1> USE DEF Typed, TypeOK
<1>1. ASSUME NEW o \in Op, Accept(o) PROVE Typed'
  BY <1>1 DEF Accept, Phase, KeyKnown
<1>2. ASSUME NEW o \in Op, TimerExpires(o) PROVE Typed'
  BY <1>2 DEF TimerExpires, TimerState, KeyKnown
<1>3. ASSUME NEW o \in Op, ProcessExits(o) PROVE Typed'
  BY <1>3 DEF ProcessExits, ProcessState, KeyKnown
<1>4. ASSUME NEW k \in Key, SocketAppears(k) \/ SocketVanishes(k) \/ SocketAbandoned(k)
      PROVE  Typed'
  <2>1. ASSUME NEW type \in {"IN_CREATE", "IN_DELETE"}, Notify(k, type)
        PROVE  events' \in Seq(Event)
    <3>1. [key |-> k, type |-> type] \in Event
      BY DEF Event
    <3> QED BY <2>1, <3>1 DEF Notify
  <2>2. events' \in Seq(Event)
    BY <1>4, <2>1 DEF SocketAppears, SocketVanishes, SocketAbandoned
  <2> QED BY <1>4, <2>2
      DEF SocketAppears, SocketVanishes, SocketAbandoned, SocketState, KeyKnown
<1> QED BY <1>1, <1>2, <1>3, <1>4 DEF Environment

\* Every step keeps the types.
LEMMA NextTyped == Typed /\ [Next]_vars => Typed'
<1> SUFFICES ASSUME Typed, [Next]_vars PROVE Typed'
  OBVIOUS
<1>1. CASE Return
  BY <1>1 DEF Return, Typed, TypeOK, KeyKnown, Mode
<1>2. CASE UNCHANGED vars
  BY <1>2 DEF vars, Typed, TypeOK, KeyKnown
<1> QED BY <1>1, <1>2, DispatchTyped, AddTimerTyped, ExitTyped, StopTyped, InotifyTyped,
           EnvironmentTyped DEF Next, Daemon

\* TypeOK holds of every behaviour of the daemon, whatever its environment does.
THEOREM TypeCorrect == Spec => []TypeOK
<1>1. Spec => []Typed
  BY InitTyped, NextTyped, PTL DEF Spec
<1>2. Typed => TypeOK
  BY DEF Typed
<1> QED BY <1>1, <1>2, PTL

-----------------------------------------------------------------------------
(* The inductive invariant.                                                *)

\* An entry belongs to the add that launched its process and owns its timer, is
\* never confirmed, and is never empty.
EntriesOwned ==
    \A k \in Key : stored[k] # Absent =>
        /\ stored[k].onAddTimer \in Op
        /\ keyOf[stored[k].onAddTimer] = k
        /\ proc[stored[k].onAddTimer] # "none"
        /\ stored[k].process \in {None, stored[k].onAddTimer}
        /\ stored[k].process # None \/ stored[k].endpoint
        /\ ~stored[k].confirmAdded

\* A timer that is armed is owned by the entry of its key, one that was aborted by
\* no entry any more.
TimersOwned ==
    \A o \in Op :
        /\ timer[o] = "armed" => /\ stored[keyOf[o]] # Absent
                                 /\ stored[keyOf[o]].onAddTimer = o
        /\ timer[o] = "aborted" => \A k \in Key : stored[k] # Absent =>
                                       stored[k].onAddTimer # o
        /\ timer[o] # "none" => phase[o] = "adding"

\* Only an add has launched a process, and an operation that goes on is unanswered.
OperationPhases ==
    \A o \in Op :
        /\ proc[o] # "none" => phase[o] \in {"adding", "done"}
        /\ phase[o] = "adding" => proc[o] # "none"
        /\ phase[o] # "done" => replies[o] = <<>>
        /\ Len(replies[o]) <= 1

Inv ==
    /\ Typed
    /\ EntriesOwned
    /\ TimersOwned
    /\ OperationPhases
    /\ LiveProcessRegistered
    /\ DropNeedsSuccessor

\* What an update of the registry may do to the entries that survive it.
Shrinks(registry) ==
    \A k \in Key : registry[k] # Absent =>
        /\ stored[k] # Absent
        /\ registry[k].onAddTimer = stored[k].onAddTimer
        /\ registry[k].confirmAdded = stored[k].confirmAdded
        /\ registry[k].process \in {None, stored[k].process}
        /\ registry[k].process # None \/ registry[k].endpoint

\* The removal of sockets and processes keeps entries and timers together.
LEMMA ShrinkingKeepsOwners ==
    ASSUME Typed, EntriesOwned, TimersOwned,
           NEW registry, Shrinks(registry), UpdateRegistry(registry),
           UNCHANGED keyOf,
           \A o \in Op : proc[o] # "none" => proc'[o] # "none",
           \A o \in Op : phase[o] = "adding" => phase'[o] = "adding"
    PROVE  EntriesOwned' /\ TimersOwned'
<1>1. EntriesOwned'
  <2>1. ASSUME NEW k \in Key, stored'[k] # Absent
        PROVE  /\ stored[k] # Absent
               /\ stored'[k].onAddTimer = stored[k].onAddTimer
               /\ stored'[k].confirmAdded = stored[k].confirmAdded
               /\ stored'[k].process \in {None, stored[k].process}
               /\ stored'[k].process # None \/ stored'[k].endpoint
    BY <2>1 DEF UpdateRegistry, Shrinks
  <2> QED BY <2>1 DEF EntriesOwned
<1>2. ASSUME NEW o \in Op, timer'[o] = "armed"
      PROVE  /\ stored'[keyOf'[o]] # Absent
             /\ stored'[keyOf'[o]].onAddTimer = o
  <2>1. PICK k \in Key : registry[k] # Absent /\ registry[k].onAddTimer = o
    BY <1>2 DEF UpdateRegistry, TimersAfter
  <2>2. stored[k] # Absent /\ stored[k].onAddTimer = o
    BY <2>1 DEF Shrinks
  <2>3. keyOf[o] = k
    BY <2>2 DEF EntriesOwned
  <2> QED BY <2>1, <2>3 DEF UpdateRegistry
<1>3. ASSUME NEW o \in Op, timer'[o] = "aborted", NEW k \in Key, stored'[k] # Absent
      PROVE  stored'[k].onAddTimer # o
  <2>1. stored[k] # Absent /\ stored'[k].onAddTimer = stored[k].onAddTimer
    BY <1>3 DEF UpdateRegistry, Shrinks
  <2>2. CASE timer[o] = "aborted"
    BY <2>1, <2>2 DEF TimersOwned
  <2>3. CASE timer[o] # "aborted"
    BY <1>3, <2>3 DEF UpdateRegistry, TimersAfter
  <2> QED BY <2>2, <2>3
<1>4. ASSUME NEW o \in Op, timer'[o] # "none"
      PROVE  phase'[o] = "adding"
  BY <1>4, TimersStopped DEF UpdateRegistry, TimersOwned, Typed
<1> QED BY <1>1, <1>2, <1>3, <1>4 DEF TimersOwned

\* A change of flags keeps them together too, and every process in its entry.
LEMMA FlagsKeepOwners ==
    ASSUME Inv, Flagged(stored, stored'),
           \A o \in Op :
              /\ proc'[o] = "none" <=> proc[o] = "none"
              /\ proc'[o] \in {"running", "exited"} => proc[o] \in {"running", "exited"}
              /\ proc[o] # "none" => keyOf'[o] = keyOf[o]
              /\ timer'[o] \in {timer[o], "none"}
              /\ timer'[o] # "none" => phase'[o] = "adding" /\ keyOf'[o] = keyOf[o]
    PROVE  EntriesOwned' /\ TimersOwned' /\ LiveProcessRegistered'
<1> USE DEF Inv, Flagged
<1>1. EntriesOwned'
  BY DEF EntriesOwned
<1>2. TimersOwned'
  BY DEF TimersOwned, Typed, KeyKnown
<1>3. LiveProcessRegistered'
  BY DEF LiveProcessRegistered, HasProcess, Typed, KeyKnown
<1> QED BY <1>1, <1>2, <1>3

\* An answer is the first of its operation, whose phase is then "done".
LEMMA ReplyOnceMore ==
    ASSUME Typed, OperationPhases, NEW o \in Op, NEW answer, Reply(o, answer), phase[o] # "done"
    PROVE  /\ replies'[o] = <<answer>>
           /\ replies'[o] # <<>>
           /\ Len(replies'[o]) = 1
           /\ phase'[o] = "done"
           /\ \A p \in Op \ {o} : replies'[p] = replies[p] /\ phase'[p] = phase[p]
<1>1. replies[o] = <<>>
  BY DEF OperationPhases
<1>2. replies'[o] = Append(<<>>, answer)
  BY <1>1 DEF Reply, Typed, TypeOK
<1>3. Append(<<>>, answer) = <<answer>> /\ <<answer>> # <<>> /\ Len(<<answer>>) = 1
  OBVIOUS
<1> QED BY <1>2, <1>3 DEF Reply, Typed, TypeOK

\* Nothing is stored, launched or answered at first.
LEMMA InitInv == Init => Inv
  BY InitTyped
  DEF Init, Inv, EntriesOwned, TimersOwned, OperationPhases, LiveProcessRegistered,
      DropNeedsSuccessor

Safe == EntriesOwned /\ TimersOwned /\ OperationPhases /\ LiveProcessRegistered /\ DropNeedsSuccessor

\* A launch dropped without an answer stays one, and so does its successor.
LEMMA DropsKept ==
    ASSUME Inv,
           \A o \in Op : proc[o] # "none" => proc'[o] # "none" /\ keyOf'[o] = keyOf[o],
           \A o \in Op : proc'[o] # "none" /\ phase'[o] = "done" /\ replies'[o] = <<>> =>
                             proc[o] # "none" /\ phase[o] = "done" /\ replies[o] = <<>>
    PROVE  DropNeedsSuccessor'
  BY DEF Inv, DropNeedsSuccessor

\* Answering a command that launched nothing, or not answering it, is safe.
LEMMA DispatchSafe ==
    ASSUME Inv, NEW o \in Op, Dispatch(o)
    PROVE  Safe'
<1> USE DEF Inv
<1>0. phase[o] = "accepted" /\ proc[o] = "none" /\ timer[o] = "none"
  <2>1. phase[o] = "accepted"
    BY DEF Dispatch, ReadFails, Unrecognised, OnPing, OnGetStatus, AddRefused, CommandThrows,
           StopRefused, Shutdown, OnAdd, OnStop, StopThrows, Dispatched
  <2> QED BY <2>1 DEF OperationPhases, TimersOwned
<1>1. CASE \/ ReadFails(o) \/ Unrecognised(o) \/ AddRefused(o) \/ StopRefused(o) \/ OnPing(o)
           \/ OnGetStatus(o) \/ CommandThrows(o)
  <2>1. UNCHANGED <<stored, keyOf, timer, proc>>
    BY <1>1 DEF ReadFails, Unrecognised, AddRefused, StopRefused, OnPing, OnGetStatus, CommandThrows
  <2>2. \/ UNCHANGED <<phase, replies>>
        \/ UNCHANGED replies /\ phase' = [phase EXCEPT ![o] = "done"]
        \/ \E answer \in Answer : Reply(o, answer)
    BY <1>1
    DEF ReadFails, Unrecognised, AddRefused, StopRefused, OnPing, OnGetStatus, CommandThrows, Answer
  <2>3. \A p \in Op \ {o} : phase'[p] = phase[p] /\ replies'[p] = replies[p]
    BY <2>2 DEF Reply, Typed, TypeOK
  <2>4. /\ phase'[o] # "done" => replies'[o] = <<>>
        /\ Len(replies'[o]) <= 1
        /\ phase'[o] \in {"accepted", "done"}
    <3>1. CASE UNCHANGED replies /\ phase'[o] \in {"accepted", "done"}
      BY <1>0, <3>1 DEF OperationPhases
    <3>2. CASE \E answer \in Answer : Reply(o, answer)
      <4>1. PICK answer \in Answer : Reply(o, answer)
        BY <3>2
      <4>2. Len(replies'[o]) = 1 /\ phase'[o] = "done"
        BY <1>0, <4>1, ReplyOnceMore
      <4> QED BY <4>2
    <3> QED BY <1>0, <2>2, <3>1, <3>2 DEF Typed, TypeOK
  <2>5. EntriesOwned' /\ LiveProcessRegistered'
    BY <2>1 DEF EntriesOwned, LiveProcessRegistered, HasProcess
  <2>6. TimersOwned'
    BY <1>0, <2>1, <2>3 DEF TimersOwned
  <2>8. OperationPhases'
    BY <1>0, <2>1, <2>3, <2>4 DEF OperationPhases
  <2>7. DropNeedsSuccessor'
    BY <1>0, <2>1, <2>3, DropsKept
  <2> QED BY <2>5, <2>6, <2>7, <2>8 DEF Safe
<1>2. CASE Shutdown(o)
  <2>1. \A k \in Key : TerminateProcesses(stored)[k] # Absent =>
            /\ TerminateProcesses(stored)[k].process = None
            /\ stored[k] # Absent
    BY ProcessesTerminated DEF Typed, TypeOK
  <2>2. Shrinks(TerminateProcesses(stored))
    BY <2>1, ProcessesTerminated DEF Shrinks, Typed, TypeOK, EntriesOwned
  <2>3. /\ replies'[o] = <<"ok">>
        /\ Len(replies'[o]) = 1
        /\ phase'[o] = "done"
        /\ \A p \in Op \ {o} : replies'[p] = replies[p] /\ phase'[p] = phase[p]
    BY <1>0, <1>2, ReplyOnceMore DEF Shutdown
  <2>4. \A p \in Op : proc[p] # "none" <=> proc'[p] # "none"
    BY <1>2 DEF Shutdown, Typed, TypeOK
  <2>5. EntriesOwned' /\ TimersOwned'
    BY <1>0, <1>2, <2>2, <2>3, <2>4, ShrinkingKeepsOwners DEF Shutdown
  <2>6. OperationPhases'
    <3>1. ASSUME NEW p \in Op \ {o}
          PROVE  /\ proc'[p] # "none" => phase'[p] \in {"adding", "done"}
                 /\ phase'[p] = "adding" => proc'[p] # "none"
                 /\ phase'[p] # "done" => replies'[p] = <<>>
                 /\ Len(replies'[p]) <= 1
      BY <2>3, <2>4 DEF OperationPhases
    <3>2. phase'[o] = "done" /\ Len(replies'[o]) <= 1
      BY <2>3
    <3> QED BY <3>1, <3>2 DEF OperationPhases
  <2>7. ASSUME NEW p \in Op, proc'[p] \in {"running", "exited"} PROVE FALSE
    <3>1. proc[p] \in {"running", "exited"} /\ p \notin Registered(stored)
      BY <1>2, <2>7 DEF Shutdown, Typed, TypeOK
    <3>2. keyOf[p] \in Key
      BY <3>1 DEF Typed, KeyKnown
    <3> QED BY <3>1, <3>2 DEF LiveProcessRegistered, Registered
  <2>8. DropNeedsSuccessor'
    BY <1>0, <1>2, <2>3, <2>4, DropsKept DEF Shutdown
  <2> QED BY <2>5, <2>6, <2>7, <2>8 DEF Safe, LiveProcessRegistered
<1>3. ASSUME NEW k \in Key, OnAdd(o, k) PROVE Safe'
  <2> DEFINE entry == Launched(stored[k], o)
  <2>1. /\ entry # Absent
        /\ entry.process = o
        /\ entry.onAddTimer = o
        /\ ~entry.confirmAdded
    <3>1. stored[k] \in StoredObject \cup {Absent}
      BY DEF Typed, TypeOK, Registry
    <3>2. stored[k] # Absent => ~stored[k].confirmAdded
      BY DEF EntriesOwned
    <3> QED BY <3>1, <3>2, LaunchedEntry
  <2>2. stored'[k] = entry /\ \A j \in Key \ {k} : stored'[j] = stored[j]
    BY <1>3 DEF OnAdd, Typed, TypeOK, Registry
  <2>3. /\ proc'[o] = "running" /\ timer'[o] = "armed" /\ keyOf'[o] = k
        /\ phase'[o] = "adding" /\ UNCHANGED replies
        /\ \A p \in Op \ {o} :
              /\ proc'[p] = proc[p] /\ timer'[p] = timer[p]
              /\ keyOf'[p] = keyOf[p] /\ phase'[p] = phase[p]
    BY <1>3 DEF OnAdd, Typed, TypeOK
  <2>4. EntriesOwned'
    <3>1. ASSUME NEW j \in Key \ {k}, stored[j] # Absent PROVE stored[j].onAddTimer # o
      BY <1>0, <3>1 DEF EntriesOwned
    <3> QED BY <2>1, <2>2, <2>3, <3>1, StoredObjectsAssumption DEF EntriesOwned
  <2>5. stored[k] # Absent => stored[k].process = None /\ ~stored[k].endpoint
    BY <1>3 DEF OnAdd, CanAdd
  <2>6. stored[k] = Absent
    BY <2>5 DEF EntriesOwned
  <2>7. TimersOwned'
    <3>1. ASSUME NEW p \in Op \ {o}, timer[p] = "armed" PROVE keyOf[p] \in Key \ {k}
      BY <2>6, <3>1 DEF TimersOwned, Typed, KeyKnown
    <3> QED BY <2>1, <2>2, <2>3, <3>1 DEF TimersOwned
  <2>8. OperationPhases'
    BY <1>0, <2>3 DEF OperationPhases
  <2>9. LiveProcessRegistered'
    <3>1. ASSUME NEW p \in Op \ {o}, proc[p] \in {"running", "exited"}
          PROVE  keyOf[p] \in Key \ {k}
      BY <2>6, <3>1 DEF LiveProcessRegistered, HasProcess, Typed, KeyKnown
    <3> QED BY <2>1, <2>2, <2>3, <3>1, StoredObjectsAssumption
        DEF LiveProcessRegistered, HasProcess
  <2>10. DropNeedsSuccessor'
    BY <1>0, <2>3, DropsKept
  <2> QED BY <2>4, <2>7, <2>8, <2>9, <2>10 DEF Safe
<1>4. ASSUME NEW k \in Key, OnStop(o, k) \/ StopThrows(o, k) PROVE Safe'
  <2>1. stored[k] # Absent /\ stored' = [stored EXCEPT ![k].isBeingStopped = TRUE]
    BY <1>4 DEF OnStop, StopThrows, CanStop, HasEndpoint
  <2>2. Flagged(stored, stored')
    BY <2>1, FlagsKeep DEF Typed, TypeOK
  <2>3. /\ UNCHANGED <<timer, proc, replies>>
        /\ phase'[o] \in {"accepted", "stopWrite"}
        /\ \A p \in Op \ {o} : keyOf'[p] = keyOf[p] /\ phase'[p] = phase[p]
    BY <1>0, <1>4 DEF OnStop, StopThrows, Typed, TypeOK
  <2>4. EntriesOwned' /\ LiveProcessRegistered' /\ TimersOwned'
    <3>1. ASSUME NEW p \in Op
          PROVE  /\ proc[p] # "none" => keyOf'[p] = keyOf[p]
                 /\ timer'[p] # "none" => phase'[p] = "adding" /\ keyOf'[p] = keyOf[p]
      BY <1>0, <2>3 DEF TimersOwned
    <3> QED BY <2>2, <2>3, <3>1, FlagsKeepOwners
  <2>6. OperationPhases'
    BY <1>0, <2>3 DEF OperationPhases
  <2>8. DropNeedsSuccessor'
    BY <1>0, <2>3, DropsKept
  <2> QED BY <2>4, <2>6, <2>8 DEF Safe
<1> QED BY <1>1, <1>2, <1>3, <1>4 DEF Dispatch

\* What an add's timer finds is used up with one answer, or none if the class has
\* been launched again in between.
LEMMA AddTimerSafe ==
    ASSUME Inv, NEW o \in Op, AddTimer(o)
    PROVE  Safe'
<1> USE DEF Inv
<1> DEFINE k == keyOf[o]
<1>0. /\ timer[o] # "none" /\ phase[o] = "adding" /\ proc[o] # "none" /\ k \in Key
      /\ replies[o] = <<>>
  <2>1. timer[o] # "none"
    BY DEF AddTimer, AddTimerAborted, AddTimerFindsNoEntry, AddTimerFindsNoProcess,
           AddTimerFindsRunning, AddTimerFindsDead, HandleExpiry
  <2> QED BY <2>1 DEF TimersOwned, OperationPhases, Typed, KeyKnown
<1>1. UNCHANGED keyOf /\ timer' = [timer EXCEPT ![o] = "none"]
  BY DEF AddTimer, AddTimerAborted, AddTimerFindsNoEntry, AddTimerFindsNoProcess,
         AddTimerFindsRunning, AddTimerFindsDead, HandleExpiry
<1>2. \A p \in Op : /\ proc'[p] = "none" <=> proc[p] = "none"
                    /\ proc'[p] \in {"running", "exited"} => proc[p] \in {"running", "exited"}
  <2>1. UNCHANGED proc \/ \E p \in Op \cup {None} : proc' = Reap(p)
    <3>1. CASE AddTimerFindsDead(o)
      <4>1. stored[k].process \in Op \cup {None}
        BY <1>0, <3>1 DEF AddTimerFindsDead, HasProcess, Typed, TypeOK, Registry, StoredObject
      <4> QED BY <3>1, <4>1 DEF AddTimerFindsDead
    <3>2. CASE ~AddTimerFindsDead(o)
      BY <3>2 DEF AddTimer, AddTimerAborted, AddTimerFindsNoEntry, AddTimerFindsNoProcess,
                  AddTimerFindsRunning
    <3> QED BY <3>1, <3>2
  <2> QED BY <2>1 DEF Reap, Typed, TypeOK
<1>3. \/ UNCHANGED stored
      \/ stored[k] # Absent /\ stored' = [stored EXCEPT ![k].isBeingAdded = FALSE]
      \/ stored[k] # Absent /\ stored' = [stored EXCEPT ![k].isBeingAdded = FALSE,
                                                        ![k].confirmAdded = FALSE]
  BY DEF AddTimer, AddTimerAborted, AddTimerFindsNoEntry, AddTimerFindsNoProcess,
         AddTimerFindsRunning, AddTimerFindsDead, HasProcess
<1>4. Flagged(stored, stored')
  <2>1. UNCHANGED stored => Flagged(stored, stored')
    BY DEF Flagged
  <2>2. stored[k] # Absent =>
          /\ Flagged(stored, [stored EXCEPT ![k].isBeingAdded = FALSE])
          /\ Flagged(stored, [stored EXCEPT ![k].isBeingAdded = FALSE, ![k].confirmAdded = FALSE])
    BY <1>0, FlagsKeep DEF Typed, TypeOK
  <2> QED BY <1>3, <2>1, <2>2
<1>5. \/ \E answer \in Answer : Reply(o, answer)
      \/ UNCHANGED <<replies, phase>>
      \/ /\ phase' = [phase EXCEPT ![o] = "done"] /\ UNCHANGED replies
         /\ timer[o] = "aborted" /\ stored[k] # Absent
  BY DEF AddTimer, AddTimerAborted, AddTimerFindsNoEntry, AddTimerFindsNoProcess,
         AddTimerFindsRunning, AddTimerFindsDead, Answer
<1>6. \A p \in Op \ {o} : phase'[p] = phase[p] /\ replies'[p] = replies[p]
  BY <1>5 DEF Reply, Typed, TypeOK
<1>7. /\ phase'[o] \in {"adding", "done"}
      /\ phase'[o] # "done" => replies'[o] = <<>>
      /\ Len(replies'[o]) <= 1
  <2>1. CASE \E answer \in Answer : Reply(o, answer)
    <3>1. PICK answer \in Answer : Reply(o, answer)
      BY <2>1
    <3>2. Len(replies'[o]) = 1 /\ phase'[o] = "done"
      BY <1>0, <3>1, ReplyOnceMore
    <3> QED BY <3>2
  <2>2. CASE UNCHANGED replies /\ phase'[o] \in {"adding", "done"}
    BY <1>0, <2>2 DEF OperationPhases
  <2> QED BY <1>0, <1>5, <2>1, <2>2 DEF Typed, TypeOK
<1>8. EntriesOwned' /\ TimersOwned' /\ LiveProcessRegistered'
  <2>1. ASSUME NEW p \in Op
        PROVE  /\ timer'[p] \in {timer[p], "none"}
               /\ timer'[p] # "none" => phase'[p] = "adding" /\ keyOf'[p] = keyOf[p]
    BY <1>1, <1>6 DEF TimersOwned, Typed, TypeOK
  <2> QED BY <1>1, <1>2, <1>4, <2>1, FlagsKeepOwners
<1>9. OperationPhases'
  <2>1. ASSUME NEW p \in Op \ {o}
        PROVE  /\ proc'[p] # "none" => phase'[p] \in {"adding", "done"}
               /\ phase'[p] = "adding" => proc'[p] # "none"
               /\ phase'[p] # "done" => replies'[p] = <<>>
               /\ Len(replies'[p]) <= 1
    BY <1>2, <1>6 DEF OperationPhases
  <2>2. proc'[o] # "none"
    BY <1>0, <1>2
  <2> QED BY <1>7, <2>1, <2>2 DEF OperationPhases
<1>10. DropNeedsSuccessor'
  <2>1. CASE timer[o] = "aborted" /\ stored[k] # Absent
    <3> DEFINE p == stored[k].onAddTimer
    <3>1. p \in Op \ {o} /\ proc[p] # "none" /\ keyOf[p] = k
      BY <1>0, <2>1 DEF EntriesOwned, TimersOwned
    <3>2. proc'[p] # "none" /\ keyOf'[p] = keyOf'[o]
      BY <1>1, <1>2, <3>1
    <3>3. ASSUME NEW q \in Op \ {o}, proc'[q] # "none", phase'[q] = "done", replies'[q] = <<>>
          PROVE  \E r \in Op \ {q} : proc'[r] # "none" /\ keyOf'[r] = keyOf'[q]
      BY <1>1, <1>2, <1>6, <3>3 DEF DropNeedsSuccessor
    <3> QED BY <3>1, <3>2, <3>3 DEF DropNeedsSuccessor
  <2>2. CASE ~(timer[o] = "aborted" /\ stored[k] # Absent)
    <3>1. phase'[o] = "done" => replies'[o] # <<>>
      <4>1. CASE \E answer \in Answer : Reply(o, answer)
        BY <1>0, <4>1, ReplyOnceMore
      <4>2. CASE UNCHANGED <<replies, phase>>
        BY <1>0, <4>2
      <4> QED BY <1>5, <2>2, <4>1, <4>2
    <3> QED BY <1>1, <1>2, <1>6, <3>1, DropsKept
  <2> QED BY <2>1, <2>2
<1> QED BY <1>8, <1>9, <1>10 DEF Safe

\* The exit of a process takes away the process of its own entry and no other.
LEMMA ExitSafe ==
    ASSUME Inv, NEW o \in Op, ExitHandler(o)
    PROVE  Safe'
<1> USE DEF Inv
<1>1. /\ UNCHANGED <<phase, keyOf, replies>>
      /\ proc[o] \in {"exited", "reaped"}
      /\ proc' = [proc EXCEPT ![o] = "gone"]
  BY DEF ExitHandler, OnProcessExit, OnProcessExitError
<1>2. /\ keyOf[o] \in Key
      /\ proc'[o] = "gone"
      /\ \A p \in Op \ {o} : proc'[p] = proc[p]
  BY <1>1 DEF Typed, TypeOK, KeyKnown
<1>3. \A p \in Op : proc'[p] # "none" <=> proc[p] # "none"
  BY <1>1, <1>2
<1>4. OperationPhases' /\ DropNeedsSuccessor'
  BY <1>1, <1>3 DEF OperationPhases, DropNeedsSuccessor
<1>5. CASE OnProcessExit(o)
  <2> DEFINE k == keyOf[o]
  <2>1. /\ stored[k] # Absent /\ stored[k].process = o
        /\ UpdateRegistry(RemoveStoredProcess(stored, k))
    BY <1>5 DEF OnProcessExit, LiveProcessRegistered, HasProcess
  <2>2. Shrinks(RemoveStoredProcess(stored, k))
    <3>1. ASSUME NEW j \in Key \ {k} PROVE RemoveStoredProcess(stored, k)[j] = stored[j]
      BY <1>2, <2>1, ProcessRemoved DEF Typed, TypeOK
    <3>2. RemoveStoredProcess(stored, k)[k] # Absent =>
            /\ RemoveStoredProcess(stored, k)[k].process = None
            /\ RemoveStoredProcess(stored, k)[k].endpoint
            /\ RemoveStoredProcess(stored, k)[k].onAddTimer = stored[k].onAddTimer
            /\ RemoveStoredProcess(stored, k)[k].confirmAdded = stored[k].confirmAdded
      BY <1>2, <2>1, ProcessRemoved DEF Typed, TypeOK
    <3> QED BY <2>1, <3>1, <3>2 DEF Shrinks, EntriesOwned
  <2>3. EntriesOwned' /\ TimersOwned'
    BY <1>1, <1>3, <2>1, <2>2, ShrinkingKeepsOwners
  <2>4. ASSUME NEW p \in Op, proc'[p] \in {"running", "exited"}
        PROVE  HasProcess(stored', keyOf'[p]) /\ stored'[keyOf'[p]].process = p
    <3>1. p # o /\ HasProcess(stored, keyOf[p]) /\ stored[keyOf[p]].process = p
      BY <1>2, <2>4 DEF LiveProcessRegistered
    <3>2. keyOf[p] \in Key \ {k}
      BY <1>2, <2>1, <2>4, <3>1 DEF Typed, KeyKnown
    <3>3. stored'[keyOf[p]] = stored[keyOf[p]]
      BY <1>2, <2>1, <3>2, ProcessRemoved DEF UpdateRegistry, Typed, TypeOK
    <3> QED BY <1>1, <3>1, <3>3 DEF HasProcess
  <2> QED BY <1>4, <2>3, <2>4 DEF Safe, LiveProcessRegistered
<1>6. CASE OnProcessExitError(o)
  <2>1. UNCHANGED <<stored, timer>>
    BY <1>6 DEF OnProcessExitError
  <2>2. EntriesOwned' /\ TimersOwned' /\ LiveProcessRegistered'
    BY <1>1, <1>2, <2>1 DEF EntriesOwned, TimersOwned, LiveProcessRegistered, HasProcess
  <2> QED BY <1>4, <2>2 DEF Safe
<1> QED BY <1>5, <1>6 DEF ExitHandler

\* Removing the socket of an entry leaves every process in its place.
LEMMA SocketRemovalSafe ==
    ASSUME Inv, NEW k \in Key, UNCHANGED <<keyOf, proc>>,
           UpdateRegistry(IF stored[k] = Absent THEN stored ELSE RemoveStoredSocket(stored, k)),
           \A o \in Op : phase[o] = "adding" => phase'[o] = "adding"
    PROVE  EntriesOwned' /\ TimersOwned' /\ LiveProcessRegistered'
<1> USE DEF Inv
<1> DEFINE after == IF stored[k] = Absent THEN stored ELSE RemoveStoredSocket(stored, k)
<1>1. \A j \in Key \ {k} : after[j] = stored[j]
  BY SocketRemoved DEF Typed, TypeOK
<1>2. after[k] # Absent => /\ stored[k] # Absent
                           /\ after[k].process = stored[k].process
                           /\ after[k].process # None
                           /\ after[k].onAddTimer = stored[k].onAddTimer
                           /\ after[k].confirmAdded = stored[k].confirmAdded
  BY SocketRemoved DEF Typed, TypeOK
<1>3. after[k] = Absent => stored[k] = Absent \/ stored[k].process = None
  BY SocketRemoved DEF Typed, TypeOK
<1>4. Shrinks(after)
  BY <1>1, <1>2 DEF Shrinks, EntriesOwned
<1>5. EntriesOwned' /\ TimersOwned'
  BY <1>4, ShrinkingKeepsOwners
<1>6. ASSUME NEW o \in Op, proc[o] \in {"running", "exited"}
      PROVE  HasProcess(stored', keyOf[o]) /\ stored'[keyOf[o]].process = o
  <2>1. /\ keyOf[o] \in Key /\ stored[keyOf[o]] # Absent
        /\ stored[keyOf[o]].process = o /\ o # None
    BY <1>6, StoredObjectsAssumption DEF LiveProcessRegistered, HasProcess, Typed, KeyKnown
  <2>2. after[keyOf[o]] # Absent /\ after[keyOf[o]].process = o
    BY <1>1, <1>2, <1>3, <2>1
  <2> QED BY <2>1, <2>2 DEF UpdateRegistry, HasProcess
<1> QED BY <1>5, <1>6 DEF LiveProcessRegistered

\* A stop, which launched nothing, answers once.
LEMMA StopSafe ==
    ASSUME Inv, NEW o \in Op, StopCompletion(o)
    PROVE  Safe'
<1> USE DEF Inv
<1>1. /\ phase[o] \in {"stopWrite", "stopRead"} /\ proc[o] = "none"
      /\ keyOf[o] \in Key /\ timer[o] = "none"
  <2>1. phase[o] \in {"stopWrite", "stopRead"}
    BY DEF StopCompletion, StopWritten, StopRead
  <2> QED BY <2>1 DEF OperationPhases, TimersOwned, Typed, KeyKnown
<1>2. UNCHANGED <<keyOf, proc>>
  BY DEF StopCompletion, StopWritten, StopRead
<1>3. \/ UNCHANGED replies /\ phase' = [phase EXCEPT ![o] = "stopRead"]
      \/ \E answer : Reply(o, answer)
  BY DEF StopCompletion, StopWritten, StopRead
<1>4. \A p \in Op \ {o} : phase'[p] = phase[p] /\ replies'[p] = replies[p]
  BY <1>3 DEF Reply, Typed, TypeOK
<1>5. /\ phase'[o] \in {"stopRead", "done"}
      /\ phase'[o] # "done" => replies'[o] = <<>>
      /\ Len(replies'[o]) <= 1
  <2>1. CASE UNCHANGED replies /\ phase' = [phase EXCEPT ![o] = "stopRead"]
    BY <1>1, <2>1 DEF OperationPhases, Typed, TypeOK
  <2>2. CASE \E answer : Reply(o, answer)
    <3>1. PICK answer : Reply(o, answer)
      BY <2>2
    <3>2. Len(replies'[o]) = 1 /\ phase'[o] = "done"
      BY <1>1, <3>1, ReplyOnceMore
    <3> QED BY <3>2
  <2> QED BY <1>3, <2>1, <2>2
<1>6. OperationPhases'
  <2>1. ASSUME NEW p \in Op \ {o}
        PROVE  /\ proc'[p] # "none" => phase'[p] \in {"adding", "done"}
               /\ phase'[p] = "adding" => proc'[p] # "none"
               /\ phase'[p] # "done" => replies'[p] = <<>>
               /\ Len(replies'[p]) <= 1
    BY <1>2, <1>4 DEF OperationPhases
  <2> QED BY <1>1, <1>2, <1>5, <2>1 DEF OperationPhases
<1>7. DropNeedsSuccessor'
  BY <1>1, <1>2, <1>4, DropsKept
<1>8. \A p \in Op : phase[p] = "adding" => phase'[p] = "adding"
  BY <1>1, <1>4
<1>9. ASSUME NEW written \in BOOLEAN, StopWritten(o, written) PROVE Safe'
  <2>1. EntriesOwned' /\ TimersOwned' /\ LiveProcessRegistered'
    BY <1>1, <1>2, <1>8, <1>9, SocketRemovalSafe DEF StopWritten
  <2> QED BY <1>6, <1>7, <2>1 DEF Safe
<1>10. ASSUME NEW read \in Answer \cup {"failed"}, StopRead(o, read) PROVE Safe'
  <2>1. UNCHANGED <<stored, timer>>
    BY <1>10 DEF StopRead
  <2>2. EntriesOwned' /\ LiveProcessRegistered'
    BY <1>2, <2>1 DEF EntriesOwned, LiveProcessRegistered, HasProcess
  <2>3. TimersOwned'
    BY <1>2, <1>8, <2>1 DEF TimersOwned
  <2> QED BY <1>6, <1>7, <2>2, <2>3 DEF Safe
<1> QED BY <1>9, <1>10 DEF StopCompletion

\* A socket that comes gives its entry an endpoint, one that goes takes it away.
LEMMA InotifySafe ==
    ASSUME Inv, OnInotifyUpdate
    PROVE  Safe'
<1> USE DEF Inv
<1>1. PICK k \in Key : OnSocketCreated(k) \/ OnSocketDeleted(k)
  BY DEF OnInotifyUpdate
<1>2. UNCHANGED <<phase, keyOf, replies, proc>>
  BY <1>1 DEF OnSocketCreated, OnSocketDeleted, NextEvent
<1>3. OperationPhases' /\ DropNeedsSuccessor'
  BY <1>2 DEF OperationPhases, DropNeedsSuccessor
<1>4. CASE OnSocketCreated(k)
  <2>1. \/ stored' = stored
        \/ /\ stored[k] # Absent
           /\ stored' = [stored EXCEPT ![k].endpoint = TRUE]
    BY <1>4 DEF OnSocketCreated
  <2>2. stored[k] # Absent => Flagged(stored, [stored EXCEPT ![k].endpoint = TRUE])
    BY FlagsKeep DEF Typed, TypeOK
  <2>3. Flagged(stored, stored)
    BY DEF Flagged
  <2>4. Flagged(stored, stored') /\ UNCHANGED timer
    BY <1>4, <2>1, <2>2, <2>3 DEF OnSocketCreated
  <2>5. \A o \in Op : timer'[o] # "none" => phase'[o] = "adding"
    BY <1>2, <2>4 DEF TimersOwned
  <2>6. EntriesOwned' /\ TimersOwned' /\ LiveProcessRegistered'
    BY <1>2, <2>4, <2>5, FlagsKeepOwners
  <2> QED BY <1>3, <2>6 DEF Safe
<1>5. CASE OnSocketDeleted(k)
  <2>1. EntriesOwned' /\ TimersOwned' /\ LiveProcessRegistered'
    BY <1>2, <1>5, SocketRemovalSafe DEF OnSocketDeleted
  <2> QED BY <1>3, <2>1 DEF Safe
<1> QED BY <1>1, <1>4, <1>5

\* Clients, processes and socket files do not touch the registry.
LEMMA EnvironmentSafe ==
    ASSUME Inv, Environment
    PROVE  Safe'
<1> USE DEF Inv
<1>1. ASSUME NEW o \in Op, Accept(o) PROVE Safe'
  <2>1. /\ UNCHANGED <<stored, keyOf, replies, timer, proc>>
        /\ phase[o] = "idle" /\ phase'[o] = "accepted"
        /\ \A p \in Op \ {o} : phase'[p] = phase[p]
    BY <1>1 DEF Accept, Typed, TypeOK
  <2>2. EntriesOwned' /\ LiveProcessRegistered'
    BY <2>1 DEF EntriesOwned, LiveProcessRegistered, HasProcess
  <2>3. TimersOwned' /\ OperationPhases'
    BY <2>1 DEF TimersOwned, OperationPhases
  <2>4. DropNeedsSuccessor'
    BY <2>1, DropsKept
  <2> QED BY <2>2, <2>3, <2>4 DEF Safe
<1>2. ASSUME NEW o \in Op, TimerExpires(o) PROVE Safe'
  <2>1. /\ UNCHANGED <<stored, keyOf, replies, phase, proc>>
        /\ timer[o] = "armed" /\ timer'[o] = "expired"
        /\ \A p \in Op \ {o} : timer'[p] = timer[p]
    BY <1>2 DEF TimerExpires, Typed, TypeOK
  <2>2. EntriesOwned' /\ LiveProcessRegistered' /\ OperationPhases' /\ DropNeedsSuccessor'
    BY <2>1
    DEF EntriesOwned, LiveProcessRegistered, HasProcess, OperationPhases, DropNeedsSuccessor
  <2>3. TimersOwned'
    BY <2>1 DEF TimersOwned
  <2> QED BY <2>2, <2>3 DEF Safe
<1>3. ASSUME NEW o \in Op, ProcessExits(o) PROVE Safe'
  <2>1. /\ UNCHANGED <<stored, keyOf, replies, phase, timer>>
        /\ proc[o] = "running" /\ proc'[o] = "exited"
        /\ \A p \in Op \ {o} : proc'[p] = proc[p]
    BY <1>3 DEF ProcessExits, Typed, TypeOK
  <2>2. EntriesOwned' /\ LiveProcessRegistered'
    BY <2>1 DEF EntriesOwned, LiveProcessRegistered, HasProcess
  <2>3. TimersOwned' /\ OperationPhases'
    BY <2>1 DEF TimersOwned, OperationPhases
  <2>4. DropNeedsSuccessor'
    BY <2>1, DropsKept
  <2> QED BY <2>2, <2>3, <2>4 DEF Safe
<1>4. ASSUME NEW k \in Key, SocketAppears(k) \/ SocketVanishes(k) \/ SocketAbandoned(k)
      PROVE  Safe'
  <2>1. UNCHANGED <<stored, keyOf, replies, phase, timer, proc>>
    BY <1>4 DEF SocketAppears, SocketVanishes, SocketAbandoned
  <2> QED BY <2>1 DEF Safe, EntriesOwned, LiveProcessRegistered, HasProcess, TimersOwned,
                      OperationPhases, DropNeedsSuccessor
<1> QED BY <1>1, <1>2, <1>3, <1>4 DEF Environment

\* Inv is inductive.
LEMMA NextInv == Inv /\ [Next]_vars => Inv'
<1> SUFFICES ASSUME Inv, [Next]_vars PROVE Inv'
  OBVIOUS
<1>1. Typed'
  BY NextTyped DEF Inv
<1>2. Safe'
  <2>1. CASE Return \/ UNCHANGED vars
    <3>1. UNCHANGED <<stored, phase, keyOf, replies, timer, proc>>
      BY <2>1 DEF Return, vars
    <3> QED BY <3>1 DEF Inv, Safe, EntriesOwned, LiveProcessRegistered, HasProcess,
                        TimersOwned, OperationPhases, DropNeedsSuccessor
  <2> QED BY <2>1, DispatchSafe, AddTimerSafe, ExitSafe, StopSafe, InotifySafe,
             EnvironmentSafe DEF Next, Daemon
<1> QED BY <1>1, <1>2 DEF Inv, Safe

\* The invariant the theorems below rest on.
THEOREM Invariance == Spec => []Inv
  BY InitInv, NextInv, PTL DEF Spec

-----------------------------------------------------------------------------
(* The theorems.                                                           *)

\* What the invariant says of processes, entries and answers.
LEMMA InvImplies ==
    Inv => /\ LiveProcessRegistered /\ SingleInstance /\ HasProcessOrEndpoint
           /\ ReplyOnce /\ DropNeedsSuccessor
<1> SUFFICES ASSUME Inv
             PROVE  /\ LiveProcessRegistered /\ SingleInstance /\ HasProcessOrEndpoint
                    /\ ReplyOnce /\ DropNeedsSuccessor
  OBVIOUS
<1>1. SingleInstance
  BY DEF Inv, SingleInstance, LiveProcessRegistered
<1>2. HasProcessOrEndpoint
  BY DEF Inv, EntriesOwned, HasProcessOrEndpoint, HasProcess, HasEndpoint
<1>3. ReplyOnce
  <2> SUFFICES ASSUME NEW o \in Op
               PROVE  Len(replies[o]) <= (IF phase[o] = "done" THEN 1 ELSE 0)
    BY DEF ReplyOnce
  <2>1. CASE phase[o] = "done"
    BY <2>1 DEF Inv, OperationPhases
  <2>2. CASE phase[o] # "done"
    <3>1. replies[o] = <<>>
      BY <2>2 DEF Inv, OperationPhases
    <3> QED BY <2>2, <3>1
  <2> QED BY <2>1, <2>2
<1> QED BY <1>1, <1>2, <1>3 DEF Inv

\* No handler, finding an entry by its name, forgets a process that lives or whose
\* exit is still to be handled.
THEOREM ProcessesAreKept == Spec => []LiveProcessRegistered
  BY Invariance, InvImplies, PTL

\* No class ever runs twice, whatever the order of adds, exits, stops and timers.
THEOREM NoSecondInstance == Spec => []SingleInstance
  BY Invariance, InvImplies, PTL

\* No entry outlives both its process and its socket.
THEOREM NoEmptyEntry == Spec => []HasProcessOrEndpoint
  BY Invariance, InvImplies, PTL

\* No operation is answered twice, or while it still goes on.
THEOREM AtMostOneReply == Spec => []ReplyOnce
  BY Invariance, InvImplies, PTL

\* An add is left without an answer only if its class has been launched again.
THEOREM NoDropWithoutSuccessor == Spec => []DropNeedsSuccessor
  BY Invariance, InvImplies, PTL

\* A step that closes the daemon ends every process there is.
LEMMA ClosingEndsProcesses ==
    Inv /\ [Next]_vars /\ mode = "up" /\ mode' = "closing" =>
        \A o \in Op : proc'[o] # "running"
<1>1. ASSUME Inv, [Next]_vars, mode = "up", mode' = "closing", NEW o \in Op
      PROVE  proc'[o] # "running"
  <2>1. PICK p \in Op : Shutdown(p)
    BY <1>1 DEF Next, Daemon, Environment, Dispatch, AddTimer, ExitHandler, StopCompletion,
      OnInotifyUpdate, ReadFails, Unrecognised, OnPing, OnGetStatus, AddRefused, CommandThrows,
      StopRefused, OnAdd, OnStop, StopThrows, AddTimerAborted, AddTimerFindsNoEntry,
      AddTimerFindsNoProcess, AddTimerFindsRunning, AddTimerFindsDead, OnProcessExit,
      OnProcessExitError, StopWritten, StopRead, OnSocketCreated, OnSocketDeleted, NextEvent,
      Return, Accept, TimerExpires, ProcessExits, SocketAppears, SocketVanishes,
      SocketAbandoned, vars
  <2>2. SUFFICES ASSUME proc[o] = "running", o \notin Registered(stored) PROVE FALSE
    BY <1>1, <2>1 DEF Shutdown, Inv, Typed, TypeOK
  <2>3. keyOf[o] \in Key
    BY <1>1, <2>2 DEF Inv, Typed, KeyKnown
  <2> QED BY <1>1, <2>2, <2>3 DEF Inv, LiveProcessRegistered, Registered
<1> QED BY <1>1

\* The shutdown ends every process there is.
THEOREM NoOrphan == Spec => ShutdownLeavesNoOrphan
  BY ClosingEndsProcesses, Invariance, PTL DEF Spec, ShutdownLeavesNoOrphan

\* The answer to an add is written by the handler of its own timer.
LEMMA OnlyTheTimerAnswersAnAdd ==
    ASSUME Inv, Next, NEW o \in Op, phase[o] = "adding", replies'[o] # replies[o]
    PROVE  AddTimer(o)
<1> USE DEF Reply, Inv, Typed, TypeOK
<1>1. ASSUME NEW p \in Op, Dispatch(p) PROVE FALSE
  BY <1>1 DEF Dispatch, Dispatched, ReadFails, Unrecognised, OnPing, OnGetStatus, AddRefused,
    CommandThrows, StopRefused, Shutdown, OnAdd, OnStop, StopThrows
<1>2. ASSUME NEW p \in Op, AddTimer(p) PROVE p = o
  BY <1>2 DEF AddTimer, AddTimerAborted, HandleExpiry, AddTimerFindsNoEntry,
    AddTimerFindsNoProcess, AddTimerFindsRunning, AddTimerFindsDead
<1>3. ASSUME NEW p \in Op, ExitHandler(p) PROVE FALSE
  BY <1>3 DEF ExitHandler, OnProcessExit, OnProcessExitError
<1>4. ASSUME NEW p \in Op, StopCompletion(p) PROVE FALSE
  BY <1>4 DEF StopCompletion, StopWritten, StopRead
<1>5. ~OnInotifyUpdate /\ ~Return
  BY DEF OnInotifyUpdate, OnSocketCreated, OnSocketDeleted, NextEvent, Return
<1>6. ~Environment
  BY DEF Environment, Accept, TimerExpires, ProcessExits, SocketAppears, SocketVanishes,
    SocketAbandoned
<1> QED BY <1>1, <1>2, <1>3, <1>4, <1>5, <1>6 DEF Next, Daemon

\* A step that answers an add with OK finds a process of its class, and keeps it.
LEMMA AnsweringFindsProcess ==
    Inv /\ [Next]_vars =>
        \A o \in Op : phase[o] = "adding" /\ replies'[o] = <<"ok">> =>
            HasProcess(stored', keyOf[o]) /\ proc'[stored'[keyOf[o]].process] = "running"
<1>1. ASSUME Inv, [Next]_vars, NEW o \in Op, phase[o] = "adding", replies'[o] = <<"ok">>
      PROVE  HasProcess(stored', keyOf[o]) /\ proc'[stored'[keyOf[o]].process] = "running"
  <2>1. replies[o] = <<>> /\ keyOf[o] \in Key
    BY <1>1 DEF Inv, OperationPhases, Typed, KeyKnown
  <2>2. AddTimer(o)
    <3>1. replies'[o] # replies[o]
      BY <1>1, <2>1
    <3>2. Next
      BY <1>1, <3>1 DEF vars
    <3> QED BY <1>1, <3>1, <3>2, OnlyTheTimerAnswersAnAdd
  <2>3. replies \in [Op -> Seq(Answer)] /\ stored \in Registry
    BY <1>1 DEF Inv, Typed, TypeOK
  <2>4. ASSUME NEW answer \in Answer, Reply(o, answer) PROVE answer = "ok"
    BY <1>1, <2>1, <2>3, <2>4 DEF Reply
  <2>5. AddTimerFindsRunning(o)
    <3>1. ~AddTimerAborted(o)
      BY <1>1, <2>1, <2>4 DEF AddTimerAborted, Inv, EntriesOwned, Answer
    <3>2. ~Reply(o, "error")
      BY <2>4 DEF Answer
    <3>3. ~AddTimerFindsNoEntry(o) /\ ~AddTimerFindsDead(o)
      BY <3>2 DEF AddTimerFindsNoEntry, AddTimerFindsDead
    <3>4. ~AddTimerFindsNoProcess(o)
      BY <1>1, <2>1 DEF AddTimerFindsNoProcess
    <3> QED BY <2>2, <3>1, <3>3, <3>4 DEF AddTimer
  <2>6. /\ HasProcess(stored, keyOf[o])
        /\ proc[stored[keyOf[o]].process] = "running"
        /\ stored' = [stored EXCEPT ![keyOf[o]].isBeingAdded = FALSE]
        /\ proc' = proc
    BY <2>5 DEF AddTimerFindsRunning
  <2>7. Flagged(stored, stored')
    BY <2>1, <2>3, <2>6, FlagsKeep DEF HasProcess
  <2> QED BY <2>1, <2>6, <2>7 DEF Flagged, HasProcess
<1> QED BY <1>1

\* No add is told that all is well unless a process of its class runs as the answer
\* is written.
THEOREM OkNeedsRunningProcess == Spec => AddOkMeansRunning
  BY AnsweringFindsProcess, Invariance, PTL DEF Spec, AddOkMeansRunning
==============================================================================
