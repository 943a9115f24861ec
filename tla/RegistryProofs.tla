---------------------------- MODULE RegistryProofs ----------------------------
(***************************************************************************)
(* What rests on the invariant of MonitorManagerProofs: the registry in    *)
(* step with what is outside it, a mark that an add is in progress with    *)
(* the add's timer, an endpoint with the socket directory's events; and    *)
(* the daemon as an implementation of the Supervisor.                      *)
(***************************************************************************)
EXTENDS MonitorManagerProofs

\* Only onAdd marks an entry or replaces its timer; an endpoint is only set by an event.
LEMMA RemovalsAddNothing ==
    ASSUME NEW map \in Registry, NEW k \in Key, map[k] # Absent,
           NEW after, after \in {RemoveStoredSocket(map, k), RemoveStoredProcess(map, k)},
           NEW j \in Key, after[j] # Absent
    PROVE  /\ map[j] # Absent
           /\ after[j].isBeingAdded = map[j].isBeingAdded
           /\ after[j].onAddTimer = map[j].onAddTimer
           /\ after[j].endpoint => map[j].endpoint
<1>1. CASE j # k
  BY <1>1 DEF RemoveStoredSocket, RemoveStoredProcess, Registry
<1>2. CASE j = k
  <2>1. map[k] \in StoredObject
    BY DEF Registry
  <2>2. CASE after = RemoveStoredSocket(map, k)
    BY <1>2, <2>1, <2>2 DEF RemoveStoredSocket, Registry, StoredObject
  <2>3. CASE after = RemoveStoredProcess(map, k)
    BY <1>2, <2>1, <2>3 DEF RemoveStoredProcess, Registry, StoredObject
  <2> QED BY <2>2, <2>3
<1> QED BY <1>1, <1>2

\* Setting another flag of an entry leaves the mark as it was.
LEMMA FlagsApart ==
    ASSUME NEW map \in Registry, NEW k \in Key, map[k] # Absent, NEW j \in Key
    PROVE  /\ [map EXCEPT ![k].endpoint = TRUE][j].isBeingAdded => map[j].isBeingAdded
           /\ [map EXCEPT ![k].isBeingStopped = TRUE][j].isBeingAdded => map[j].isBeingAdded
           /\ [map EXCEPT ![k].isBeingStopped = TRUE][j].endpoint => map[j].endpoint
<1>1. map[k] \in StoredObject
  BY DEF Registry
<1> QED BY <1>1 DEF Registry, StoredObject

\* The entry of k is not marked any more, and the others are as they were.
Unmarks(map, after, k) ==
    /\ ~after[k].isBeingAdded
    /\ \A j \in Key \ {k} : after[j] = map[j]

\* What the delay timer's handler does to an entry.
LEMMA Unmarked ==
    ASSUME NEW map \in Registry, NEW k \in Key, map[k] # Absent
    PROVE  /\ Unmarks(map, [map EXCEPT ![k].isBeingAdded = FALSE], k)
           /\ Unmarks(map, [map EXCEPT ![k].isBeingAdded = FALSE, ![k].confirmAdded = FALSE], k)
<1>1. map[k] \in StoredObject
  BY DEF Registry
<1> QED BY <1>1 DEF Unmarks, Registry, StoredObject

\* The sockets the entries know of are the same.
EndpointsKept(map, after, k) ==
    /\ after[k].endpoint = map[k].endpoint
    /\ map[k] # Absent

\* To unmark an entry is to leave its socket alone.
LEMMA UnmarkingKeepsEndpoints ==
    ASSUME NEW map \in Registry, NEW k \in Key, map[k] # Absent
    PROVE  /\ EndpointsKept(map, [map EXCEPT ![k].isBeingAdded = FALSE], k)
           /\ EndpointsKept(map, [map EXCEPT ![k].isBeingAdded = FALSE,
                                             ![k].confirmAdded = FALSE], k)
<1>1. map[k] \in StoredObject
  BY DEF Registry
<1> QED BY <1>1 DEF EndpointsKept, Registry, StoredObject

-----------------------------------------------------------------------------
(* The mark of an add in progress.                                         *)

\* The entries that stay marked keep their process, and their timer is not done.
LEMMA MarksKept ==
    ASSUME Inv, AddingIsTimed, mode' = "up" => mode = "up",
           \A k \in Key : mode' = "up" /\ stored'[k] # Absent /\ stored'[k].isBeingAdded =>
              /\ stored[k] # Absent /\ stored[k].isBeingAdded
              /\ stored'[k].onAddTimer = stored[k].onAddTimer
              /\ stored'[k].process = stored[k].process
              /\ timer[stored[k].onAddTimer] # "none" => timer'[stored[k].onAddTimer] # "none",
           \A p \in Op : proc[p] \in {"reaped", "gone"} => proc'[p] \in {"reaped", "gone"}
    PROVE  AddingIsTimed'
<1> SUFFICES ASSUME mode' = "up", NEW k \in Key, stored'[k] # Absent, stored'[k].isBeingAdded
             PROVE  \/ timer'[stored'[k].onAddTimer] # "none"
                    \/ HasProcess(stored', k) /\ proc'[stored'[k].process] \in {"reaped", "gone"}
  BY DEF AddingIsTimed
<1>1. \/ timer[stored[k].onAddTimer] # "none"
      \/ HasProcess(stored, k) /\ proc[stored[k].process] \in {"reaped", "gone"}
  BY DEF AddingIsTimed
<1>2. HasProcess(stored, k) => stored[k].process \in Op
  BY DEF HasProcess, Inv, EntriesOwned
<1> QED BY <1>1, <1>2 DEF HasProcess

\* A wait that is over has its handler queued: an update of the registry undoes none.
LEMMA WaitsStay ==
    ASSUME NEW registry, UpdateRegistry(registry), NEW o \in Op, timer[o] # "none"
    PROVE  timer'[o] # "none"
  BY DEF UpdateRegistry, TimersAfter

\* An add marks its entry and arms its timer; the other commands mark nothing.
LEMMA DispatchKeepsMarks ==
    ASSUME Inv, AddingIsTimed, NEW o \in Op, Dispatch(o)
    PROVE  AddingIsTimed'
<1> USE DEF Inv, Typed, TypeOK
<1>1. CASE ReadFails(o) \/ Unrecognised(o) \/ OnPing(o) \/ OnGetStatus(o) \/ AddRefused(o)
              \/ StopRefused(o)
  <2>1. UNCHANGED <<mode, stored, timer, proc>>
    BY <1>1 DEF ReadFails, Unrecognised, OnPing, OnGetStatus, AddRefused, StopRefused
  <2> QED BY <2>1, MarksKept
<1>2. CASE mode' # "up"
  BY <1>2 DEF AddingIsTimed
<1>3. ASSUME NEW k \in Key, OnAdd(o, k) PROVE AddingIsTimed'
  <2>1. phase[o] = "accepted" /\ proc[o] = "none"
    BY <1>3 DEF OnAdd, Dispatched, OperationPhases
  <2>2. /\ stored'[k].onAddTimer = o /\ timer'[o] = "armed"
        /\ \A j \in Key \ {k} : stored'[j] = stored[j]
        /\ \A p \in Op \ {o} : timer'[p] = timer[p] /\ proc'[p] = proc[p]
        /\ mode' = mode
    <3>1. Launched(stored[k], o).onAddTimer = o
      BY LaunchedEntry DEF Registry
    <3>2. /\ stored' = [stored EXCEPT ![k] = Launched(stored[k], o)]
          /\ timer' = [timer EXCEPT ![o] = "armed"]
          /\ proc' = [proc EXCEPT ![o] = "running"]
          /\ mode' = mode
      BY <1>3 DEF OnAdd
    <3>3. stored'[k].onAddTimer = o /\ \A j \in Key \ {k} : stored'[j] = stored[j]
      BY <3>1, <3>2 DEF Registry
    <3> QED BY <3>2, <3>3
  <2>3. ASSUME NEW j \in Key \ {k}, stored[j] # Absent
        PROVE  stored[j].onAddTimer \in Op \ {o} /\ stored[j].process # o
    <3>1. /\ stored[j].onAddTimer \in Op /\ proc[stored[j].onAddTimer] # "none"
          /\ stored[j].process \in {None, stored[j].onAddTimer}
      BY <2>3 DEF EntriesOwned
    <3> QED BY <2>1, <3>1, StoredObjectsAssumption
  <2> SUFFICES ASSUME mode' = "up", NEW j \in Key, stored'[j] # Absent, stored'[j].isBeingAdded
               PROVE  \/ timer'[stored'[j].onAddTimer] # "none"
                      \/ /\ HasProcess(stored', j)
                         /\ proc'[stored'[j].process] \in {"reaped", "gone"}
    BY DEF AddingIsTimed
  <2>5. CASE j = k
    BY <2>2, <2>5
  <2>6. CASE j # k
    <3>1. HasProcess(stored, j) => stored[j].process \in Op \ {o}
      BY <2>3, <2>6 DEF HasProcess, EntriesOwned
    <3> QED BY <2>2, <2>3, <2>6, <3>1 DEF AddingIsTimed, HasProcess
  <2> QED BY <2>5, <2>6
<1>4. ASSUME NEW k \in Key, OnStop(o, k) PROVE AddingIsTimed'
  <2>1. /\ stored[k] # Absent /\ stored' = [stored EXCEPT ![k].isBeingStopped = TRUE]
        /\ UNCHANGED <<mode, timer, proc>>
    BY <1>4 DEF OnStop, CanStop, HasEndpoint
  <2>2. Flagged(stored, stored')
    BY <2>1, FlagsKeep
  <2>3. \A j \in Key : stored'[j].isBeingAdded => stored[j].isBeingAdded
    BY <2>1, FlagsApart
  <2> QED BY <2>1, <2>2, <2>3, MarksKept DEF Flagged
<1> QED BY <1>1, <1>2, <1>3, <1>4 DEF Dispatch, CommandThrows, StopThrows, Shutdown

\* The timer's handler clears the mark of the entry it finds, or the daemon dies,
\* or it has found the process of the entry dead.
LEMMA AddTimerKeepsMarks ==
    ASSUME Inv, AddingIsTimed, NEW o \in Op, AddTimer(o)
    PROVE  AddingIsTimed'
<1> USE DEF Inv, Typed, TypeOK
<1> DEFINE k == keyOf[o]
<1>1. /\ timer[o] \in {"expired", "aborted"} /\ timer' = [timer EXCEPT ![o] = "none"]
      /\ phase[o] = "adding" /\ k \in Key
  BY DEF AddTimer, AddTimerAborted, AddTimerFindsNoEntry, AddTimerFindsNoProcess,
         AddTimerFindsRunning, AddTimerFindsDead, HandleExpiry, KeyKnown, TimersOwned
<1>2. ASSUME NEW j \in Key, stored[j] # Absent, stored[j].onAddTimer = o
      PROVE  j = k
  BY <1>2 DEF EntriesOwned
<1>3. CASE AddTimerAborted(o)
  <2>1. CASE stored[k] = Absent
    <3>1. UNCHANGED <<mode, stored, proc>>
      BY <1>3, <2>1 DEF AddTimerAborted
    <3>2. \A j \in Key : stored[j] # Absent => stored[j].onAddTimer \in Op \ {o}
      BY <1>2, <2>1 DEF EntriesOwned
    <3> QED BY <1>1, <3>1, <3>2, MarksKept
  <2>2. CASE stored[k] # Absent
    <3>1. /\ UNCHANGED <<mode, proc>>
          /\ stored' = [stored EXCEPT ![k].isBeingAdded = FALSE, ![k].confirmAdded = FALSE]
      BY <1>3, <2>2 DEF AddTimerAborted
    <3>2. Flagged(stored, stored')
      BY <1>1, <2>2, <3>1, FlagsKeep
    <3>3. Unmarks(stored, stored', k)
      BY <1>1, <2>2, <3>1, Unmarked
    <3>4. \A j \in Key : stored[j] # Absent => stored[j].onAddTimer \in Op
      BY DEF EntriesOwned
    <3> QED BY <1>1, <1>2, <3>1, <3>2, <3>3, <3>4, MarksKept DEF Flagged, Unmarks
  <2> QED BY <2>1, <2>2
<1>4. CASE AddTimerFindsNoEntry(o)
  <2>1. UNCHANGED <<mode, stored, proc>> /\ stored[k] = Absent
    BY <1>4 DEF AddTimerFindsNoEntry, HandleExpiry
  <2>2. \A j \in Key : stored[j] # Absent => stored[j].onAddTimer \in Op \ {o}
    BY <1>2, <2>1 DEF EntriesOwned
  <2> QED BY <1>1, <2>1, <2>2, MarksKept
<1>5. CASE AddTimerFindsNoProcess(o)
  BY <1>5 DEF AddTimerFindsNoProcess, AddingIsTimed
<1>6. CASE AddTimerFindsRunning(o)
  <2>1. /\ stored[k] # Absent /\ stored' = [stored EXCEPT ![k].isBeingAdded = FALSE]
        /\ UNCHANGED <<mode, proc>>
    BY <1>6 DEF AddTimerFindsRunning, HandleExpiry, HasProcess
  <2>2. Flagged(stored, stored')
    BY <1>1, <2>1, FlagsKeep
  <2>3. Unmarks(stored, stored', k)
    BY <1>1, <2>1, Unmarked
  <2>4. \A j \in Key : stored[j] # Absent => stored[j].onAddTimer \in Op
    BY DEF EntriesOwned
  <2> QED BY <1>1, <1>2, <2>1, <2>2, <2>3, <2>4, MarksKept DEF Flagged, Unmarks
<1>7. CASE AddTimerFindsDead(o)
  <2> DEFINE p == stored[k].process
  <2>1. /\ UNCHANGED <<mode, stored>> /\ HasProcess(stored, k)
        /\ proc[p] # "running" /\ proc' = Reap(p)
    BY <1>7 DEF AddTimerFindsDead, HandleExpiry
  <2>2. p \in Op /\ proc[p] # "none"
    BY <1>1, <2>1 DEF HasProcess, EntriesOwned
  <2>3. proc'[p] \in {"reaped", "gone"}
    BY <2>1, <2>2 DEF Reap, ProcessState
  <2>4. \A q \in Op : proc[q] \in {"reaped", "gone"} => proc'[q] \in {"reaped", "gone"}
    BY <2>1 DEF Reap
  <2> SUFFICES ASSUME mode' = "up", NEW j \in Key, stored'[j] # Absent, stored'[j].isBeingAdded
               PROVE  \/ timer'[stored'[j].onAddTimer] # "none"
                      \/ /\ HasProcess(stored', j)
                         /\ proc'[stored'[j].process] \in {"reaped", "gone"}
    BY DEF AddingIsTimed
  <2>5. CASE j = k
    BY <2>1, <2>3, <2>5 DEF HasProcess
  <2>6. CASE j # k
    <3>1. stored[j].onAddTimer \in Op \ {o}
      BY <1>2, <2>1, <2>6 DEF EntriesOwned
    <3>2. HasProcess(stored, j) => stored[j].process \in Op
      BY DEF HasProcess, EntriesOwned
    <3> QED BY <1>1, <2>1, <2>4, <3>1, <3>2 DEF AddingIsTimed, HasProcess
  <2> QED BY <2>5, <2>6
<1> QED BY <1>3, <1>4, <1>5, <1>6, <1>7 DEF AddTimer

\* A process whose exit is handled still has its timer; the entry that keeps its
\* socket stays marked and keeps the timer too.
LEMMA ExitKeepsMarks ==
    ASSUME Inv, AddingIsTimed, NEW o \in Op, ExitHandler(o)
    PROVE  AddingIsTimed'
<1> USE DEF Inv, Typed, TypeOK
<1>1. /\ mode' = mode /\ proc' = [proc EXCEPT ![o] = "gone"]
      /\ \A p \in Op : proc[p] \in {"reaped", "gone"} => proc'[p] \in {"reaped", "gone"}
  BY DEF ExitHandler, OnProcessExit, OnProcessExitError
<1>2. CASE OnProcessExitError(o)
  <2>1. UNCHANGED <<stored, timer>>
    BY <1>2 DEF OnProcessExitError
  <2> QED BY <1>1, <2>1, MarksKept
<1>3. CASE OnProcessExit(o)
  <2> DEFINE k == keyOf[o]
  <2>1. /\ k \in Key /\ HasProcess(stored, k) /\ stored[k] # Absent /\ stored[k].process = o
        /\ proc[o] = "exited" /\ UpdateRegistry(RemoveStoredProcess(stored, k))
    BY <1>3 DEF OnProcessExit, KeyKnown, LiveProcessRegistered, HasProcess
  <2>2. stored' = RemoveStoredProcess(stored, k)
    BY <2>1 DEF UpdateRegistry
  <2> SUFFICES ASSUME mode' = "up", NEW j \in Key, stored'[j] # Absent, stored'[j].isBeingAdded
               PROVE  \/ timer'[stored'[j].onAddTimer] # "none"
                      \/ /\ HasProcess(stored', j)
                         /\ proc'[stored'[j].process] \in {"reaped", "gone"}
    BY DEF AddingIsTimed
  <2>3. /\ stored[j] # Absent /\ stored[j].isBeingAdded
        /\ stored'[j].onAddTimer = stored[j].onAddTimer /\ stored[j].onAddTimer \in Op
    BY <2>1, <2>2, RemovalsAddNothing DEF EntriesOwned
  <2>4. CASE timer[stored[j].onAddTimer] # "none"
    BY <2>1, <2>3, <2>4, WaitsStay
  <2>5. CASE timer[stored[j].onAddTimer] = "none"
    <3>1. HasProcess(stored, j) /\ proc[stored[j].process] \in {"reaped", "gone"}
      BY <1>1, <2>3, <2>5 DEF AddingIsTimed
    <3>2. j # k
      BY <2>1, <3>1
    <3>3. stored'[j] = stored[j]
      BY <2>1, <2>2, <3>2, ProcessRemoved
    <3>4. stored[j].process \in Op
      BY <3>1 DEF HasProcess, EntriesOwned
    <3> QED BY <1>1, <3>1, <3>3, <3>4 DEF HasProcess
  <2> QED BY <2>4, <2>5
<1> QED BY <1>2, <1>3 DEF ExitHandler

\* The end of a socket keeps process, mark and timer of the entry that stays.
LEMMA SocketRemovalKeepsMarks ==
    ASSUME Inv, AddingIsTimed, UNCHANGED <<mode, proc>>, NEW k \in Key,
           UpdateRegistry(IF stored[k] = Absent THEN stored ELSE RemoveStoredSocket(stored, k))
    PROVE  AddingIsTimed'
<1> USE DEF Inv, Typed, TypeOK
<1>1. \A j \in Key : stored[j] # Absent => stored[j].onAddTimer \in Op
  BY DEF EntriesOwned
<1>2. \A o \in Op : timer[o] # "none" => timer'[o] # "none"
  BY WaitsStay
<1>3. CASE stored[k] = Absent
  BY <1>1, <1>2, <1>3, MarksKept DEF UpdateRegistry
<1>4. CASE stored[k] # Absent
  <2>1. stored' = RemoveStoredSocket(stored, k)
    BY <1>4 DEF UpdateRegistry
  <2>2. \A j \in Key \ {k} : stored'[j] = stored[j]
    BY <1>4, <2>1, SocketRemoved
  <2>3. stored'[k] # Absent => stored'[k].process = stored[k].process
    BY <1>4, <2>1, SocketRemoved
  <2>4. ASSUME NEW j \in Key, stored'[j] # Absent
        PROVE  /\ stored[j] # Absent
               /\ stored'[j].isBeingAdded = stored[j].isBeingAdded
               /\ stored'[j].onAddTimer = stored[j].onAddTimer
    BY <1>4, <2>1, <2>4, RemovalsAddNothing
  <2>5. ASSUME NEW j \in Key, stored'[j] # Absent
        PROVE  stored'[j].process = stored[j].process
    BY <2>2, <2>3, <2>5
  <2> QED BY <1>1, <1>2, <2>4, <2>5, MarksKept
<1> QED BY <1>3, <1>4

\* No step leaves a mark without a handler that is to remove it.
LEMMA NextKeepsMarks == Inv /\ AddingIsTimed /\ [Next]_vars => AddingIsTimed'
<1> USE DEF Inv, Typed, TypeOK
<1> SUFFICES ASSUME Inv, AddingIsTimed, [Next]_vars PROVE AddingIsTimed'
  OBVIOUS
<1>1. CASE Return \/ UNCHANGED vars
  BY <1>1 DEF Return, vars, AddingIsTimed, HasProcess
<1>2. ASSUME NEW o \in Op, StopCompletion(o) PROVE AddingIsTimed'
  <2>1. ASSUME NEW written \in BOOLEAN, StopWritten(o, written) PROVE AddingIsTimed'
    <3>1. keyOf[o] \in Key /\ UNCHANGED <<mode, proc>>
      BY <2>1 DEF StopWritten, KeyKnown
    <3> QED BY <2>1, <3>1, SocketRemovalKeepsMarks DEF StopWritten
  <2>2. ASSUME NEW read \in Answer \cup {"failed"}, StopRead(o, read) PROVE AddingIsTimed'
    BY <2>2 DEF StopRead, AddingIsTimed, HasProcess
  <2> QED BY <1>2, <2>1, <2>2 DEF StopCompletion
<1>3. CASE OnInotifyUpdate
  <2>1. PICK k \in Key : OnSocketCreated(k) \/ OnSocketDeleted(k)
    BY <1>3 DEF OnInotifyUpdate
  <2>2. CASE OnSocketCreated(k)
    <3>1. UNCHANGED <<mode, timer, proc>>
      BY <2>2 DEF OnSocketCreated, NextEvent
    <3>2. CASE stored' = stored
      BY <3>1, <3>2, MarksKept
    <3>3. CASE stored' # stored
      <4>1. stored[k] # Absent /\ stored' = [stored EXCEPT ![k].endpoint = TRUE]
        BY <2>2, <3>3 DEF OnSocketCreated
      <4>2. Flagged(stored, stored')
        BY <4>1, FlagsKeep
      <4>3. \A j \in Key : stored'[j].isBeingAdded => stored[j].isBeingAdded
        BY <4>1, FlagsApart
      <4> QED BY <3>1, <4>2, <4>3, MarksKept DEF Flagged
    <3> QED BY <3>2, <3>3
  <2>3. CASE OnSocketDeleted(k)
    BY <2>3, SocketRemovalKeepsMarks DEF OnSocketDeleted, NextEvent
  <2> QED BY <2>1, <2>2, <2>3
<1>4. CASE Environment
  <2>1. /\ UNCHANGED <<mode, stored>>
        /\ \A o \in Op : timer[o] # "none" => timer'[o] # "none"
        /\ \A o \in Op : proc[o] \in {"reaped", "gone"} => proc'[o] \in {"reaped", "gone"}
    BY <1>4 DEF Environment, Accept, TimerExpires, ProcessExits, SocketAppears,
                SocketVanishes, SocketAbandoned
  <2>2. \A k \in Key : stored[k] # Absent => stored[k].onAddTimer \in Op
    BY DEF EntriesOwned
  <2> QED BY <2>1, <2>2, MarksKept
<1> QED BY <1>1, <1>2, <1>3, <1>4, DispatchKeepsMarks, AddTimerKeepsMarks, ExitKeepsMarks
        DEF Next, Daemon

\* Up to the shutdown, an entry marked as being added is unmarked by a handler still
\* to come, unless its process was found dead (callbacks.cpp:214-276).
THEOREM AddingTimed == Spec => []AddingIsTimed
<1>1. Init => AddingIsTimed
  BY DEF Init, AddingIsTimed
<1> QED BY <1>1, NextKeepsMarks, Invariance, PTL DEF Spec

-----------------------------------------------------------------------------
(* What drives an add to its answer, and an exit to the registry.          *)

\* Where operations and waits stay, or end, together nothing is left undriven.
LEMMA WaitsKept ==
    ASSUME PendingAddHasTimer, Running' => Running,
           \A o \in Op : phase'[o] = "adding" =>
              phase[o] = "adding" /\ (timer[o] # "none" => timer'[o] # "none")
    PROVE  PendingAddHasTimer'
  BY DEF PendingAddHasTimer

\* A command is not an add in progress; it becomes one with its timer.
LEMMA DispatchKeepsWaits ==
    ASSUME Inv, PendingAddHasTimer, NEW o \in Op, Dispatch(o)
    PROVE  PendingAddHasTimer'
<1> USE DEF Inv, Typed, TypeOK
<1>1. Running
  BY DEF Dispatch, ReadFails, Unrecognised, OnPing, OnGetStatus, AddRefused, CommandThrows,
         StopRefused, Shutdown, OnAdd, OnStop, StopThrows, Dispatched
<1>2. CASE ReadFails(o) \/ Unrecognised(o) \/ OnPing(o) \/ OnGetStatus(o) \/ AddRefused(o)
              \/ StopRefused(o) \/ CommandThrows(o)
  <2>1. /\ UNCHANGED timer
        /\ UNCHANGED phase \/ phase' = [phase EXCEPT ![o] = "done"]
    BY <1>2 DEF ReadFails, Unrecognised, OnPing, OnGetStatus, AddRefused, StopRefused,
                CommandThrows, Reply
  <2> QED BY <1>1, <2>1, WaitsKept
<1>3. CASE Shutdown(o)
  <2>1. /\ \A p \in Op : timer[p] # "none" => timer'[p] # "none"
        /\ phase' = [phase EXCEPT ![o] = "done"]
    BY <1>3, WaitsStay DEF Shutdown, Reply
  <2> QED BY <1>1, <2>1, WaitsKept
<1>4. ASSUME NEW k \in Key, OnAdd(o, k) PROVE PendingAddHasTimer'
  BY <1>1, <1>4 DEF OnAdd, PendingAddHasTimer
<1>5. ASSUME NEW k \in Key, OnStop(o, k) \/ StopThrows(o, k) PROVE PendingAddHasTimer'
  <2>1. /\ UNCHANGED timer
        /\ UNCHANGED phase \/ phase' = [phase EXCEPT ![o] = "stopWrite"]
    BY <1>5 DEF OnStop, StopThrows
  <2> QED BY <1>1, <2>1, WaitsKept
<1> QED BY <1>2, <1>3, <1>4, <1>5 DEF Dispatch

\* The timer's handler ends its add, or the daemon dies with it.
LEMMA AddTimerKeepsWaits ==
    ASSUME Inv, PendingAddHasTimer, NEW o \in Op, AddTimer(o)
    PROVE  PendingAddHasTimer'
<1> USE DEF Inv, Typed, TypeOK
<1>1. /\ Running /\ timer' = [timer EXCEPT ![o] = "none"]
      /\ \/ phase' = [phase EXCEPT ![o] = "done"]
         \/ mode' = "segfault"
  BY DEF AddTimer, AddTimerAborted, AddTimerFindsNoEntry, AddTimerFindsNoProcess,
         AddTimerFindsRunning, AddTimerFindsDead, HandleExpiry, Reply
<1> QED BY <1>1 DEF PendingAddHasTimer, Running

\* No step leaves an add to wait for nothing.
LEMMA NextKeepsWaits == Inv /\ PendingAddHasTimer /\ [Next]_vars => PendingAddHasTimer'
<1> USE DEF Inv, Typed, TypeOK
<1> SUFFICES ASSUME Inv, PendingAddHasTimer, [Next]_vars PROVE PendingAddHasTimer'
  OBVIOUS
<1>1. CASE \E o \in Op : ExitHandler(o)
  <2>1. /\ UNCHANGED <<mode, phase>>
        /\ UNCHANGED timer \/ \E registry : UpdateRegistry(registry)
    BY <1>1 DEF ExitHandler, OnProcessExit, OnProcessExitError
  <2> QED BY <2>1, WaitsStay, WaitsKept DEF Running
<1>2. ASSUME NEW o \in Op, StopCompletion(o) PROVE PendingAddHasTimer'
  <2>1. /\ UNCHANGED mode
        /\ UNCHANGED timer \/ \E registry : UpdateRegistry(registry)
        /\ \/ phase' = [phase EXCEPT ![o] = "stopRead"]
           \/ phase' = [phase EXCEPT ![o] = "done"]
    BY <1>2 DEF StopCompletion, StopWritten, StopRead, Reply
  <2> QED BY <2>1, WaitsStay, WaitsKept DEF Running
<1>3. CASE OnInotifyUpdate
  <2>1. /\ UNCHANGED <<mode, phase>>
        /\ UNCHANGED timer \/ \E registry : UpdateRegistry(registry)
    BY <1>3 DEF OnInotifyUpdate, OnSocketCreated, OnSocketDeleted, NextEvent
  <2> QED BY <2>1, WaitsStay, WaitsKept DEF Running
<1>4. CASE Environment
  <2>1. /\ UNCHANGED mode
        /\ \A o \in Op : phase'[o] = "adding" => phase[o] = "adding"
        /\ \A o \in Op : timer[o] # "none" => timer'[o] # "none"
    BY <1>4 DEF Environment, Accept, TimerExpires, ProcessExits, SocketAppears,
                SocketVanishes, SocketAbandoned
  <2> QED BY <2>1, WaitsKept DEF Running
<1>5. CASE Return \/ UNCHANGED vars
  BY <1>5 DEF Return, vars, PendingAddHasTimer, Running
<1> QED BY <1>1, <1>2, <1>3, <1>4, <1>5, DispatchKeepsWaits, AddTimerKeepsWaits
        DEF Next, Daemon

\* While the daemon runs, the answer to an add is still owed by a timer that has yet
\* to be handled: to erase or to replace the entry that owns it cancels the wait,
\* and the handler comes all the same (callbacks.cpp:214).
THEOREM AddsAreDriven == Spec => []PendingAddHasTimer
<1>1. Init => PendingAddHasTimer
  BY DEF Init, PendingAddHasTimer
<1> QED BY <1>1, NextKeepsWaits, Invariance, PTL DEF Spec

\* A step that reports an exit has found the process in the entry of its class, and
\* has left it in none.
LEMMA ReportingUnregisters ==
    Inv /\ [Next]_vars =>
        \A o \in Op : proc[o] = "exited" /\ proc'[o] = "gone" => o \notin Registered(stored')
<1> SUFFICES ASSUME Inv, [Next]_vars, NEW o \in Op, proc[o] = "exited", proc'[o] = "gone"
             PROVE  o \notin Registered(stored')
  OBVIOUS
<1> USE DEF Inv, Typed, TypeOK
<1>1. OnProcessExit(o)
  <2>1. \A p \in Op : ~Dispatch(p) /\ ~AddTimer(p) /\ ~StopCompletion(p)
    BY DEF Dispatch, ReadFails, Unrecognised, OnPing, OnGetStatus, AddRefused, CommandThrows,
           StopRefused, Shutdown, OnAdd, OnStop, StopThrows, AddTimer, AddTimerAborted,
           AddTimerFindsNoEntry, AddTimerFindsNoProcess, AddTimerFindsRunning,
           AddTimerFindsDead, HandleExpiry, Reap, StopCompletion, StopWritten, StopRead
  <2>2. ~OnInotifyUpdate /\ ~Return /\ ~Environment /\ ~UNCHANGED vars
    BY DEF OnInotifyUpdate, OnSocketCreated, OnSocketDeleted, NextEvent, Return, Environment,
           Accept, TimerExpires, ProcessExits, SocketAppears, SocketVanishes,
           SocketAbandoned, vars
  <2>3. PICK p \in Op : ExitHandler(p)
    BY <2>1, <2>2 DEF Next, Daemon
  <2>4. p = o
    BY <2>3 DEF ExitHandler, OnProcessExit, OnProcessExitError
  <2> QED BY <2>3, <2>4 DEF ExitHandler, OnProcessExitError
<1> DEFINE k == keyOf[o]
<1>2. /\ k \in Key /\ HasProcess(stored, k) /\ stored[k].process = o
      /\ stored' = RemoveStoredProcess(stored, k)
  BY <1>1 DEF OnProcessExit, UpdateRegistry, KeyKnown, LiveProcessRegistered, HasProcess
<1>3. ~HasProcess(stored', k) /\ \A j \in Key \ {k} : stored'[j] = stored[j]
  BY <1>2, ProcessRemoved DEF HasProcess
<1>4. ASSUME NEW j \in Key, HasProcess(stored, j), stored[j].process = o PROVE j = k
  <2>1. stored[j].onAddTimer = o
    BY <1>4 DEF HasProcess, EntriesOwned
  <2> QED BY <1>4, <2>1 DEF HasProcess, EntriesOwned
<1> QED BY <1>3, <1>4 DEF Registered, HasProcess

\* The exit handler, which knows the class and not the entry, takes out the process
\* that has exited and no other (moman.cpp:351-371).
THEOREM ExitsUnregister == Spec => ExitUnregisters
  BY ReportingUnregisters, Invariance, PTL DEF Spec, ExitUnregisters

-----------------------------------------------------------------------------
(* The socket directory's events.                                          *)

Created(k) == [key |-> k, type |-> "IN_CREATE"]
Deleted(k) == [key |-> k, type |-> "IN_DELETE"]

\* The creation of a file that is gone is followed by its removal.
CreationsAreUndone ==
    mode = "up" => \A k \in Key : sock[k] = "absent" =>
        \A i \in 1..Len(events) : events[i] = Created(k) =>
            \E j \in (i + 1)..Len(events) : events[j] = Deleted(k)

EventsInv == EndpointBacked /\ CreationsAreUndone

\* Where no event comes or goes and no endpoint is set, both stay true.
LEMMA NoEndpointSet ==
    ASSUME EventsInv, UNCHANGED <<mode, sock, events>>,
           \A k \in Key : HasEndpoint(stored', k) => HasEndpoint(stored, k)
    PROVE  EventsInv'
  BY DEF EventsInv, EndpointBacked, CreationsAreUndone, Created, Deleted

\* No command sets an endpoint: an add leaves the one it finds.
LEMMA DispatchSetsNoEndpoint ==
    ASSUME Inv, EventsInv, NEW o \in Op, Dispatch(o)
    PROVE  EventsInv'
<1> USE DEF Inv, Typed, TypeOK
<1>1. CASE ReadFails(o) \/ Unrecognised(o) \/ OnPing(o) \/ OnGetStatus(o) \/ AddRefused(o)
              \/ StopRefused(o)
  <2>1. UNCHANGED <<mode, stored, sock, events>>
    BY <1>1 DEF ReadFails, Unrecognised, OnPing, OnGetStatus, AddRefused, StopRefused
  <2> QED BY <2>1, NoEndpointSet
<1>2. CASE mode' # "up"
  BY <1>2 DEF EventsInv, EndpointBacked, CreationsAreUndone
<1>3. ASSUME NEW k \in Key, OnAdd(o, k) PROVE EventsInv'
  <2>1. stored' = [stored EXCEPT ![k] = Launched(stored[k], o)] /\ UNCHANGED <<mode, sock, events>>
    BY <1>3 DEF OnAdd
  <2>2. Launched(stored[k], o).endpoint => HasEndpoint(stored, k)
    <3>1. CASE stored[k] = Absent
      BY <3>1 DEF Launched, NewStoredObject
    <3>2. CASE stored[k] # Absent
      BY <3>2 DEF Launched, HasEndpoint, Registry, StoredObject
    <3> QED BY <3>1, <3>2
  <2>3. \A j \in Key : HasEndpoint(stored', j) => HasEndpoint(stored, j)
    BY <2>1, <2>2 DEF HasEndpoint, Registry
  <2> QED BY <2>1, <2>3, NoEndpointSet
<1>4. ASSUME NEW k \in Key, OnStop(o, k) PROVE EventsInv'
  <2>1. /\ stored[k] # Absent /\ stored' = [stored EXCEPT ![k].isBeingStopped = TRUE]
        /\ UNCHANGED <<mode, sock, events>>
    BY <1>4 DEF OnStop, CanStop, HasEndpoint
  <2>2. Flagged(stored, stored')
    BY <2>1, FlagsKeep
  <2>3. \A j \in Key : stored'[j].endpoint => stored[j].endpoint
    BY <2>1, FlagsApart
  <2> QED BY <2>1, <2>2, <2>3, NoEndpointSet DEF Flagged, HasEndpoint
<1> QED BY <1>1, <1>2, <1>3, <1>4 DEF Dispatch, CommandThrows, StopThrows, Shutdown

\* Nor does the delay timer's handler.
LEMMA AddTimerSetsNoEndpoint ==
    ASSUME Inv, EventsInv, NEW o \in Op, AddTimer(o)
    PROVE  EventsInv'
<1> USE DEF Inv, Typed, TypeOK
<1> DEFINE k == keyOf[o]
<1>1. CASE AddTimerFindsNoProcess(o)
  BY <1>1 DEF AddTimerFindsNoProcess, EventsInv, EndpointBacked, CreationsAreUndone
<1>2. CASE ~AddTimerFindsNoProcess(o)
  <2>1. k \in Key /\ UNCHANGED <<mode, sock, events>>
    BY <1>2 DEF AddTimer, AddTimerAborted, AddTimerFindsNoEntry, AddTimerFindsRunning,
                AddTimerFindsDead, HandleExpiry, KeyKnown, TimersOwned
  <2>2. \/ UNCHANGED stored
        \/ stored[k] # Absent /\ stored' = [stored EXCEPT ![k].isBeingAdded = FALSE]
        \/ stored[k] # Absent /\ stored' = [stored EXCEPT ![k].isBeingAdded = FALSE,
                                                          ![k].confirmAdded = FALSE]
    BY <1>2 DEF AddTimer, AddTimerAborted, AddTimerFindsNoEntry, AddTimerFindsRunning,
                AddTimerFindsDead, HandleExpiry, HasProcess
  <2>3. \A j \in Key : HasEndpoint(stored', j) => HasEndpoint(stored, j)
    <3>1. CASE UNCHANGED stored
      BY <3>1
    <3>2. CASE stored[k] # Absent /\ stored' = [stored EXCEPT ![k].isBeingAdded = FALSE]
      <4>1. Unmarks(stored, stored', k)
        BY <2>1, <3>2, Unmarked
      <4>2. EndpointsKept(stored, stored', k)
        BY <2>1, <3>2, UnmarkingKeepsEndpoints
      <4> QED BY <3>2, <4>1, <4>2 DEF Unmarks, EndpointsKept, HasEndpoint
    <3>3. CASE /\ stored[k] # Absent
               /\ stored' = [stored EXCEPT ![k].isBeingAdded = FALSE, ![k].confirmAdded = FALSE]
      <4>1. Unmarks(stored, stored', k)
        BY <2>1, <3>3, Unmarked
      <4>2. EndpointsKept(stored, stored', k)
        BY <2>1, <3>3, UnmarkingKeepsEndpoints
      <4> QED BY <3>3, <4>1, <4>2 DEF Unmarks, EndpointsKept, HasEndpoint
    <3> QED BY <2>2, <3>1, <3>2, <3>3
  <2> QED BY <2>1, <2>3, NoEndpointSet
<1> QED BY <1>1, <1>2

\* The removal of a process, or of a socket, takes endpoints away at most.
LEMMA RemovalSetsNoEndpoint ==
    ASSUME Inv, EventsInv, UNCHANGED <<mode, sock, events>>, NEW k \in Key,
           stored[k] # Absent =>
              stored' \in {RemoveStoredSocket(stored, k), RemoveStoredProcess(stored, k)},
           stored[k] = Absent => stored' = stored
    PROVE  EventsInv'
<1> USE DEF Inv, Typed, TypeOK
<1>1. \A j \in Key : HasEndpoint(stored', j) => HasEndpoint(stored, j)
  <2>1. CASE stored[k] = Absent
    BY <2>1
  <2>2. CASE stored[k] # Absent
    BY <2>2, RemovalsAddNothing DEF HasEndpoint
  <2> QED BY <2>1, <2>2
<1> QED BY <1>1, NoEndpointSet

\* An event is read: a creation that sets an endpoint is of a file that is there,
\* or whose removal is among the events that are left.
LEMMA InotifyKeepsEvents ==
    ASSUME Inv, EventsInv, OnInotifyUpdate
    PROVE  EventsInv'
<1> USE DEF Inv, Typed, TypeOK
<1>1. PICK k \in Key : OnSocketCreated(k) \/ OnSocketDeleted(k)
  BY DEF OnInotifyUpdate
<1>2. /\ events # <<>> /\ events' = Tail(events) /\ UNCHANGED <<mode, sock>>
      /\ Head(events) \in {Created(k), Deleted(k)}
      /\ OnSocketDeleted(k) => Head(events) = Deleted(k)
      /\ OnSocketCreated(k) => Head(events) = Created(k)
  BY <1>1 DEF OnSocketCreated, OnSocketDeleted, NextEvent, Created, Deleted
<1>3. /\ Len(events') = Len(events) - 1 /\ Len(events) \in Nat \ {0}
      /\ \A i \in 1..Len(events') : events'[i] = events[i + 1]
      /\ Head(events) = events[1]
  BY <1>2
<1>4. CreationsAreUndone'
  <2> SUFFICES ASSUME mode' = "up", NEW j \in Key, sock'[j] = "absent",
                      NEW i \in 1..Len(events'), events'[i] = Created(j)
               PROVE  \E n \in (i + 1)..Len(events') : events'[n] = Deleted(j)
    BY DEF CreationsAreUndone, Created, Deleted
  <2>1. PICK n \in (i + 2)..Len(events) : events[n] = Deleted(j)
    <3>1. i + 1 \in 1..Len(events) /\ events[i + 1] = Created(j)
      BY <1>3
    <3> QED BY <1>2, <3>1 DEF EventsInv, CreationsAreUndone
  <2>2. n - 1 \in (i + 1)..Len(events') /\ events'[n - 1] = Deleted(j)
    BY <1>3, <2>1
  <2> QED BY <2>2
<1>5. EndpointBacked'
  <2> SUFFICES ASSUME mode' = "up", NEW j \in Key, HasEndpoint(stored', j), sock'[j] = "absent"
               PROVE  \E i \in 1..Len(events') : events'[i] = Deleted(j)
    BY DEF EndpointBacked, Deleted
  <2>1. SUFFICES \E i \in 2..Len(events) : events[i] = Deleted(j)
    <3>1. PICK i \in 2..Len(events) : events[i] = Deleted(j)
      BY <2>1
    <3>2. i - 1 \in 1..Len(events') /\ events'[i - 1] = Deleted(j)
      BY <1>3, <3>1
    <3> QED BY <3>2
  <2>2. CASE Head(events) = Created(j)
    BY <1>2, <1>3, <2>2 DEF EventsInv, CreationsAreUndone
  <2>3. CASE Head(events) # Created(j)
    <3>1. HasEndpoint(stored, j) /\ Head(events) # Deleted(j)
      <4>1. CASE OnSocketCreated(k)
        <5>1. Head(events) = Created(k) /\ k # j
          BY <1>2, <2>3, <4>1
        <5>2. stored' = stored \/ stored' = [stored EXCEPT ![k].endpoint = TRUE]
          BY <4>1 DEF OnSocketCreated
        <5>3. stored'[j] = stored[j]
          BY <5>1, <5>2 DEF Registry
        <5> QED BY <5>1, <5>3 DEF HasEndpoint, Created, Deleted
      <4>2. CASE OnSocketDeleted(k)
        <5>1. Head(events) = Deleted(k)
          BY <1>2, <4>2
        <5>2. stored' = IF stored[k] = Absent THEN stored ELSE RemoveStoredSocket(stored, k)
          BY <4>2 DEF OnSocketDeleted, UpdateRegistry
        <5>3. ~HasEndpoint(stored', k)
          BY <5>2 DEF RemoveStoredSocket, HasEndpoint, Registry, StoredObject
        <5>4. j # k
          BY <5>3
        <5>5. stored'[j] = stored[j]
          BY <5>2, <5>4, SocketRemoved
        <5> QED BY <5>1, <5>4, <5>5 DEF HasEndpoint, Deleted
      <4> QED BY <1>1, <4>1, <4>2
    <3>2. PICK i \in 1..Len(events) : events[i] = Deleted(j)
      BY <1>2, <3>1 DEF EventsInv, EndpointBacked, Deleted
    <3>3. i # 1
      BY <1>3, <3>1, <3>2
    <3> QED BY <1>3, <3>2, <3>3
  <2> QED BY <2>2, <2>3
<1> QED BY <1>4, <1>5 DEF EventsInv

\* A file that goes is told of last; one that comes is there.
LEMMA EnvironmentKeepsEvents ==
    ASSUME Inv, EventsInv, Environment
    PROVE  EventsInv'
<1> USE DEF Inv, Typed, TypeOK
<1>1. CASE UNCHANGED <<sock, events>>
  <2>1. UNCHANGED <<mode, stored>>
    BY DEF Environment, Accept, TimerExpires, ProcessExits, SocketAppears, SocketVanishes,
           SocketAbandoned
  <2> QED BY <1>1, <2>1, NoEndpointSet
<1>2. ASSUME NEW k \in Key, SocketAbandoned(k) PROVE EventsInv'
  BY <1>2 DEF SocketAbandoned, EventsInv, EndpointBacked, CreationsAreUndone, Created, Deleted
<1>3. ASSUME NEW k \in Key, SocketAppears(k) \/ SocketVanishes(k), mode = "up" PROVE EventsInv'
  <2> DEFINE event == IF SocketAppears(k) THEN Created(k) ELSE Deleted(k)
  <2>1. /\ UNCHANGED <<mode, stored>> /\ events' = Append(events, event)
        /\ SocketVanishes(k) /\ ~SocketAppears(k) => event = Deleted(k)
        /\ \A j \in Key \ {k} : sock'[j] = sock[j]
        /\ SocketAppears(k) => sock'[k] = "live"
    BY <1>3 DEF SocketAppears, SocketVanishes, Notify, Created, Deleted
  <2> HIDE DEF event
  <2>2. /\ Len(events') = Len(events) + 1 /\ Len(events) \in Nat
        /\ \A i \in 1..Len(events) : events'[i] = events[i]
        /\ events'[Len(events')] = event
    BY <2>1
  <2>3. ASSUME NEW j \in Key, sock'[j] = "absent", j # k
        PROVE  /\ HasEndpoint(stored', j) =>
                    \E i \in 1..Len(events') : events'[i] = Deleted(j)
               /\ \A i \in 1..Len(events') : events'[i] = Created(j) =>
                    \E n \in (i + 1)..Len(events') : events'[n] = Deleted(j)
    <3>1. event # Created(j)
      BY <2>3 DEF event, Created, Deleted
    <3>2. sock[j] = "absent"
      BY <2>1, <2>3
    <3>3. HasEndpoint(stored, j) => \E i \in 1..Len(events) : events[i] = Deleted(j)
      BY <1>3, <3>2 DEF EventsInv, EndpointBacked, Deleted
    <3>4. \A i \in 1..Len(events) : events[i] = Created(j) =>
             \E n \in (i + 1)..Len(events) : events[n] = Deleted(j)
      BY <1>3, <3>2 DEF EventsInv, CreationsAreUndone
    <3>5. HasEndpoint(stored', j) => \E i \in 1..Len(events') : events'[i] = Deleted(j)
      BY <2>1, <2>2, <3>3
    <3>6. ASSUME NEW i \in 1..Len(events'), events'[i] = Created(j)
          PROVE  \E n \in (i + 1)..Len(events') : events'[n] = Deleted(j)
      <4>1. i \in 1..Len(events) /\ events[i] = Created(j)
        BY <2>2, <3>1, <3>6
      <4>2. PICK n \in (i + 1)..Len(events) : events[n] = Deleted(j)
        BY <3>4, <4>1
      <4> QED BY <2>2, <4>2
    <3> QED BY <3>5, <3>6
  <2>4. ASSUME sock'[k] = "absent"
        PROVE  /\ HasEndpoint(stored', k) =>
                    \E i \in 1..Len(events') : events'[i] = Deleted(k)
               /\ \A i \in 1..Len(events') : events'[i] = Created(k) =>
                    \E n \in (i + 1)..Len(events') : events'[n] = Deleted(k)
    <3>1. event = Deleted(k)
      BY <1>3, <2>1, <2>4
    <3>2. Deleted(k) # Created(k)
      BY DEF Created, Deleted
    <3> QED BY <2>2, <3>1, <3>2
  <2>5. ASSUME NEW j \in Key, sock'[j] = "absent"
        PROVE  /\ HasEndpoint(stored', j) =>
                    \E i \in 1..Len(events') : events'[i] = Deleted(j)
               /\ \A i \in 1..Len(events') : events'[i] = Created(j) =>
                    \E n \in (i + 1)..Len(events') : events'[n] = Deleted(j)
    BY <2>3, <2>4, <2>5
  <2> QED BY <2>5 DEF EventsInv, EndpointBacked, CreationsAreUndone, Created, Deleted
<1>4. CASE mode # "up"
  <2>1. mode' = mode
    BY DEF Environment, Accept, TimerExpires, ProcessExits, SocketAppears, SocketVanishes,
           SocketAbandoned
  <2> QED BY <1>4, <2>1 DEF EventsInv, EndpointBacked, CreationsAreUndone
<1> QED BY <1>1, <1>2, <1>3, <1>4 DEF Environment, Accept, TimerExpires, ProcessExits

\* No step leaves an endpoint without its file, or the event that tells of its end.
LEMMA NextKeepsEvents == Inv /\ EventsInv /\ [Next]_vars => EventsInv'
<1> USE DEF Inv, Typed, TypeOK
<1> SUFFICES ASSUME Inv, EventsInv, [Next]_vars PROVE EventsInv'
  OBVIOUS
<1>1. CASE Return
  BY <1>1 DEF Return, EventsInv, EndpointBacked, CreationsAreUndone
<1>2. CASE UNCHANGED vars
  BY <1>2, NoEndpointSet DEF vars
<1>3. ASSUME NEW o \in Op, StopCompletion(o) PROVE EventsInv'
  <2>1. ASSUME NEW written \in BOOLEAN, StopWritten(o, written) PROVE EventsInv'
    <3>1. keyOf[o] \in Key /\ UNCHANGED <<mode, sock, events>>
      BY <2>1 DEF StopWritten, KeyKnown
    <3> QED BY <2>1, <3>1, RemovalSetsNoEndpoint DEF StopWritten, UpdateRegistry
  <2>2. ASSUME NEW read \in Answer \cup {"failed"}, StopRead(o, read) PROVE EventsInv'
    BY <2>2, NoEndpointSet DEF StopRead
  <2> QED BY <1>3, <2>1, <2>2 DEF StopCompletion
<1>4. ASSUME NEW o \in Op, ExitHandler(o) PROVE EventsInv'
  <2>1. CASE OnProcessExit(o)
    <3>1. keyOf[o] \in Key /\ UNCHANGED <<mode, sock, events>>
      BY <2>1 DEF OnProcessExit, KeyKnown
    <3> QED BY <2>1, <3>1, RemovalSetsNoEndpoint DEF OnProcessExit, UpdateRegistry
  <2>2. CASE OnProcessExitError(o)
    BY <2>2, NoEndpointSet DEF OnProcessExitError
  <2> QED BY <1>4, <2>1, <2>2 DEF ExitHandler
<1> QED BY <1>1, <1>2, <1>3, <1>4, DispatchSetsNoEndpoint, AddTimerSetsNoEndpoint,
           InotifyKeepsEvents, EnvironmentKeepsEvents DEF Next, Daemon

\* A registered socket whose file is gone is about to be unregistered, whatever was
\* created and removed, and read, in between (moman.cpp:309-373).
THEOREM EndpointsBacked == Spec => []EndpointBacked
<1>1. Init => EventsInv
  BY DEF Init, EventsInv, EndpointBacked, CreationsAreUndone, HasEndpoint
<1> QED BY <1>1, NextKeepsEvents, Invariance, PTL DEF Spec, EventsInv

-----------------------------------------------------------------------------
(* The abstract specification: each handler is one step of the Supervisor, *)
(* or none.                                                                *)

abstractVars == <<slot, life, owner, replies>>

\* No answer, and nothing that a Supervisor sees, has changed.
LEMMA NothingSeen ==
    ASSUME Inv, UNCHANGED <<keyOf, replies, proc>>,
           \A k \in Key : /\ HasProcess(stored', k) <=> HasProcess(stored, k)
                          /\ HasProcess(stored, k) => stored'[k].process = stored[k].process
    PROVE  UNCHANGED abstractVars
  BY DEF abstractVars, slot, life, owner, Launches

\* An operation that has launched nothing, or whose process's key has a process that
\* runs, may be answered.
LEMMA AnswerRefines ==
    ASSUME Inv, NEW o \in Op, NEW answer \in Answer, Reply(o, answer), phase[o] # "done",
           proc[o] # "none" /\ answer = "ok" => Supervisor!Runs(keyOf[o]),
           UNCHANGED <<slot, life, owner>>
    PROVE  Supervisor!Next
<1>1. replies[o] = <<>> /\ replies \in [Op -> Seq(Answer)]
  BY DEF Inv, OperationPhases, Typed, TypeOK
<1>2. replies' = [replies EXCEPT ![o] = <<answer>>]
  BY <1>1 DEF Reply
<1>3. Supervisor!Respond(o, answer)
  BY <1>1, <1>2 DEF Supervisor!Respond
<1>4. Supervisor!Answer(o, answer)
  BY <1>3 DEF Supervisor!Answer, life, owner, Launches
<1> QED BY <1>4 DEF Supervisor!Next, Answer

\* A command is answered, launches a process, ends them all, or shows nothing yet.
LEMMA DispatchRefines ==
    ASSUME Inv, Inv', NEW o \in Op, Dispatch(o)
    PROVE  [Supervisor!Next]_abstractVars
<1> USE DEF Inv, Typed, TypeOK
<1>1. phase[o] = "accepted" /\ proc[o] = "none" /\ replies[o] = <<>>
  BY DEF Dispatch, ReadFails, Unrecognised, OnPing, OnGetStatus, AddRefused, CommandThrows,
         StopRefused, Shutdown, OnAdd, OnStop, StopThrows, Dispatched, OperationPhases
<1>2. CASE ReadFails(o) \/ CommandThrows(o)
  <2>1. UNCHANGED <<stored, keyOf, replies, proc>>
    BY <1>2 DEF ReadFails, CommandThrows
  <2> QED BY <2>1, NothingSeen
<1>3. CASE Unrecognised(o) \/ AddRefused(o) \/ StopRefused(o) \/ OnPing(o) \/ OnGetStatus(o)
  <2>1. PICK answer \in Answer : Reply(o, answer)
    BY <1>3 DEF Unrecognised, AddRefused, StopRefused, OnPing, OnGetStatus, Answer
  <2>2. UNCHANGED <<stored, keyOf, proc>>
    BY <1>3 DEF Unrecognised, AddRefused, StopRefused, OnPing, OnGetStatus
  <2>3. UNCHANGED <<slot, life, owner>>
    BY <2>2 DEF slot, life, owner, Launches
  <2> QED BY <1>1, <2>1, <2>3, AnswerRefines
<1>4. CASE Shutdown(o)
  <2>1. Supervisor!Respond(o, "ok")
    BY <1>1, <1>4 DEF Shutdown, Reply, Supervisor!Respond
  <2>2. slot' = [k \in Key |-> None]
    <3>1. stored' = TerminateProcesses(stored)
      BY <1>4 DEF Shutdown, UpdateRegistry
    <3>2. \A k \in Key : ~HasProcess(stored', k)
      BY <3>1, ProcessesTerminated DEF HasProcess
    <3> QED BY <3>2 DEF slot
  <2>3. ASSUME NEW p \in Op
        PROVE  /\ proc'[p] = "none" <=> proc[p] = "none"
               /\ proc'[p] # "running"
    <3>1. proc[p] = "running" => p \in Registered(stored)
      BY DEF LiveProcessRegistered, Registered, KeyKnown
    <3> QED BY <1>4, <3>1 DEF Shutdown
  <2>4. life' = [p \in Op |-> IF life[p] = "running" THEN "dead" ELSE life[p]]
    BY <2>3 DEF life, Launches
  <2>5. UNCHANGED owner
    BY <1>4, <2>3 DEF owner, Launches, Shutdown
  <2>6. Supervisor!Shutdown(o)
    BY <1>1, <2>1, <2>2, <2>4, <2>5 DEF Supervisor!Shutdown, life, Launches
  <2> QED BY <2>6 DEF Supervisor!Next
<1>5. ASSUME NEW k \in Key, OnAdd(o, k) PROVE [Supervisor!Next]_abstractVars
  <2>1. stored' = [stored EXCEPT ![k] = Launched(stored[k], o)]
    BY <1>5 DEF OnAdd
  <2>2. Launched(stored[k], o) # Absent /\ Launched(stored[k], o).process = o
    BY LaunchedEntry DEF Registry
  <2>3. slot' = [slot EXCEPT ![k] = o]
    BY <2>1, <2>2, StoredObjectsAssumption DEF slot, HasProcess, Registry
  <2>4. slot[k] = None
    BY <1>5 DEF OnAdd, CanAdd, slot, HasProcess
  <2>5. life[o] = "unborn" /\ life' = [life EXCEPT ![o] = "running"]
    BY <1>1, <1>5 DEF OnAdd, life, Launches
  <2>6. owner' = [owner EXCEPT ![o] = k]
    BY <1>5 DEF OnAdd, owner, Launches
  <2>7. Supervisor!Launch(o, k)
    BY <1>1, <1>5, <2>3, <2>4, <2>5, <2>6 DEF Supervisor!Launch, OnAdd
  <2> QED BY <2>7 DEF Supervisor!Next
<1>6. ASSUME NEW k \in Key, OnStop(o, k) \/ StopThrows(o, k)
      PROVE  [Supervisor!Next]_abstractVars
  <2>1. stored[k] # Absent /\ stored' = [stored EXCEPT ![k].isBeingStopped = TRUE]
    BY <1>6 DEF OnStop, StopThrows, CanStop, HasEndpoint
  <2>2. Flagged(stored, stored')
    BY <2>1, FlagsKeep
  <2>3. UNCHANGED slot
    BY <2>2 DEF Flagged, slot, HasProcess
  <2>4. UNCHANGED <<life, owner>>
    BY <1>1, <1>6 DEF OnStop, StopThrows, life, owner, Launches
  <2>5. UNCHANGED replies
    BY <1>6 DEF OnStop, StopThrows
  <2> QED BY <2>3, <2>4, <2>5 DEF abstractVars
<1> QED BY <1>2, <1>3, <1>4, <1>5, <1>6 DEF Dispatch

\* The delay timer's handler answers its add, with OK only when it has found the
\* process of its class running; or it says nothing.
LEMMA AddTimerRefines ==
    ASSUME Inv, Inv', NEW o \in Op, AddTimer(o)
    PROVE  [Supervisor!Next]_abstractVars
<1> USE DEF Inv, Typed, TypeOK
<1> DEFINE k == keyOf[o]
<1>1. k \in Key /\ phase[o] = "adding"
  BY DEF AddTimer, AddTimerAborted, AddTimerFindsNoEntry, AddTimerFindsNoProcess,
         AddTimerFindsRunning, AddTimerFindsDead, HandleExpiry, KeyKnown, TimersOwned
<1>2. ASSUME Flagged(stored, stored') PROVE UNCHANGED slot
  BY <1>2 DEF Flagged, slot, HasProcess
<1>3. CASE AddTimerAborted(o)
  <2>1. UNCHANGED <<keyOf, proc>>
    BY <1>3 DEF AddTimerAborted
  <2>2. UNCHANGED <<life, owner>>
    BY <2>1 DEF life, owner, Launches
  <2>3. CASE stored[k] = Absent
    <3>1. Reply(o, "error") /\ UNCHANGED stored
      BY <1>3, <2>3 DEF AddTimerAborted
    <3>2. UNCHANGED slot
      BY <3>1 DEF slot
    <3> QED BY <1>1, <2>2, <3>1, <3>2, AnswerRefines DEF Answer
  <2>4. CASE stored[k] # Absent
    <3>1. /\ stored' = [stored EXCEPT ![k].isBeingAdded = FALSE, ![k].confirmAdded = FALSE]
          /\ UNCHANGED replies
      BY <1>1, <1>3, <2>4 DEF AddTimerAborted, EntriesOwned
    <3>2. UNCHANGED slot
      BY <1>1, <1>2, <2>4, <3>1, FlagsKeep
    <3> QED BY <2>2, <3>1, <3>2 DEF abstractVars
  <2> QED BY <2>3, <2>4
<1>4. CASE AddTimerFindsNoEntry(o)
  <2>1. Reply(o, "error") /\ UNCHANGED <<stored, keyOf, proc>>
    BY <1>4 DEF AddTimerFindsNoEntry, HandleExpiry
  <2>2. UNCHANGED <<slot, life, owner>>
    BY <2>1 DEF slot, life, owner, Launches
  <2> QED BY <1>1, <2>1, <2>2, AnswerRefines DEF Answer
<1>5. CASE AddTimerFindsNoProcess(o)
  <2>1. UNCHANGED <<stored, keyOf, replies, proc>>
    BY <1>5 DEF AddTimerFindsNoProcess, HandleExpiry
  <2> QED BY <2>1, NothingSeen
<1>6. CASE AddTimerFindsRunning(o)
  <2>1. /\ Reply(o, "ok")
        /\ UNCHANGED <<keyOf, proc>>
        /\ HasProcess(stored, k) /\ proc[stored[k].process] = "running"
        /\ stored' = [stored EXCEPT ![k].isBeingAdded = FALSE]
    BY <1>6 DEF AddTimerFindsRunning, HandleExpiry
  <2>2. UNCHANGED <<slot, life, owner>>
    BY <1>1, <1>2, <2>1, FlagsKeep DEF life, owner, Launches, HasProcess
  <2>3. stored[k].process \in Op
    BY <1>1, <2>1 DEF HasProcess, EntriesOwned
  <2>4. Supervisor!Runs(k)
    BY <1>1, <2>1, <2>3, StoredObjectsAssumption DEF Supervisor!Runs, slot, life, Launches
  <2> QED BY <1>1, <2>1, <2>2, <2>4, AnswerRefines DEF Answer
<1>7. CASE AddTimerFindsDead(o)
  <2>1. Reply(o, "error") /\ UNCHANGED <<stored, keyOf>> /\ proc' = Reap(stored[k].process)
    BY <1>7 DEF AddTimerFindsDead, HandleExpiry
  <2>2. \A p \in Op : /\ proc'[p] = "none" <=> proc[p] = "none"
                      /\ proc'[p] = "running" <=> proc[p] = "running"
    BY <2>1 DEF Reap
  <2>3. UNCHANGED <<slot, life, owner>>
    BY <2>1, <2>2 DEF slot, life, owner, Launches
  <2> QED BY <1>1, <2>1, <2>3, AnswerRefines DEF Answer
<1> QED BY <1>3, <1>4, <1>5, <1>6, <1>7 DEF AddTimer

\* The exit handler forgets a process that is dead, or nothing.
LEMMA ExitRefines ==
    ASSUME Inv, Inv', NEW o \in Op, ExitHandler(o)
    PROVE  [Supervisor!Next]_abstractVars
<1> USE DEF Inv, Typed, TypeOK
<1>1. \A p \in Op : /\ proc'[p] = "none" <=> proc[p] = "none"
                    /\ proc'[p] = "running" <=> proc[p] = "running"
  BY DEF ExitHandler, OnProcessExit, OnProcessExitError
<1>2. UNCHANGED <<keyOf, replies>>
  BY DEF ExitHandler, OnProcessExit, OnProcessExitError
<1>3. UNCHANGED <<life, owner>>
  BY <1>1, <1>2 DEF life, owner, Launches
<1>4. CASE OnProcessExit(o)
  <2> DEFINE k == keyOf[o]
  <2>1. /\ k \in Key /\ HasProcess(stored, k) /\ stored[k].process = o
        /\ stored' = RemoveStoredProcess(stored, k)
    BY <1>4 DEF OnProcessExit, UpdateRegistry, KeyKnown, LiveProcessRegistered, HasProcess
  <2>2. slot[k] = o /\ life[o] = "dead"
    BY <1>4, <2>1 DEF OnProcessExit, slot, life, Launches
  <2>3. slot' = [slot EXCEPT ![k] = None]
    <3>1. \A j \in Key \ {k} : stored'[j] = stored[j]
      BY <2>1, ProcessRemoved DEF HasProcess
    <3>2. ~HasProcess(stored', k)
      BY <2>1, ProcessRemoved DEF HasProcess
    <3> QED BY <2>1, <3>1, <3>2 DEF slot, HasProcess
  <2>4. Supervisor!Forget(k)
    BY <1>2, <1>3, <2>2, <2>3, StoredObjectsAssumption DEF Supervisor!Forget
  <2> QED BY <2>1, <2>4 DEF Supervisor!Next
<1>5. CASE OnProcessExitError(o)
  <2>1. UNCHANGED slot
    BY <1>5 DEF OnProcessExitError, slot
  <2> QED BY <1>2, <1>3, <2>1 DEF abstractVars
<1> QED BY <1>4, <1>5 DEF ExitHandler

\* The end of a socket takes no process out of its entry.
LEMMA SocketRemovalKeepsSlots ==
    ASSUME Inv, NEW k \in Key,
           stored' = IF stored[k] = Absent THEN stored ELSE RemoveStoredSocket(stored, k)
    PROVE  UNCHANGED slot
<1>1. CASE stored[k] = Absent
  BY <1>1 DEF slot
<1>2. CASE stored[k] # Absent
  <2> USE DEF Inv, Typed, TypeOK
  <2>1. stored' = RemoveStoredSocket(stored, k)
    BY <1>2
  <2>2. ASSUME NEW j \in Key, j # k PROVE stored'[j] = stored[j]
    BY <1>2, <2>1, <2>2, SocketRemoved
  <2>3. HasProcess(stored', k) <=> HasProcess(stored, k)
    BY <1>2, <2>1, SocketRemoved DEF HasProcess
  <2>4. HasProcess(stored, k) => stored'[k].process = stored[k].process
    BY <1>2, <2>1, SocketRemoved DEF HasProcess
  <2>5. ASSUME NEW j \in Key
        PROVE  /\ HasProcess(stored', j) <=> HasProcess(stored, j)
               /\ HasProcess(stored, j) => stored'[j].process = stored[j].process
    BY <2>2, <2>3, <2>4 DEF HasProcess
  <2> QED BY <2>5 DEF slot
<1> QED BY <1>1, <1>2

\* A stop is answered, or shows nothing yet; it never touches a process.
LEMMA StopRefines ==
    ASSUME Inv, Inv', NEW o \in Op, StopCompletion(o)
    PROVE  [Supervisor!Next]_abstractVars
<1> USE DEF Inv, Typed, TypeOK
<1>1. /\ phase[o] \in {"stopWrite", "stopRead"} /\ keyOf[o] \in Key /\ proc[o] = "none"
      /\ UNCHANGED <<keyOf, proc>>
  BY DEF StopCompletion, StopWritten, StopRead, KeyKnown, OperationPhases
<1>2. UNCHANGED <<life, owner>>
  BY <1>1 DEF life, owner, Launches
<1>3. ASSUME NEW written \in BOOLEAN, StopWritten(o, written)
      PROVE  [Supervisor!Next]_abstractVars
  <2>1. UNCHANGED slot
    BY <1>1, <1>3, SocketRemovalKeepsSlots DEF StopWritten, UpdateRegistry
  <2>2. CASE written
    BY <1>2, <1>3, <2>1, <2>2 DEF StopWritten, abstractVars
  <2>3. CASE ~written
    <3>1. Reply(o, "error")
      BY <1>3, <2>3 DEF StopWritten
    <3> QED BY <1>1, <1>2, <2>1, <3>1, AnswerRefines DEF Answer
  <2> QED BY <2>2, <2>3
<1>4. ASSUME NEW read \in Answer \cup {"failed"}, StopRead(o, read)
      PROVE  [Supervisor!Next]_abstractVars
  <2>1. StopAnswer(read) \in Answer /\ Reply(o, StopAnswer(read)) /\ UNCHANGED stored
    BY <1>4 DEF StopRead, StopAnswer, Answer
  <2>2. UNCHANGED slot
    BY <2>1 DEF slot
  <2> QED BY <1>1, <1>2, <2>1, <2>2, AnswerRefines
<1> QED BY <1>3, <1>4 DEF StopCompletion

\* An event of the socket directory shows nothing.
LEMMA InotifyRefines ==
    ASSUME Inv, Inv', OnInotifyUpdate
    PROVE  [Supervisor!Next]_abstractVars
<1> USE DEF Inv, Typed, TypeOK
<1>1. PICK k \in Key : OnSocketCreated(k) \/ OnSocketDeleted(k)
  BY DEF OnInotifyUpdate
<1>2. UNCHANGED <<keyOf, replies, proc>>
  BY <1>1 DEF OnSocketCreated, OnSocketDeleted, NextEvent
<1>3. UNCHANGED slot
  <2>1. CASE OnSocketCreated(k)
    <3>1. CASE stored' = stored
      BY <3>1 DEF slot
    <3>2. CASE stored' # stored
      <4>1. stored[k] # Absent /\ stored' = [stored EXCEPT ![k].endpoint = TRUE]
        BY <2>1, <3>2 DEF OnSocketCreated
      <4>2. Flagged(stored, stored')
        BY <4>1, FlagsKeep
      <4> QED BY <4>2 DEF Flagged, slot, HasProcess
    <3> QED BY <3>1, <3>2
  <2>2. CASE OnSocketDeleted(k)
    BY <2>2, SocketRemovalKeepsSlots DEF OnSocketDeleted, UpdateRegistry
  <2> QED BY <1>1, <2>1, <2>2
<1> QED BY <1>2, <1>3 DEF abstractVars, life, owner, Launches

\* Outside the daemon, a process that runs may die; the rest shows nothing.
LEMMA EnvironmentRefines ==
    ASSUME Inv, Inv', Environment
    PROVE  [Supervisor!Next]_abstractVars
<1> USE DEF Inv, Typed, TypeOK
<1>1. ASSUME NEW o \in Op, Accept(o) \/ TimerExpires(o) PROVE UNCHANGED abstractVars
  BY <1>1 DEF Accept, TimerExpires, abstractVars, slot, life, owner, Launches
<1>2. ASSUME NEW o \in Op, ProcessExits(o) PROVE Supervisor!Next
  <2>1. life[o] = "running" /\ life' = [life EXCEPT ![o] = "dead"]
    BY <1>2 DEF ProcessExits, life, Launches
  <2>2. UNCHANGED <<slot, owner, replies>>
    BY <1>2 DEF ProcessExits, slot, owner, Launches
  <2> QED BY <2>1, <2>2 DEF Supervisor!Next, Supervisor!Die
<1>3. ASSUME NEW k \in Key, SocketAppears(k) \/ SocketVanishes(k) \/ SocketAbandoned(k)
      PROVE  UNCHANGED abstractVars
  BY <1>3 DEF SocketAppears, SocketVanishes, SocketAbandoned, abstractVars, slot, life, owner,
              Launches
<1> QED BY <1>1, <1>2, <1>3 DEF Environment

\* Every step is one of the Supervisor, or none.
LEMMA NextRefines == Inv /\ Inv' /\ [Next]_vars => [Supervisor!Next]_(Supervisor!vars)
<1> SUFFICES ASSUME Inv, Inv', [Next]_vars PROVE [Supervisor!Next]_abstractVars
  BY DEF Supervisor!vars, abstractVars
<1>1. CASE Return \/ UNCHANGED vars
  <2>1. UNCHANGED <<stored, keyOf, replies, proc>>
    BY <1>1 DEF Return, vars
  <2> QED BY <2>1, NothingSeen
<1> QED BY <1>1, DispatchRefines, AddTimerRefines, ExitRefines, StopRefines,
           InotifyRefines, EnvironmentRefines DEF Next, Daemon

\* Every behaviour of the daemon is one of the abstract Supervisor: its timers,
\* signals, sockets and the order of its handlers do not show.
THEOREM Refinement == Spec => ImplementsSupervisor
<1>1. Init => Supervisor!Init
  BY DEF Init, Supervisor!Init, slot, life, owner, Launches, HasProcess
<1> QED BY <1>1, NextRefines, Invariance, PTL DEF Spec, ImplementsSupervisor, Supervisor!Spec
==============================================================================
