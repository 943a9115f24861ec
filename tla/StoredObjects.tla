---------------------------- MODULE StoredObjects ----------------------------
(***************************************************************************)
(* The registry a MonitorManager keeps of the monitors (and, in a second   *)
(* map of the same type, of the scrapers) it supervises: one StoredObject  *)
(* per class name.  Both maps are one function here: a key is a pair of    *)
(* kind and class name, and only its identity matters.                     *)
(*                                                                         *)
(* A process, like the delay timer of the add that launched it, is named   *)
(* by the operation that created it.                                       *)
(***************************************************************************)
CONSTANTS
    Key,     \* the (kind, class name) pairs
    Op,      \* the operations clients ask for
    None,    \* a null unique_ptr or shared_ptr
    Absent   \* no entry under this key: find() returns end()

StoredObject ==
    [process        : Op \cup {None},
     endpoint       : BOOLEAN,          \* is p_endpoint set?
     onAddTimer     : Op \cup {None},
     isBeingAdded   : BOOLEAN,
     isBeingStopped : BOOLEAN,
     confirmAdded   : BOOLEAN]

ASSUME StoredObjectsAssumption ==
    /\ None \notin Op
    /\ Absent \notin StoredObject

Registry == [Key -> StoredObject \cup {Absent}]

NewStoredObject ==
    [process |-> None, endpoint |-> FALSE, onAddTimer |-> None,
     isBeingAdded |-> FALSE, isBeingStopped |-> FALSE, confirmAdded |-> FALSE]

\* The entry onAdd leaves behind: it reuses the one it found, or makes one.
Launched(entry, o) ==
    [(IF entry = Absent THEN NewStoredObject ELSE entry) EXCEPT
        !.process = o, !.isBeingAdded = TRUE, !.onAddTimer = o]

\* Fault: the socket's removal erases the entry whatever process it holds.
RemoveStoredSocketErasing(map, k) == [map EXCEPT ![k] = Absent]

\* An entry without a process goes with its socket.
RemoveStoredSocket(map, k) ==
    [map EXCEPT ![k] = IF @.process = None THEN Absent
                       ELSE [@ EXCEPT !.endpoint = FALSE]]

\* Fault: the entry is never erased by the exit of its process.
RemoveStoredProcessKeeping(map, k) == [map EXCEPT ![k].process = None]

\* An entry without a socket goes with its process.
RemoveStoredProcess(map, k) ==
    [map EXCEPT ![k] = IF ~@.endpoint THEN Absent
                       ELSE [@ EXCEPT !.process = None]]

HasProcess(map, k) == map[k] # Absent /\ map[k].process # None
HasEndpoint(map, k) == map[k] # Absent /\ map[k].endpoint

\* The processes the registry holds.
Registered(map) == {map[k].process : k \in {j \in Key : HasProcess(map, j)}}

\* Every process is removed; an entry that has a socket stays.
TerminateProcesses(map) ==
    [k \in Key |-> IF HasProcess(map, k) THEN RemoveStoredProcess(map, k)[k]
                   ELSE map[k]]
==============================================================================
