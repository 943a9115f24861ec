------------------------------- MODULE Inotify -------------------------------
(***************************************************************************)
(* The inotify wrapper (inotify-cxx) and what is on both sides of it: the  *)
(* files of the configuration directory, which other programs change, and  *)
(* the kernel's marks and event queue.                                     *)
(*                                                                         *)
(* An InotifyWatch is added at most once and never enabled again, so it is *)
(* named by the descriptor it gets when it is added: m_wd is that          *)
(* descriptor while it is among `watches', and -1 afterwards.              *)
(***************************************************************************)
EXTENDS Naturals, Sequences

CONSTANTS
    Root,        \* the configuration directory
    Dir,         \* its subdirectories: common, monitors, scrapers
    Name,        \* the file names that are watched for in them
    None,
    MaxWd,       \* bound: watch descriptors
    MaxChanges   \* bound: changes other programs make to the directory

File == [dir : Dir, name : Name]
Path == {Root} \cup Dir \cup File
Wd == 1..MaxWd

ASSUME InotifyAssumption ==
    /\ MaxWd \in Nat \ {0}
    /\ MaxChanges \in Nat
    /\ Root \notin Dir \cup File
    /\ Dir \cap File = {}
    /\ None \notin Path

VARIABLES
    \* the file system
    present,    \* the subdirectories and files that exist
    version,    \* how many times the content of a file has changed
    changes,    \* how many changes there have been
    \* the kernel
    mark,       \* what the mark of a descriptor is attached to
    queue,      \* the events of the inotify descriptor, oldest first
    \* the library
    watch,      \* the InotifyWatch objects
    watches,    \* m_watches: the watches found by descriptor
    paths,      \* m_paths: the watches found by path
    buf,        \* m_buf: what the last read took from the queue
    events      \* m_events

fileSystem == <<present, version, changes>>
kernel == <<mark, queue>>
library == <<watch, watches, paths, buf, events>>
inotifyVars == <<fileSystem, kernel, library>>

\* A mark is on the inode of its watch's path ("linked"), on an inode that has
\* lost its name and is still in use ("unlinked"), or was dropped ("gone").
MarkState == {"unused", "linked", "unlinked", "gone"}

InotifyWatch == [path : Path \cup {None}, enabled : BOOLEAN]

EventType == {"IN_CREATE", "IN_DELETE", "IN_MODIFY", "IN_IGNORED"}

\* The path is that of the file or directory the event is about.
Event == [watch : Wd, type : EventType, path : Path]

InotifyTypeOK ==
    /\ present \subseteq Dir \cup File
    /\ version \in [File -> Nat]
    /\ changes \in 0..MaxChanges
    /\ mark \in [Wd -> MarkState]
    /\ queue \in Seq(Event)
    /\ watch \in [Wd -> InotifyWatch]
    /\ watches \subseteq Wd
    /\ paths \subseteq Wd
    /\ buf \in Seq(Event)
    /\ events \in Seq(Event)

ParentOf(p) == IF p \in Dir THEN Root ELSE p.dir

\* Files only in directories that exist.
InotifyInit ==
    /\ present \in {s \in SUBSET (Dir \cup File) : \A f \in File \cap s : f.dir \in s}
    /\ version = [f \in File |-> 0]
    /\ changes = 0
    /\ mark = [w \in Wd |-> IF w = 1 THEN "linked" ELSE "unused"]
    /\ queue = <<>>
    /\ watch = [w \in Wd |-> [path |-> IF w = 1 THEN Root ELSE None, enabled |-> w = 1]]
    /\ watches = {1}
    /\ paths = {1}
    /\ buf = <<>>
    /\ events = <<>>

-----------------------------------------------------------------------------
(* The kernel.                                                             *)

\* The marks on the inode that has this path now.
MarksOn(p) == {w \in Wd : mark[w] = "linked" /\ watch[w].path = p}

\* An event equal to the last one of the queue is merged with it.
Merged(q, e) == IF q # <<>> /\ q[Len(q)] = e THEN q ELSE Append(q, e)

\* An event on the object at path `at', told to the mark on it if there is one.
Tell(at, type, p) ==
    IF MarksOn(at) = {} THEN queue
    ELSE Merged(queue, [watch |-> CHOOSE w \in MarksOn(at) : TRUE,
                        type  |-> type,
                        path  |-> p])

Unlinked(p) == [w \in Wd |-> IF w \in MarksOn(p) THEN "unlinked" ELSE mark[w]]

Change ==
    /\ changes < MaxChanges
    /\ changes' = changes + 1
    /\ UNCHANGED library

Create(p) ==
    /\ Change
    /\ p \notin present
    /\ p \in File => p.dir \in present
    /\ present' = present \cup {p}
    /\ version' = IF p \in File THEN [version EXCEPT ![p] = @ + 1] ELSE version
    /\ queue' = Tell(ParentOf(p), "IN_CREATE", p)
    /\ UNCHANGED mark

Write(f) ==
    /\ Change
    /\ f \in present
    /\ version' = [version EXCEPT ![f] = @ + 1]
    /\ queue' = Tell(f, "IN_MODIFY", f)
    /\ UNCHANGED <<present, mark>>

\* unlink() and rmdir(): the parent's mark hears of it at once.
Delete(p) ==
    /\ Change
    /\ p \in present
    /\ p \in Dir => \A f \in File \cap present : f.dir # p
    /\ present' = present \ {p}
    /\ mark' = Unlinked(p)
    /\ queue' = Tell(ParentOf(p), "IN_DELETE", p)
    /\ UNCHANGED version

\* A new file is renamed over it, as editors do: no mark asks for IN_MOVED_TO.
Replace(f) ==
    /\ Change
    /\ f \in present
    /\ version' = [version EXCEPT ![f] = @ + 1]
    /\ mark' = Unlinked(f)
    /\ UNCHANGED <<present, queue>>

\* A program writes to a file that it has open and that has lost its name.
WriteUnlinked(w) ==
    /\ Change
    /\ mark[w] = "unlinked"
    /\ watch[w].path \in File
    /\ queue' = Merged(queue, [watch |-> w, type |-> "IN_MODIFY", path |-> watch[w].path])
    /\ UNCHANGED <<present, version, mark>>

\* The inode goes with its last user; its mark goes with it and says so.
FreeInode(w) ==
    /\ mark[w] = "unlinked"
    /\ mark' = [mark EXCEPT ![w] = "gone"]
    /\ queue' = Append(queue, [watch |-> w, type |-> "IN_IGNORED", path |-> watch[w].path])
    /\ UNCHANGED <<fileSystem, library>>

-----------------------------------------------------------------------------
(* The library.  An operation that throws is one whose condition is false. *)

\* The kernel counts them up; that they are new is all that matters.
NextWd == CHOOSE w \in Wd : mark[w] = "unused"

FindWatch(p) == {w \in paths : watch[w].path = p}

\* "path already watched", or inotify_add_watch fails.
CanAdd(p) == FindWatch(p) = {} /\ (p = Root \/ p \in present)

\* A new InotifyWatch on the path, and Inotify::Add of it.  Bound: MaxWd of them.
Add(p) ==
    /\ CanAdd(p)
    /\ \E w \in Wd : mark[w] = "unused"
    /\ watch' = [watch EXCEPT ![NextWd] = [path |-> p, enabled |-> TRUE]]
    /\ mark' = [mark EXCEPT ![NextWd] = "linked"]
    /\ watches' = watches \cup {NextWd}
    /\ paths' = paths \cup {NextWd}

\* inotify_rm_watch of a mark the kernel has dropped fails.
CanRemove(w) == w \in watches => mark[w] \in {"linked", "unlinked"}

\* Fault: a watch the kernel has dropped keeps its path.
RemoveKeepingPath(w) ==
    /\ CanRemove(w)
    /\ IF w \in watches
       THEN /\ mark' = [mark EXCEPT ![w] = "gone"]
            /\ queue' = Append(queue, [watch |-> w, type |-> "IN_IGNORED", path |-> watch[w].path])
            /\ paths' = paths \ {w}
       ELSE UNCHANGED <<mark, queue, paths>>
    /\ watches' = watches \ {w}
    /\ UNCHANGED watch

Remove(w) ==
    /\ CanRemove(w)
    /\ IF w \in watches
       THEN /\ mark' = [mark EXCEPT ![w] = "gone"]
            /\ queue' = Append(queue, [watch |-> w, type |-> "IN_IGNORED", path |-> watch[w].path])
       ELSE UNCHANGED <<mark, queue>>
    /\ watches' = watches \ {w}
    /\ paths' = paths \ {w}
    /\ UNCHANGED watch

\* Fault: RemoveAll forgets the map of descriptors.
CloseKeepingWatches ==
    /\ mark' = [w \in Wd |-> IF mark[w] = "unused" THEN "unused" ELSE "gone"]
    /\ queue' = <<>>
    /\ paths' = {}
    /\ UNCHANGED <<watch, watches, buf, events>>

\* The watches found by path, and the marks they have, are removed.
RemoveAll ==
    /\ mark' = [w \in Wd |-> IF w \in paths THEN "gone" ELSE mark[w]]
    /\ watches' = {}
    /\ paths' = {}

\* The descriptor is closed after RemoveAll: no event is left to be read.
Close ==
    /\ RemoveAll
    /\ queue' = <<>>
    /\ UNCHANGED <<watch, buf, events>>

\* The read takes what there is.
ReadEvents ==
    /\ queue # <<>>
    /\ buf' = queue
    /\ queue' = <<>>
    /\ UNCHANGED <<fileSystem, mark, watch, watches, paths, events>>

\* "event cannot occur on disabled watch"
CanDisable(w) == watch[w].enabled

Disable(w) ==
    /\ watch' = [watch EXCEPT ![w].enabled = FALSE]
    /\ watches' = watches \ {w}

\* Fault: IN_IGNORED is passed on like any other event.
DeliverKeepingWatch ==
    LET e == Head(buf) IN
    /\ buf # <<>>
    /\ buf' = Tail(buf)
    /\ events' = IF e.watch \in watches THEN Append(events, e) ELSE events
    /\ UNCHANGED <<fileSystem, kernel, watch, watches, paths>>

\* One turn of the loop over the buffer.
Deliver ==
    LET e == Head(buf) IN
    /\ buf # <<>>
    /\ buf' = Tail(buf)
    /\ IF e.watch \in watches
       THEN /\ events' = Append(events, e)
            /\ IF e.type = "IN_IGNORED"
               THEN CanDisable(e.watch) /\ Disable(e.watch)
               ELSE UNCHANGED <<watch, watches>>
       ELSE UNCHANGED <<events, watch, watches>>
    /\ UNCHANGED <<fileSystem, kernel, paths>>

\* The oldest event, with the pointer to its watch.
GetEvent ==
    /\ events # <<>>
    /\ events' = Tail(events)
==============================================================================
