---------------------------- MODULE ConfigWatcher ----------------------------
(***************************************************************************)
(* The MonitorManager's use of inotify for the configuration directory:    *)
(* the watches its constructor sets, the events it handles, the watches it *)
(* adds and removes on the way, and the commands it sends to the monitors  *)
(* and scrapers that run when a configuration file has changed.            *)
(*                                                                         *)
(* One call of onInotifyUpdate handles a batch of events.  No handler of   *)
(* the daemon runs in between, but the directory goes on changing, so each *)
(* event is a step of its own.                                             *)
(***************************************************************************)
EXTENDS Inotify, FiniteSets

CONSTANTS
    MonitorDir,  \* the directories whose files are for monitors: monitors, common
    ScraperDir,  \* and those whose files are for scrapers: scrapers, common
    Class        \* class names

Kind == {"Monitor", "Scraper"}
Key == Kind \X Class

VARIABLES
    mode,      \* "up", "closing", or how the daemon died
    handler,   \* where the inotify handler is
    unscanned, \* what the constructor has still to look at
    list,      \* m_fileWatcher.watches
    parsed,    \* the version of a file that was last read, None if it never was
    sent,      \* the commands the last event sent, and to whom
    sends,     \* connections that carry them, by stage
    removed,   \* history: what kinds of path were removed or replaced
    early,     \* history: directories created during the constructor
    found      \* history: the files that the constructor found and watched, until
               \* their content changes

daemon == <<mode, handler, unscanned, list, parsed, sent, sends>>
history == <<removed, early, found>>
vars == <<inotifyVars, daemon, history>>

Mode == {"up", "closing", "uncaught", "segfault"}

\* "scanning": the constructor; "waiting": for events; "handling": a batch;
\* "reading": the file of the first event, which has just been watched.
Handler == {"scanning", "waiting", "handling", "reading", "stopped"}

\* The default command, which a file name nobody knows leaves as it is.
Command == {"PING", "SET"}

Stage == {"connect", "write", "read"}

TypeOK ==
    /\ InotifyTypeOK
    /\ mode \in Mode
    /\ handler \in Handler
    /\ unscanned \subseteq Dir \cup File
    /\ list \subseteq Wd
    /\ parsed \in [File -> Nat \cup {None}]
    /\ sent \subseteq Key \X Command
    /\ sends \in [Stage -> Nat]
    /\ removed \subseteq {"file", "directory"}
    /\ early \subseteq Dir
    /\ found \subseteq File

Init ==
    /\ InotifyInit
    /\ mode = "up"
    /\ handler = "scanning"
    /\ unscanned = Dir \cup File
    /\ list = {1}
    /\ parsed = [f \in File |-> None]
    /\ sent = {}
    /\ sends = [s \in Stage |-> 0]
    /\ removed = {}
    /\ early = {}
    /\ found = {}

Running == mode \in {"up", "closing"}

-----------------------------------------------------------------------------
(* The constructor.                                                        *)

FilesOf(d) == {f \in File : f.dir = d}

\* The emplace_back and the Add of a watch.
AddWatch(p) ==
    /\ Add(p)
    /\ list' = list \cup {NextWd}

\* A file is watched and not read.  A directory that is not there is passed over
\* with its files.
Scan(p) ==
    /\ mode = "up"
    /\ handler = "scanning"
    /\ p \in unscanned
    /\ p \in File => p.dir \notin unscanned
    /\ IF p \in present
       THEN /\ AddWatch(p)
            /\ unscanned' = unscanned \ {p}
            /\ found' = found \cup ({p} \cap File)
       ELSE /\ unscanned' = unscanned \ ({p} \cup IF p \in Dir THEN FilesOf(p) ELSE {})
            /\ UNCHANGED <<watch, mark, watches, paths, list, found>>
    /\ UNCHANGED <<fileSystem, queue, buf, events, mode, handler, parsed, sent, sends>>
    /\ UNCHANGED <<removed, early>>

\* AsyncStartWaitForEvents: the daemon is up.
Start ==
    /\ mode = "up"
    /\ handler = "scanning"
    /\ unscanned = {}
    /\ handler' = "waiting"
    /\ UNCHANGED <<inotifyVars, mode, unscanned, list, parsed, sent, sends, history>>

-----------------------------------------------------------------------------
(* Reading events.                                                         *)

Read ==
    /\ mode = "up"
    /\ handler = "waiting"
    /\ buf = <<>>
    /\ ReadEvents
    /\ UNCHANGED <<daemon, history>>

\* The read's handler: every event of the buffer, before the first is handled.
\* It also comes for a read that was done when the descriptor was closed.
DeliverEvent ==
    /\ Running
    /\ Deliver
    /\ handler' = "handling"
    /\ UNCHANGED <<mode, unscanned, list, parsed, sent, sends, history>>

\* All are handled: the next read, which fails on a closed descriptor.
WaitAgain ==
    /\ Running
    /\ handler = "handling"
    /\ buf = <<>>
    /\ events = <<>>
    /\ handler' = IF mode = "up" THEN "waiting" ELSE "stopped"
    /\ UNCHANGED <<inotifyVars, mode, unscanned, list, parsed, sent, sends, history>>

\* MonitorManager::shutdown, from a client's command.
Shutdown ==
    /\ mode = "up"
    /\ handler = "waiting"
    /\ mode' = "closing"
    /\ handler' = IF buf = <<>> THEN "stopped" ELSE "waiting"
    /\ Close
    /\ UNCHANGED <<fileSystem, unscanned, list, parsed, sent, sends, history>>

-----------------------------------------------------------------------------
(* Sending a configuration.                                                *)

Receivers(d) ==
    (IF d \in MonitorDir THEN {"Monitor"} \X Class ELSE {})
        \cup (IF d \in ScraperDir THEN {"Scraper"} \X Class ELSE {})

\* The command is chosen by the name of the event, which is empty for a watch
\* on the file itself; "common" or not only picks a variant of it.
CommandFor(named) == IF named THEN "SET" ELSE "PING"

\* parseAndSendConfigs and sendCmdIfProcess.  `reached' are the classes the file
\* names that have a process and a socket in the registry: any may be.  None is
\* when the file is gone, is not JSON or is not an object.
ParseAndSend(f, named) ==
    /\ parsed' = IF f \in present THEN [parsed EXCEPT ![f] = version[f]] ELSE parsed
    /\ \E reached \in SUBSET (IF f \in present THEN Receivers(f.dir) ELSE {}) :
          /\ sent' = reached \X {CommandFor(named)}
          /\ sends' = [sends EXCEPT !["connect"] = @ + Cardinality(reached)]

NothingSent == sent' = {} /\ UNCHANGED <<parsed, sends>>

\* connect, then write, then read (3 s): a failure of any is logged at most.
SendStep(stage, next) ==
    /\ Running
    /\ sends[stage] > 0
    /\ sends' = [s \in Stage |-> IF s = stage THEN sends[s] - 1
                                 ELSE IF s = next THEN sends[s] + 1 ELSE sends[s]]
    /\ UNCHANGED <<inotifyVars, mode, handler, unscanned, list, parsed, sent, history>>

\* Fault: the answer is waited for without a timeout.
SendProgressUntimed ==
    \/ \E next \in {"write", "over"} : SendStep("connect", next)
    \/ \E next \in {"read", "over"} : SendStep("write", next)

SendProgress ==
    \/ \E next \in {"write", "over"} : SendStep("connect", next)
    \/ \E next \in {"read", "over"} : SendStep("write", next)
    \/ SendStep("read", "over")

-----------------------------------------------------------------------------
(* Handling an event.                                                      *)

Handling ==
    /\ Running
    /\ handler = "handling"
    /\ buf = <<>>
    /\ GetEvent
    /\ UNCHANGED <<fileSystem, buf, handler, unscanned, history>>

NoWatchChanges == UNCHANGED <<mark, queue, watch, watches, paths, list>>

Dies(how) == mode' = how /\ NothingSent /\ NoWatchChanges

\* Its watch was erased from the list: GetWatch() is dangling.  What it points
\* to may be as it was (the actions below), be of no use, be another watch, or
\* not be there.
HandleDangling ==
    LET e == Head(events) IN
    /\ Handling
    /\ e.watch \notin list
    /\ \/ Dies("segfault")
       \/ UNCHANGED mode /\ NoWatchChanges /\ NothingSent
       \/ /\ e.type = "IN_MODIFY"
          /\ \E f \in File : ParseAndSend(f, FALSE)
          /\ UNCHANGED mode
          /\ NoWatchChanges

Handle(type) ==
    /\ Handling
    /\ Head(events).type = type

\* Not a mask the handler knows.
HandleIgnored ==
    /\ Handle("IN_IGNORED")
    /\ NothingSent
    /\ NoWatchChanges
    /\ UNCHANGED mode

\* A directory is watched without a look at the watches there are.
HandleCreatedDir ==
    LET p == Head(events).path IN
    /\ Handle("IN_CREATE")
    /\ p \in Dir
    /\ IF CanAdd(p)
       THEN AddWatch(p) /\ NothingSent /\ UNCHANGED <<mode, queue>>
       ELSE Dies("uncaught")

\* Fault: the check is left out.
AlreadyMonitoredNever(p) == FALSE

\* Fault: the path compared is that of the event's watch.
AlreadyMonitoredFolder(p) == \E w \in list : watch[w].path = p.dir

AlreadyMonitored(p) == \E w \in list : watch[w].path = p

\* Fault: the file is read, then watched.
HandleCreatedFileReadingFirst ==
    LET p == Head(events).path IN
    /\ Running
    /\ buf = <<>>
    /\ events # <<>>
    /\ Head(events).type = "IN_CREATE"
    /\ p \in File
    /\ ~AlreadyMonitored(p)
    /\ \/ /\ handler = "handling"
          /\ handler' = "reading"
          /\ ParseAndSend(p, TRUE)
          /\ NoWatchChanges
          /\ UNCHANGED <<mode, events>>
       \/ /\ handler = "reading"
          /\ handler' = "handling"
          /\ events' = Tail(events)
          /\ IF CanAdd(p)
             THEN AddWatch(p) /\ NothingSent /\ UNCHANGED <<mode, queue>>
             ELSE Dies("uncaught")
    /\ UNCHANGED <<fileSystem, buf, unscanned, history>>

\* A file is watched, then read; it may change in between.
HandleCreatedFile ==
    LET p == Head(events).path IN
    /\ Running
    /\ buf = <<>>
    /\ events # <<>>
    /\ Head(events).type = "IN_CREATE"
    /\ p \in File
    /\ \/ /\ handler = "handling"
          /\ ~AlreadyMonitored(p)
          /\ IF CanAdd(p)
             THEN AddWatch(p) /\ NothingSent /\ handler' = "reading" /\ UNCHANGED <<mode, queue>>
             ELSE Dies("uncaught") /\ UNCHANGED handler
          /\ UNCHANGED events
       \/ /\ handler = "reading"
          /\ handler' = "handling"
          /\ events' = Tail(events)
          /\ ParseAndSend(p, TRUE)
          /\ NoWatchChanges
          /\ UNCHANGED mode
    /\ UNCHANGED <<fileSystem, buf, unscanned, history>>

HandleCreatedAgain ==
    LET p == Head(events).path IN
    /\ Handle("IN_CREATE")
    /\ p \in File
    /\ AlreadyMonitored(p)
    /\ ParseAndSend(p, TRUE)
    /\ NoWatchChanges
    /\ UNCHANGED mode

\* The event of a watch on a file has no name.
HandleModified ==
    /\ Handle("IN_MODIFY")
    /\ ParseAndSend(Head(events).path, FALSE)
    /\ NoWatchChanges
    /\ UNCHANGED mode

\* Fault: the path compared is that of the event's watch.
RemovedWatchesOfParent(e) == {w \in list : watch[w].path = watch[e.watch].path}

RemovedWatches(e) == {w \in list : watch[w].path = e.path}

HandleDeleted ==
    LET e == Head(events) IN
    /\ Handle("IN_DELETE")
    /\ NothingSent
    /\ IF RemovedWatches(e) = {}
       THEN NoWatchChanges /\ UNCHANGED mode
       ELSE LET w == CHOOSE v \in RemovedWatches(e) : TRUE IN
            IF CanRemove(w)
            THEN Remove(w) /\ list' = list \ {w} /\ UNCHANGED mode
            ELSE mode' = "uncaught" /\ NoWatchChanges

HandleEvent ==
    \/ HandleDangling
    \/ HandleIgnored
    \/ HandleCreatedDir
    \/ HandleCreatedFile
    \/ HandleCreatedAgain
    \/ HandleModified
    \/ HandleDeleted

-----------------------------------------------------------------------------
OtherPrograms ==
    /\ Running
    /\ UNCHANGED daemon
    /\ \/ /\ \E p \in Dir \cup File :
                /\ Create(p)
                /\ early' = IF handler = "scanning" /\ p \in Dir THEN early \cup {p} ELSE early
          /\ UNCHANGED removed
       \/ \E f \in File : Write(f) /\ UNCHANGED <<removed, early>>
       \/ /\ \E p \in Dir \cup File :
                /\ Delete(p)
                /\ removed' = removed \cup {IF p \in Dir THEN "directory" ELSE "file"}
          /\ UNCHANGED early
       \/ \E f \in File : Replace(f) /\ removed' = removed \cup {"file"} /\ UNCHANGED early
       \/ \E w \in Wd : WriteUnlinked(w) /\ UNCHANGED <<removed, early>>
    /\ found' = {f \in found : version'[f] = version[f]}

Kernel ==
    /\ Running
    /\ \E w \in Wd : FreeInode(w)
    /\ UNCHANGED <<daemon, history>>

Inotification == Read \/ DeliverEvent \/ WaitAgain \/ HandleEvent

Next ==
    \/ \E p \in Dir \cup File : Scan(p)
    \/ Start
    \/ Inotification
    \/ Shutdown
    \/ SendProgress
    \/ OtherPrograms
    \/ Kernel

Spec == Init /\ [][Next]_vars

\* The constructor ends, the event loop runs what is ready, and a connection
\* ends by its read's timeout at the latest.  Nothing makes the directory change.
Fairness ==
    /\ WF_vars(\E p \in Dir \cup File : Scan(p))
    /\ WF_vars(Start)
    /\ WF_vars(Inotification)
    /\ WF_vars(SendProgress)

FairSpec == Spec /\ Fairness

-----------------------------------------------------------------------------
(* Safety.                                                                 *)

Pending == events \o buf \o queue

IsPending(type, p) == \E i \in 1..Len(Pending) : Pending[i].type = type /\ Pending[i].path = p

\* The list and the library's two maps stay in step, whatever order additions,
\* removals and dropped marks come in: no path is watched twice, and a watch
\* found by descriptor is enabled, as __Disable demands.
MapsAgree ==
    mode = "up" =>
        /\ paths = list
        /\ watches \subseteq list
        /\ \A w \in watches : watch[w].enabled
        /\ \A v, w \in list : watch[v].path = watch[w].path => v = w

\* A watch the library takes for live has a mark in the kernel, or the event that
\* says it was dropped has not been delivered yet.
LiveIsMarked ==
    \A w \in watches :
        \/ mark[w] \in {"linked", "unlinked"}
        \/ \E i \in 1..Len(buf \o queue) :
              (buf \o queue)[i].watch = w /\ (buf \o queue)[i].type = "IN_IGNORED"

\* The kernel's marks are known to the library, so that Inotify::Add never meets
\* the collision it tries to recover from (inotify-cxx.cpp:361-381).
MarkedIsLive == \A w \in Wd : mark[w] = "linked" => w \in watches

\* While the daemon is up, the library's idea of which watches are live agrees
\* with the kernel's marks, but for drops it has yet to read of.
MarksAgree == mode = "up" => LiveIsMarked /\ MarkedIsLive

\* "invalid descriptor - this case shouldn't occur" (inotify-cxx.cpp:334, 396):
\* no event is left to be handled, hence no watch added or removed, after Close.
ClosedIsQuiet == mode = "closing" => events = <<>>

\* Only the last events of a watch outlive it: none that adds or removes watches
\* is handled through a dangling pointer, unless a whole directory was removed
\* (and made again before its removal was handled).
DanglingChangesNoWatch ==
    \A i \in 1..Len(events) : events[i].watch \notin list =>
        \/ events[i].type \in {"IN_IGNORED", "IN_MODIFY"}
        \/ "directory" \in removed

\* No change of a watched file goes unread: its content is what was last read from
\* it, or still what the constructor found, which is not read (moman.cpp:105-120),
\* or an event is on its way.  A file that is created is watched before it is read
\* (moman.cpp:183-190), so that it may change in between.
ReadIsCurrent ==
    mode = "up" => \A w \in list : LET f == watch[w].path IN
        f \in present \cap File /\ mark[w] = "linked" =>
            \/ parsed[f] = version[f]
            \/ f \in found
            \/ IsPending("IN_MODIFY", f)
            \/ IsPending("IN_CREATE", f)

\* The directory makes the daemon die only by a path removed or replaced, or by
\* a subdirectory that appears while the constructor sets its watches.
DiesOnlyOfRemovals == mode \in {"uncaught", "segfault"} => removed # {} \/ early # {}

\* What a step may never do: take the last event that says a file was created and
\* leave the file unwatched, by losing the event on its way from the kernel or by
\* handling it, while the file is there and no directory's watch was lost.
CreationIsKept ==
    [][\A f \in File : mode = "up" /\ IsPending("IN_CREATE", f) =>
          \/ IsPending("IN_CREATE", f)'
          \/ f \notin present'
          \/ \E w \in list' : watch'[w].path = f
          \/ mode' # "up"
          \/ "directory" \in removed']_vars

-----------------------------------------------------------------------------
(* Liveness, under Fairness.                                               *)

\* A file created in a watched directory is watched in the end, unless it or the
\* daemon goes, or its event is lost with a directory's watch: the removal of a
\* directory that has been made again already takes the new one's watch.
CreatedIsMonitored ==
    \A f \in File : IsPending("IN_CREATE", f) ~>
        \/ f \notin present
        \/ \E w \in list : watch[w].path = f
        \/ mode # "up"
        \/ "directory" \in removed

\* No connection that carries a configuration stays open.
SendsEnd ==
    (\E s \in Stage : sends[s] > 0) ~>
        (\A s \in Stage : sends[s] = 0) \/ mode \in {"uncaught", "segfault"}
==============================================================================
