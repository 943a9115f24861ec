-------------------------- MODULE ConfigWatcherProofs --------------------------
(***************************************************************************)
(* Proofs about ConfigWatcher, for any directories and files and any       *)
(* number of watches and changes: the list of watches, the library's maps  *)
(* and the kernel's marks stay in step; events outlive their watch         *)
(* harmlessly; no update of a file is lost; and the daemon dies of nothing *)
(* but removals.                                                           *)
(***************************************************************************)
EXTENDS ConfigWatcher, TLAPS

\* The watches that the events of a queue say were dropped.
Drops(q) == {w \in Wd : \E i \in 1..Len(q) : q[i].watch = w /\ q[i].type = "IN_IGNORED"}

DropOf(e) == IF e.type = "IN_IGNORED" THEN {e.watch} ELSE {}

Typed ==
    /\ InotifyTypeOK
    /\ mode \in Mode
    /\ handler \in Handler
    /\ unscanned \subseteq Dir \cup File
    /\ list \subseteq Wd

\* What has a descriptor has a path, and what was dropped never comes back.
DescriptorsUsed ==
    /\ \A w \in Wd : mark[w] # "unused" => watch[w].path \in Path
    /\ \A w \in list \cup watches \cup paths : mark[w] # "unused"
    /\ \A w \in Drops(buf) \cup Drops(queue) : mark[w] = "gone"

\* Events are kept for a batch only, and none once the descriptor is closed.
BatchOnly ==
    /\ handler \in {"scanning", "waiting"} => events = <<>>
    /\ mode = "closing" => watches = {} /\ events = <<>>

\* A watch the library takes for live has a mark, or its drop is still to be read.
LiveOrDropped ==
    mode = "up" => \A w \in watches :
        mark[w] \in {"linked", "unlinked"} \/ w \in Drops(buf) \cup Drops(queue)

LinkedIsLive == mode = "up" => MarkedIsLive

Inv ==
    /\ Typed
    /\ DescriptorsUsed
    /\ BatchOnly
    /\ MapsAgree
    /\ LiveOrDropped
    /\ LinkedIsLive

-----------------------------------------------------------------------------
(* Queues.                                                                 *)

\* An empty queue tells of no drop.
LEMMA DropsEmpty == Drops(<<>>) = {}
  BY DEF Drops

\* An event that is queued adds the drop it tells of.
LEMMA DropsAppend ==
    ASSUME NEW q \in Seq(Event), NEW e \in Event
    PROVE  /\ Append(q, e) \in Seq(Event)
           /\ Drops(Append(q, e)) = Drops(q) \cup DropOf(e)
<1> DEFINE s == Append(q, e)
<1>1. s \in Seq(Event) /\ Len(s) = Len(q) + 1 /\ Len(q) \in Nat
  OBVIOUS
<1>2. (\A i \in 1..Len(q) : s[i] = q[i]) /\ s[Len(q) + 1] = e
  OBVIOUS
<1>3. e.watch \in Wd
  BY DEF Event
<1> HIDE DEF s
<1>4. ASSUME NEW w \in Drops(s) PROVE w \in Drops(q) \cup DropOf(e)
  <2>1. PICK i \in 1..Len(s) : s[i].watch = w /\ s[i].type = "IN_IGNORED"
    BY DEF Drops
  <2>2. CASE i \in 1..Len(q)
    BY <1>2, <2>1, <2>2 DEF Drops
  <2>3. CASE i = Len(q) + 1
    BY <1>2, <2>1, <2>3 DEF DropOf
  <2> QED BY <1>1, <2>2, <2>3
<1>5. ASSUME NEW w \in Drops(q) \cup DropOf(e) PROVE w \in Drops(s)
  <2>1. CASE w \in Drops(q)
    <3>1. PICK i \in 1..Len(q) : q[i].watch = w /\ q[i].type = "IN_IGNORED"
      BY <2>1 DEF Drops
    <3>2. i \in 1..Len(s) /\ s[i] = q[i]
      BY <1>1, <1>2
    <3> QED BY <2>1, <3>1, <3>2 DEF Drops
  <2>2. CASE w \in DropOf(e)
    BY <1>1, <1>2, <1>3, <2>2 DEF Drops, DropOf
  <2> QED BY <2>1, <2>2
<1>6. Drops(s) = Drops(q) \cup DropOf(e)
  BY <1>4, <1>5
<1> QED BY <1>1, <1>6 DEF s

\* An event that is taken takes its drop with it, if no other tells of it.
LEMMA DropsTail ==
    ASSUME NEW q \in Seq(Event), q # <<>>
    PROVE  /\ Tail(q) \in Seq(Event) /\ Head(q) \in Event
           /\ Drops(q) = DropOf(Head(q)) \cup Drops(Tail(q))
<1> DEFINE s == Tail(q)
<1>1. /\ s \in Seq(Event) /\ Len(q) = Len(s) + 1 /\ Len(s) \in Nat
      /\ Head(q) = q[1] /\ Head(q) \in Event
      /\ \A i \in 1..Len(s) : s[i] = q[i + 1]
  OBVIOUS
<1>2. Head(q).watch \in Wd
  BY <1>1 DEF Event
<1> HIDE DEF s
<1>3. ASSUME NEW w \in Drops(q) PROVE w \in DropOf(Head(q)) \cup Drops(s)
  <2>1. PICK i \in 1..Len(q) : q[i].watch = w /\ q[i].type = "IN_IGNORED"
    BY DEF Drops
  <2>2. CASE i = 1
    BY <1>1, <2>1, <2>2 DEF DropOf
  <2>3. CASE i # 1
    <3>1. i - 1 \in 1..Len(s) /\ s[i - 1] = q[i]
      BY <1>1, <2>3
    <3> QED BY <2>1, <3>1 DEF Drops
  <2> QED BY <2>2, <2>3
<1>4. ASSUME NEW w \in DropOf(Head(q)) \cup Drops(s) PROVE w \in Drops(q)
  <2>1. CASE w \in DropOf(Head(q))
    BY <1>1, <1>2, <2>1 DEF Drops, DropOf
  <2>2. CASE w \in Drops(s)
    <3>1. PICK i \in 1..Len(s) : s[i].watch = w /\ s[i].type = "IN_IGNORED"
      BY <2>2 DEF Drops
    <3>2. i + 1 \in 1..Len(q) /\ q[i + 1] = s[i]
      BY <1>1
    <3> QED BY <2>2, <3>1, <3>2 DEF Drops
  <2> QED BY <2>1, <2>2
<1>5. Drops(q) = DropOf(Head(q)) \cup Drops(s)
  BY <1>3, <1>4
<1> QED BY <1>1, <1>5 DEF s

\* Merging loses no drop.
LEMMA DropsMerged ==
    ASSUME NEW q \in Seq(Event), NEW e \in Event, e.type # "IN_IGNORED"
    PROVE  Merged(q, e) \in Seq(Event) /\ Drops(Merged(q, e)) = Drops(q)
  BY DropsAppend DEF Merged, DropOf

\* The kernel tells a mark of what happens to its object, never of a drop.
LEMMA Told ==
    ASSUME Typed, NEW at \in Path, NEW p \in Path,
           NEW type \in {"IN_CREATE", "IN_DELETE", "IN_MODIFY"}
    PROVE  Tell(at, type, p) \in Seq(Event) /\ Drops(Tell(at, type, p)) = Drops(queue)
<1> USE DEF Typed, InotifyTypeOK
<1>1. CASE MarksOn(at) = {}
  BY <1>1 DEF Tell
<1>2. CASE MarksOn(at) # {}
  <2> DEFINE w == CHOOSE v \in MarksOn(at) : TRUE
             e == [watch |-> w, type |-> type, path |-> p]
  <2>1. w \in Wd
    BY <1>2 DEF MarksOn
  <2>2. e \in Event /\ e.type # "IN_IGNORED"
    BY <2>1 DEF Event, EventType
  <2>3. Tell(at, type, p) = Merged(queue, e)
    BY <1>2 DEF Tell
  <2> HIDE DEF e
  <2> QED BY <2>2, <2>3, DropsMerged
<1> QED BY <1>1, <1>2

-----------------------------------------------------------------------------
(* Steps.                                                                  *)

\* A change of the directory, and the freeing of an inode, change marks only so.
MarksFade ==
    \A w \in Wd :
        \/ mark'[w] = mark[w]
        \/ mark[w] = "linked" /\ mark'[w] = "unlinked"
        \/ mark[w] = "unlinked" /\ mark'[w] = "gone" /\ w \in Drops(queue')

\* The initial state has the watch on the root only.
LEMMA InitInv == Init => Inv
<1> SUFFICES ASSUME Init PROVE Inv
  OBVIOUS
<1> USE InotifyAssumption DEF Init, InotifyInit
<1>1. 1 \in Wd /\ Drops(buf) = {} /\ Drops(queue) = {}
  BY DropsEmpty DEF Wd
<1>2. Typed
  BY <1>1 DEF Typed, InotifyTypeOK, MarkState, InotifyWatch, Path, Mode, Handler
<1>3. DescriptorsUsed
  BY <1>1 DEF DescriptorsUsed, Path
<1>4. BatchOnly /\ MapsAgree /\ LiveOrDropped /\ LinkedIsLive
  BY <1>1 DEF BatchOnly, MapsAgree, LiveOrDropped, LinkedIsLive, MarkedIsLive
<1> QED BY <1>2, <1>3, <1>4 DEF Inv

\* Marks that fade, with their drops told of, leave everything in step.
LEMMA KernelStep ==
    ASSUME Inv, UNCHANGED <<library, daemon>>, MarksFade,
           present' \subseteq Dir \cup File, version' \in [File -> Nat],
           changes' \in 0..MaxChanges, mark' \in [Wd -> MarkState],
           queue' \in Seq(Event), Drops(queue) \subseteq Drops(queue'),
           \A w \in Drops(queue') \ Drops(queue) : mark'[w] = "gone"
    PROVE  Inv'
<1> USE DEF Inv, library, daemon
<1>0. Drops(buf)' = Drops(buf) /\ Drops(queue)' = Drops(queue')
  BY DEF Drops
<1>1. Typed'
  BY DEF Typed, InotifyTypeOK
<1>2. \A w \in Wd : mark[w] = "gone" => mark'[w] = "gone"
  BY DEF MarksFade
<1>3. \A w \in Wd : (mark'[w] = "unused") <=> (mark[w] = "unused")
  BY DEF MarksFade
<1>4. list \subseteq Wd /\ watches \subseteq Wd /\ paths \subseteq Wd
  BY DEF Typed, InotifyTypeOK
<1>5. DescriptorsUsed'
  BY <1>0, <1>2, <1>3, <1>4 DEF DescriptorsUsed, Drops
<1>6. BatchOnly' /\ MapsAgree'
  BY DEF BatchOnly, MapsAgree
<1>7. LiveOrDropped'
  BY <1>0, <1>4 DEF LiveOrDropped, MarksFade
<1>8. LinkedIsLive'
  BY DEF LinkedIsLive, MarkedIsLive, MarksFade
<1> QED BY <1>1, <1>5, <1>6, <1>7, <1>8

\* The path of a mark on an object of the directory.
LEMMA UnlinkedFades ==
    ASSUME Typed, NEW p, mark' = Unlinked(p)
    PROVE  mark' \in [Wd -> MarkState] /\ MarksFade
  BY DEF Typed, InotifyTypeOK, Unlinked, MarksOn, MarksFade, MarkState

\* Other programs change the directory.
LEMMA OtherProgramsStep ==
    ASSUME Inv, OtherPrograms
    PROVE  Inv'
<1> USE DEF Inv
<1>1. UNCHANGED <<library, daemon>>
  BY DEF OtherPrograms, Create, Write, Delete, Replace, WriteUnlinked, Change
<1>2. changes' \in 0..MaxChanges
  <2>1. changes < MaxChanges /\ changes' = changes + 1
    BY DEF OtherPrograms, Create, Write, Delete, Replace, WriteUnlinked, Change
  <2> QED BY <2>1, InotifyAssumption DEF Typed, InotifyTypeOK
<1>3. present' \subseteq Dir \cup File
  BY DEF OtherPrograms, Create, Write, Delete, Replace, WriteUnlinked, Typed, InotifyTypeOK
<1>4. version' \in [File -> Nat]
  <2>1. \/ UNCHANGED version
        \/ \E f \in File : version' = [version EXCEPT ![f] = @ + 1]
    BY DEF OtherPrograms, Create, Write, Delete, Replace, WriteUnlinked
  <2> QED BY <2>1 DEF Typed, InotifyTypeOK
<1>5. \A p \in Dir \cup File : p \in Path /\ ParentOf(p) \in Path
  BY DEF ParentOf, Path, File
<1>6. mark' \in [Wd -> MarkState] /\ MarksFade
  <2>1. CASE UNCHANGED mark
    BY <2>1 DEF MarksFade, Typed, InotifyTypeOK
  <2>2. ASSUME NEW p, mark' = Unlinked(p) PROVE mark' \in [Wd -> MarkState] /\ MarksFade
    BY <2>2, UnlinkedFades
  <2> QED BY <2>1, <2>2 DEF OtherPrograms, Create, Write, Delete, Replace, WriteUnlinked
<1>7. queue' \in Seq(Event) /\ Drops(queue') = Drops(queue)
  <2>1. ASSUME NEW p \in Dir \cup File, Create(p)
        PROVE  queue' \in Seq(Event) /\ Drops(queue') = Drops(queue)
    BY <1>5, <2>1, Told DEF Create
  <2>2. ASSUME NEW f \in File, Write(f)
        PROVE  queue' \in Seq(Event) /\ Drops(queue') = Drops(queue)
    BY <1>5, <2>2, Told DEF Write
  <2>3. ASSUME NEW p \in Dir \cup File, Delete(p)
        PROVE  queue' \in Seq(Event) /\ Drops(queue') = Drops(queue)
    BY <1>5, <2>3, Told DEF Delete
  <2>4. ASSUME NEW f \in File, Replace(f)
        PROVE  queue' \in Seq(Event) /\ Drops(queue') = Drops(queue)
    BY <2>4 DEF Replace, Typed, InotifyTypeOK
  <2>5. ASSUME NEW w \in Wd, WriteUnlinked(w)
        PROVE  queue' \in Seq(Event) /\ Drops(queue') = Drops(queue)
    <3> DEFINE e == [watch |-> w, type |-> "IN_MODIFY", path |-> watch[w].path]
    <3>1. e \in Event /\ e.type # "IN_IGNORED" /\ queue' = Merged(queue, e)
      BY <2>5 DEF WriteUnlinked, Event, EventType, Path
    <3>2. queue \in Seq(Event)
      BY DEF Typed, InotifyTypeOK
    <3> HIDE DEF e
    <3> QED BY <3>1, <3>2, DropsMerged
  <2> QED BY <2>1, <2>2, <2>3, <2>4, <2>5 DEF OtherPrograms
<1> QED BY <1>1, <1>2, <1>3, <1>4, <1>6, <1>7, KernelStep

\* The kernel drops the mark of a freed inode, and queues the event that says so.
LEMMA FreeStep ==
    ASSUME Inv, Kernel
    PROVE  Inv'
<1> USE DEF Inv
<1>1. PICK w \in Wd : FreeInode(w)
  BY DEF Kernel
<1> DEFINE e == [watch |-> w, type |-> "IN_IGNORED", path |-> watch[w].path]
<1>2. e \in Event /\ DropOf(e) = {w} /\ queue' = Append(queue, e)
  BY <1>1 DEF FreeInode, Event, EventType, DescriptorsUsed, DropOf
<1>3. queue \in Seq(Event)
  BY DEF Typed, InotifyTypeOK
<1>4. UNCHANGED <<library, daemon>> /\ UNCHANGED fileSystem
  BY <1>1 DEF FreeInode, Kernel
<1>5. mark' \in [Wd -> MarkState] /\ mark[w] = "unlinked" /\ mark'[w] = "gone"
      /\ \A v \in Wd : v # w => mark'[v] = mark[v]
  BY <1>1 DEF FreeInode, Typed, InotifyTypeOK, MarkState
<1> HIDE DEF e
<1>6. queue' \in Seq(Event) /\ Drops(queue') = Drops(queue) \cup {w}
  BY <1>2, <1>3, DropsAppend
<1>7. MarksFade
  BY <1>5, <1>6 DEF MarksFade
<1>8. present' \subseteq Dir \cup File /\ version' \in [File -> Nat] /\ changes' \in 0..MaxChanges
  BY <1>4 DEF fileSystem, Typed, InotifyTypeOK
<1> QED BY <1>4, <1>5, <1>6, <1>7, <1>8, KernelStep

\* A step that leaves the watches as they are keeps everything in step.
LEMMA SameWatches ==
    ASSUME Inv, UNCHANGED <<present, version, changes, mark, queue, watch, watches, paths, buf, list>>,
           mode' = mode \/ mode' \in {"uncaught", "segfault"},
           handler' \in Handler, unscanned' \subseteq Dir \cup File,
           events' \in Seq(Event),
           handler' \in {"scanning", "waiting"} => events' = <<>>,
           mode' = "closing" => events' = <<>>
    PROVE  Inv'
<1> USE DEF Inv
<1>1. Drops(buf)' = Drops(buf) /\ Drops(queue)' = Drops(queue)
  BY DEF Drops
<1>2. Typed'
  BY DEF Typed, InotifyTypeOK, Mode
<1>3. DescriptorsUsed'
  BY <1>1 DEF DescriptorsUsed
<1>4. BatchOnly' /\ MapsAgree' /\ LinkedIsLive'
  BY DEF BatchOnly, MapsAgree, LinkedIsLive, MarkedIsLive
<1>5. LiveOrDropped'
  BY <1>1 DEF LiveOrDropped
<1> QED BY <1>2, <1>3, <1>4, <1>5

\* A watch is added under a descriptor nobody has used, on a path not watched.
LEMMA AddStep ==
    ASSUME Inv, NEW p \in Path, AddWatch(p),
           UNCHANGED <<present, version, changes, queue, buf, mode>>,
           handler' \in Handler, unscanned' \subseteq Dir \cup File,
           events' \in Seq(Event),
           handler' \in {"scanning", "waiting"} => events' = <<>>,
           mode = "up"
    PROVE  Inv'
<1> USE DEF Inv
<1> DEFINE n == NextWd
<1>0. n \in Wd /\ mark[n] = "unused"
  <2>1. PICK u \in Wd : mark[u] = "unused"
    BY DEF AddWatch, Add
  <2> QED BY <2>1 DEF NextWd
<1>1. /\ watch' = [watch EXCEPT ![n] = [path |-> p, enabled |-> TRUE]]
      /\ mark' = [mark EXCEPT ![n] = "linked"]
      /\ watches' = watches \cup {n} /\ paths' = paths \cup {n} /\ list' = list \cup {n}
      /\ \A w \in paths : watch[w].path # p
  BY DEF AddWatch, Add, CanAdd, FindWatch
<1> HIDE DEF n
<1>2. Drops(buf)' = Drops(buf) /\ Drops(queue)' = Drops(queue)
  BY DEF Drops
<1>3. /\ mark'[n] = "linked" /\ watch'[n].path = p /\ watch'[n].enabled
      /\ \A w \in Wd : w # n => mark'[w] = mark[w] /\ watch'[w] = watch[w]
  BY <1>0, <1>1 DEF Typed, InotifyTypeOK
<1>4. Typed'
  <2>1. watch' \in [Wd -> InotifyWatch] /\ mark' \in [Wd -> MarkState]
    BY <1>0, <1>1 DEF Typed, InotifyTypeOK, InotifyWatch, MarkState
  <2> QED BY <1>0, <1>1, <2>1 DEF Typed, InotifyTypeOK
<1>5. /\ list \subseteq Wd /\ watches \subseteq Wd /\ paths \subseteq Wd
      /\ n \notin list \cup watches \cup paths \cup Drops(buf) \cup Drops(queue)
  BY <1>0 DEF Typed, InotifyTypeOK, DescriptorsUsed
<1>6. DescriptorsUsed'
  <2>1. ASSUME NEW w \in Wd, mark'[w] # "unused" PROVE watch'[w].path \in Path
    BY <1>3, <2>1 DEF DescriptorsUsed
  <2>2. ASSUME NEW w \in list' \cup watches' \cup paths' PROVE mark'[w] # "unused"
    BY <1>1, <1>3, <1>5, <2>2 DEF DescriptorsUsed
  <2>3. ASSUME NEW w \in Drops(buf) \cup Drops(queue) PROVE mark'[w] = "gone"
    BY <1>3, <1>5, <2>3 DEF DescriptorsUsed, Drops
  <2> QED BY <1>2, <2>1, <2>2, <2>3 DEF DescriptorsUsed
<1>7. BatchOnly'
  BY DEF BatchOnly
<1>8. MapsAgree'
  <2>1. paths = list /\ watches \subseteq list
    BY DEF MapsAgree
  <2>2. \A w \in watches' : watch'[w].enabled
    BY <1>1, <1>3, <1>5 DEF MapsAgree
  <2>3. ASSUME NEW v \in list', NEW w \in list', watch'[v].path = watch'[w].path PROVE v = w
    BY <1>1, <1>3, <1>5, <2>1, <2>3 DEF MapsAgree
  <2> QED BY <1>1, <2>1, <2>2, <2>3 DEF MapsAgree
<1>9. LiveOrDropped' /\ LinkedIsLive'
  <2>1. ASSUME NEW w \in watches'
        PROVE  mark'[w] \in {"linked", "unlinked"} \/ w \in Drops(buf) \cup Drops(queue)
    BY <1>1, <1>3, <1>5, <2>1 DEF LiveOrDropped
  <2>2. ASSUME NEW w \in Wd, mark'[w] = "linked" PROVE w \in watches'
    BY <1>1, <1>3, <2>2 DEF LinkedIsLive, MarkedIsLive
  <2> QED BY <1>2, <2>1, <2>2 DEF LiveOrDropped, LinkedIsLive, MarkedIsLive
<1> QED BY <1>4, <1>6, <1>7, <1>8, <1>9

\* A watch that the handler removes leaves the list, both maps and the kernel; the
\* event that says so finds no watch when it is delivered.
LEMMA RemoveStep ==
    ASSUME Inv, NEW w \in list, Remove(w), list' = list \ {w}, mode = "up",
           UNCHANGED <<present, version, changes, buf, mode, handler, unscanned>>,
           handler = "handling", events' \in Seq(Event)
    PROVE  Inv'
<1> USE DEF Inv
<1>1. /\ w \in Wd /\ w \in paths /\ paths = list /\ watches \subseteq list
      /\ list \subseteq Wd /\ queue \in Seq(Event)
  BY DEF Typed, InotifyTypeOK, MapsAgree
<1>2. UNCHANGED watch /\ watches' = watches \ {w} /\ paths' = list'
  BY <1>1 DEF Remove
<1>3. /\ \A v \in Wd : v # w => mark'[v] = mark[v]
      /\ mark' \in [Wd -> MarkState] /\ mark'[w] # "unused"
      /\ mark'[w] # mark[w] => mark'[w] = "gone"
  BY <1>1 DEF Remove, Typed, InotifyTypeOK, MarkState, DescriptorsUsed
<1>4. mark'[w] # "linked"
  BY <1>1, <1>3 DEF Remove, LinkedIsLive, MarkedIsLive, Typed, InotifyTypeOK
<1>5. queue' \in Seq(Event) /\ Drops(queue) \subseteq Drops(queue')
      /\ \A v \in Drops(queue') : v \in Drops(queue) \/ mark'[v] = "gone"
  <2>1. CASE w \notin watches
    BY <1>1, <2>1 DEF Remove
  <2>2. CASE w \in watches
    <3> DEFINE e == [watch |-> w, type |-> "IN_IGNORED", path |-> watch[w].path]
    <3>1. mark[w] # "unused"
      BY <1>1 DEF DescriptorsUsed
    <3>2. e \in Event /\ DropOf(e) = {w}
      BY <1>1, <3>1 DEF DescriptorsUsed, Event, EventType, DropOf
    <3>3. queue' = Append(queue, e) /\ mark'[w] = "gone"
      BY <1>1, <2>2 DEF Remove, Typed, InotifyTypeOK
    <3> HIDE DEF e
    <3> QED BY <1>1, <3>2, <3>3, DropsAppend
  <2> QED BY <2>1, <2>2
<1>6. Drops(buf)' = Drops(buf) /\ Drops(queue)' = Drops(queue')
  BY DEF Drops
<1>7. Typed'
  BY <1>2, <1>3, <1>5 DEF Typed, InotifyTypeOK
<1>8. DescriptorsUsed'
  <2>1. \A v \in list' \cup watches' \cup paths' : mark'[v] # "unused"
    BY <1>1, <1>2, <1>3 DEF DescriptorsUsed
  <2>2. \A v \in Wd : mark'[v] # "unused" => watch'[v].path \in Path
    BY <1>1, <1>2, <1>3 DEF DescriptorsUsed
  <2>3. \A v \in Wd : mark[v] = "gone" => mark'[v] = "gone"
    BY <1>3
  <2>4. ASSUME NEW v \in Drops(buf) \cup Drops(queue') PROVE mark'[v] = "gone"
    BY <1>5, <2>3, <2>4 DEF DescriptorsUsed, Drops
  <2> QED BY <1>6, <2>1, <2>2, <2>4 DEF DescriptorsUsed
<1>9. BatchOnly'
  BY DEF BatchOnly
<1>10. MapsAgree'
  BY <1>1, <1>2 DEF MapsAgree
<1>11. LiveOrDropped'
  BY <1>1, <1>2, <1>3, <1>5, <1>6 DEF LiveOrDropped
<1>12. LinkedIsLive'
  BY <1>1, <1>2, <1>3, <1>4 DEF LinkedIsLive, MarkedIsLive
<1> QED BY <1>7, <1>8, <1>9, <1>10, <1>11, <1>12

\* A drop that is delivered takes its watch from those found by descriptor.
LEMMA DeliverStep ==
    ASSUME Inv, DeliverEvent
    PROVE  Inv'
<1> USE DEF Inv
<1> DEFINE e == Head(buf)
<1>1. /\ buf \in Seq(Event) /\ buf # <<>> /\ buf' = Tail(buf)
      /\ UNCHANGED <<present, version, changes, mark, queue, paths, mode, unscanned, list>>
      /\ handler' = "handling" /\ mode \in {"up", "closing"}
  BY DEF DeliverEvent, Deliver, fileSystem, kernel, Running, Typed, InotifyTypeOK
<1>2. Tail(buf) \in Seq(Event) /\ e \in Event /\ Drops(buf) = DropOf(e) \cup Drops(Tail(buf))
  BY <1>1, DropsTail
<1>3. \/ /\ e.watch \in watches /\ events' = Append(events, e)
         /\ e.type = "IN_IGNORED" /\ Disable(e.watch)
      \/ /\ e.watch \in watches /\ events' = Append(events, e)
         /\ e.type # "IN_IGNORED" /\ UNCHANGED <<watch, watches>>
      \/ e.watch \notin watches /\ UNCHANGED <<events, watch, watches>>
  BY DEF DeliverEvent, Deliver
<1> HIDE DEF e
<1>4. Drops(buf)' = Drops(Tail(buf)) /\ Drops(queue)' = Drops(queue)
  BY <1>1 DEF Drops
<1>5. e.watch \in Wd
  BY <1>2 DEF Event
<1>6. /\ watch' \in [Wd -> InotifyWatch] /\ watches' \subseteq watches
      /\ \A w \in Wd : watch'[w].path = watch[w].path
      /\ \A w \in watches' : watch'[w] = watch[w]
      /\ \A w \in watches \ watches' : e.type = "IN_IGNORED" /\ w = e.watch
      /\ e.type = "IN_IGNORED" => e.watch \notin watches'
  <2>1. watch \in [Wd -> InotifyWatch] /\ watches \subseteq Wd
    BY DEF Typed, InotifyTypeOK
  <2>2. CASE UNCHANGED <<watch, watches>>
    BY <1>3, <2>1, <2>2 DEF Disable
  <2>3. CASE e.type = "IN_IGNORED" /\ Disable(e.watch)
    BY <1>5, <2>1, <2>3 DEF Disable, InotifyWatch
  <2> QED BY <1>3, <2>2, <2>3
<1>7. events' \in Seq(Event) /\ (mode = "closing" => events' = <<>>)
  <2>1. events \in Seq(Event)
    BY DEF Typed, InotifyTypeOK
  <2>2. Append(events, e) \in Seq(Event)
    BY <1>2, <2>1
  <2>3. CASE mode = "closing"
    BY <1>1, <1>3, <2>1, <2>3 DEF BatchOnly
  <2>4. CASE mode # "closing"
    BY <1>1, <1>3, <2>1, <2>2, <2>4
  <2> QED BY <1>3, <2>1, <2>2, <2>3, <2>4
<1>8. Typed'
  BY <1>1, <1>2, <1>6, <1>7 DEF Typed, InotifyTypeOK, Handler
<1>9. DescriptorsUsed'
  BY <1>1, <1>2, <1>4, <1>6 DEF DescriptorsUsed, Typed, InotifyTypeOK
<1>10. BatchOnly'
  BY <1>1, <1>6, <1>7 DEF BatchOnly
<1>11. MapsAgree'
  BY <1>1, <1>6 DEF MapsAgree, Typed, InotifyTypeOK
<1>12. LiveOrDropped'
  BY <1>1, <1>2, <1>4, <1>6 DEF LiveOrDropped, DropOf
<1>13. LinkedIsLive'
  <2>1. ASSUME mode = "up", NEW w \in Wd, mark[w] = "linked" PROVE w \in watches'
    <3>1. w \notin DropOf(e)
      BY <1>2, <2>1 DEF DescriptorsUsed
    <3> QED BY <1>6, <2>1, <3>1 DEF LinkedIsLive, MarkedIsLive, DropOf
  <2> QED BY <1>1, <2>1 DEF LinkedIsLive, MarkedIsLive
<1> QED BY <1>8, <1>9, <1>10, <1>11, <1>12, <1>13

\* The events read are those that were queued.
LEMMA ReadStep ==
    ASSUME Inv, Read
    PROVE  Inv'
<1> USE DEF Inv
<1>1. /\ buf = <<>> /\ buf' = queue /\ queue' = <<>>
      /\ UNCHANGED <<present, version, changes, mark, watch, watches, paths, events>>
      /\ UNCHANGED <<mode, handler, unscanned, list>>
  BY DEF Read, ReadEvents, fileSystem, daemon
<1>2. Drops(buf)' = Drops(queue) /\ Drops(queue)' = {} /\ Drops(buf) = {}
  BY <1>1, DropsEmpty DEF Drops
<1>3. Typed'
  BY <1>1 DEF Typed, InotifyTypeOK
<1>4. DescriptorsUsed' /\ LiveOrDropped'
  BY <1>1, <1>2 DEF DescriptorsUsed, LiveOrDropped
<1>5. BatchOnly' /\ MapsAgree' /\ LinkedIsLive'
  BY <1>1 DEF BatchOnly, MapsAgree, LinkedIsLive, MarkedIsLive
<1> QED BY <1>3, <1>4, <1>5

\* The shutdown leaves no watch that could be found for an event.
LEMMA ShutdownStep ==
    ASSUME Inv, Shutdown
    PROVE  Inv'
<1> USE DEF Inv
<1>1. /\ watches' = {} /\ paths' = {} /\ queue' = <<>> /\ events = <<>>
      /\ UNCHANGED <<present, version, changes, watch, buf, events, unscanned, list>>
      /\ mode' = "closing" /\ handler' \in Handler
  BY DEF Shutdown, Close, RemoveAll, fileSystem, Handler, BatchOnly
<1>2. /\ mark' \in [Wd -> MarkState]
      /\ \A w \in Wd : mark'[w] = mark[w] \/ (mark'[w] = "gone" /\ mark[w] # "unused")
  BY DEF Shutdown, Close, RemoveAll, Typed, InotifyTypeOK, MarkState, DescriptorsUsed
<1>3. Drops(buf)' = Drops(buf) /\ Drops(queue)' = {}
  BY <1>1, DropsEmpty DEF Drops
<1>4. Typed'
  BY <1>1, <1>2 DEF Typed, InotifyTypeOK, Mode
<1>5. DescriptorsUsed'
  BY <1>1, <1>2, <1>3 DEF DescriptorsUsed, Typed, InotifyTypeOK, Drops
<1>6. BatchOnly' /\ MapsAgree' /\ LiveOrDropped' /\ LinkedIsLive'
  BY <1>1 DEF BatchOnly, MapsAgree, LiveOrDropped, LinkedIsLive
<1> QED BY <1>4, <1>5, <1>6

\* An event is handled while the daemon is up, and by one watch more, by one less
\* or by none.
LEMMA HandleStep ==
    ASSUME Inv, HandleEvent
    PROVE  Inv'
<1> USE DEF Inv
<1>1. /\ events # <<>> /\ mode \in {"up", "closing"}
      /\ UNCHANGED <<present, version, changes, buf, unscanned>>
      /\ events' = events \/ events' = Tail(events)
  BY DEF HandleEvent, HandleDangling, HandleIgnored, HandleCreatedDir, HandleCreatedFile,
         HandleCreatedAgain, HandleModified, HandleDeleted, Handle, Handling, GetEvent,
         Running, fileSystem
<1>2. mode = "up"
  BY <1>1 DEF BatchOnly
<1>3. /\ events \in Seq(Event) /\ events' \in Seq(Event)
      /\ Head(events).path \in Path
  <2>1. events \in Seq(Event)
    BY DEF Typed, InotifyTypeOK
  <2>2. Tail(events) \in Seq(Event) /\ Head(events) \in Event
    BY <1>1, <2>1
  <2> QED BY <1>1, <2>1, <2>2 DEF Event
<1>4. handler' \in {"handling", "reading"} /\ handler' \in Handler
  BY DEF HandleEvent, HandleDangling, HandleIgnored, HandleCreatedDir, HandleCreatedFile,
         HandleCreatedAgain, HandleModified, HandleDeleted, Handle, Handling, Handler
<1>5. unscanned' \subseteq Dir \cup File
  BY <1>1 DEF Typed
<1>6. \/ NoWatchChanges /\ (mode' = mode \/ mode' \in {"uncaught", "segfault"})
      \/ AddWatch(Head(events).path) /\ UNCHANGED <<mode, queue>>
      \/ \E w \in list : /\ Remove(w) /\ list' = list \ {w}
                         /\ UNCHANGED <<mode, handler>> /\ handler = "handling"
  <2>1. CASE HandleDangling
    BY <2>1 DEF HandleDangling, Dies
  <2>2. CASE HandleIgnored \/ HandleCreatedAgain \/ HandleModified
    BY <2>2 DEF HandleIgnored, HandleCreatedAgain, HandleModified
  <2>3. CASE HandleCreatedDir
    BY <2>3 DEF HandleCreatedDir, Dies
  <2>4. CASE HandleCreatedFile
    BY <2>4 DEF HandleCreatedFile, Dies
  <2>5. CASE HandleDeleted
    <3> DEFINE w == CHOOSE v \in RemovedWatches(Head(events)) : TRUE
    <3>1. UNCHANGED handler /\ handler = "handling"
      BY <2>5 DEF HandleDeleted, Handle, Handling
    <3>2. CASE RemovedWatches(Head(events)) = {}
      BY <2>5, <3>2 DEF HandleDeleted
    <3>3. CASE RemovedWatches(Head(events)) # {}
      <4>1. w \in list
        BY <3>3 DEF RemovedWatches
      <4>2. \/ Remove(w) /\ list' = list \ {w} /\ UNCHANGED mode
            \/ mode' = "uncaught" /\ NoWatchChanges
        BY <2>5, <3>3 DEF HandleDeleted
      <4> QED BY <3>1, <4>1, <4>2
    <3> QED BY <3>2, <3>3
  <2> QED BY <2>1, <2>2, <2>3, <2>4, <2>5 DEF HandleEvent
<1>7. CASE NoWatchChanges /\ (mode' = mode \/ mode' \in {"uncaught", "segfault"})
  BY <1>1, <1>2, <1>3, <1>4, <1>5, <1>7, SameWatches DEF NoWatchChanges
<1>8. CASE AddWatch(Head(events).path) /\ UNCHANGED <<mode, queue>>
  BY <1>1, <1>2, <1>3, <1>4, <1>5, <1>8, AddStep
<1>9. CASE \E w \in list : /\ Remove(w) /\ list' = list \ {w}
                           /\ UNCHANGED <<mode, handler>> /\ handler = "handling"
  BY <1>1, <1>2, <1>3, <1>9, RemoveStep
<1> QED BY <1>6, <1>7, <1>8, <1>9

\* The constructor watches what is there, before there is an event to handle.
LEMMA ScanStep ==
    ASSUME Inv, NEW p \in Dir \cup File, Scan(p)
    PROVE  Inv'
<1> USE DEF Inv
<1>1. /\ mode = "up" /\ handler = "scanning" /\ events = <<>>
      /\ UNCHANGED <<present, version, changes, queue, buf, events, mode, handler>>
      /\ unscanned' \subseteq unscanned /\ unscanned \subseteq Dir \cup File
      /\ handler' \in Handler /\ events' \in Seq(Event) /\ p \in Path
  BY DEF Scan, fileSystem, BatchOnly, Typed, InotifyTypeOK, Path
<1>2. CASE p \in present
  <2>1. AddWatch(p)
    BY <1>2 DEF Scan
  <2> QED BY <1>1, <2>1, AddStep
<1>3. CASE p \notin present
  <2>1. UNCHANGED <<watch, mark, watches, paths, list>>
    BY <1>3 DEF Scan
  <2> QED BY <1>1, <2>1, SameWatches
<1> QED BY <1>2, <1>3

\* Inv is inductive.
LEMMA NextInv == Inv /\ [Next]_vars => Inv'
<1> SUFFICES ASSUME Inv, [Next]_vars PROVE Inv'
  OBVIOUS
<1>1. CASE \E p \in Dir \cup File : Scan(p)
  BY <1>1, ScanStep
<1>2. CASE Start
  BY <1>2, SameWatches
     DEF Start, inotifyVars, fileSystem, kernel, library, Inv, BatchOnly, Typed, InotifyTypeOK, Handler
<1>3. CASE Read
  BY <1>3, ReadStep
<1>4. CASE DeliverEvent
  BY <1>4, DeliverStep
<1>5. CASE WaitAgain
  BY <1>5, SameWatches
     DEF WaitAgain, inotifyVars, fileSystem, kernel, library, Inv, BatchOnly, Typed, InotifyTypeOK, Handler
<1>6. CASE HandleEvent
  BY <1>6, HandleStep
<1>7. CASE Shutdown
  BY <1>7, ShutdownStep
<1>8. CASE SendProgress
  BY <1>8, SameWatches
     DEF SendProgress, SendStep, inotifyVars, fileSystem, kernel, library, Inv, BatchOnly, Typed, InotifyTypeOK
<1>9. CASE OtherPrograms
  BY <1>9, OtherProgramsStep
<1>10. CASE Kernel
  BY <1>10, FreeStep
<1>11. CASE UNCHANGED vars
  BY <1>11, SameWatches
     DEF vars, daemon, inotifyVars, fileSystem, kernel, library, Inv, BatchOnly, Typed, InotifyTypeOK
<1> QED BY <1>1, <1>2, <1>3, <1>4, <1>5, <1>6, <1>7, <1>8, <1>9, <1>10, <1>11 DEF Next, Inotification

-----------------------------------------------------------------------------
(* Theorems.                                                               *)

\* The inductive invariant of the config watcher holds in every reachable state.
THEOREM Invariance == Spec => []Inv
  BY InitInv, NextInv, PTL DEF Spec

\* The list of watches and the library's two maps agree while the daemon is up
\* (moman.cpp:99-218, inotify-cxx.cpp:318-440).
THEOREM MapsInStep == Spec => []MapsAgree
<1>1. Inv => MapsAgree
  BY DEF Inv
<1> QED BY <1>1, Invariance, PTL

\* A watch the library takes for live has a mark, or its drop is on its way; and
\* every mark on a path is known to the library.
THEOREM MarksInStep == Spec => []MarksAgree
<1>1. Inv => MarksAgree
  <2> SUFFICES ASSUME Inv, mode = "up" PROVE LiveIsMarked /\ MarkedIsLive
    BY DEF MarksAgree
  <2>1. MarkedIsLive
    BY DEF Inv, LinkedIsLive
  <2> DEFINE s == buf \o queue
  <2>2. /\ buf \in Seq(Event) /\ queue \in Seq(Event)
    BY DEF Inv, Typed, InotifyTypeOK
  <2>3. /\ Len(s) = Len(buf) + Len(queue) /\ Len(buf) \in Nat /\ Len(queue) \in Nat
        /\ \A i \in 1..Len(buf) : s[i] = buf[i]
        /\ \A i \in 1..Len(queue) : s[Len(buf) + i] = queue[i]
    BY <2>2
  <2> HIDE DEF s
  <2>4. ASSUME NEW w \in watches, mark[w] \notin {"linked", "unlinked"}
        PROVE  \E i \in 1..Len(s) : s[i].watch = w /\ s[i].type = "IN_IGNORED"
    <3>1. w \in Drops(buf) \cup Drops(queue)
      BY <2>4 DEF Inv, LiveOrDropped
    <3>2. CASE w \in Drops(buf)
      <4>1. PICK i \in 1..Len(buf) : buf[i].watch = w /\ buf[i].type = "IN_IGNORED"
        BY <3>2 DEF Drops
      <4>2. i \in 1..Len(s) /\ s[i] = buf[i]
        BY <2>3
      <4> QED BY <4>1, <4>2
    <3>3. CASE w \in Drops(queue)
      <4>1. PICK i \in 1..Len(queue) : queue[i].watch = w /\ queue[i].type = "IN_IGNORED"
        BY <3>3 DEF Drops
      <4>2. Len(buf) + i \in 1..Len(s) /\ s[Len(buf) + i] = queue[i]
        BY <2>3
      <4> QED BY <4>1, <4>2
    <3> QED BY <3>1, <3>2, <3>3
  <2>5. LiveIsMarked
    BY <2>4 DEF LiveIsMarked, s
  <2> QED BY <2>1, <2>5
<1> QED BY <1>1, Invariance, PTL

\* After the descriptor is closed no event is left to be handled, hence no watch is
\* added to or removed from it (callbacks.cpp:62, inotify-cxx.cpp:318-329).
THEOREM QuietAfterClose == Spec => []ClosedIsQuiet
<1>1. Inv => ClosedIsQuiet
  BY DEF Inv, BatchOnly, ClosedIsQuiet
<1> QED BY <1>1, Invariance, PTL

-----------------------------------------------------------------------------
(* The events that are pending, as sets.                                   *)

EventsOf(q) == {q[i] : i \in 1..Len(q)}

AllEvents == EventsOf(events) \cup EventsOf(buf) \cup EventsOf(queue)

\* An empty queue has no event.
LEMMA EventsEmpty == EventsOf(<<>>) = {}
  BY DEF EventsOf

\* An event of a queue is an event.
LEMMA EventsTyped ==
    ASSUME NEW q \in Seq(Event)
    PROVE  EventsOf(q) \subseteq Event
  BY DEF EventsOf

\* A queue that an event is added to has that event too.
LEMMA EventsAppend ==
    ASSUME NEW q \in Seq(Event), NEW e \in Event
    PROVE  EventsOf(Append(q, e)) = EventsOf(q) \cup {e}
<1> DEFINE s == Append(q, e)
<1>1. /\ s \in Seq(Event) /\ Len(s) = Len(q) + 1 /\ Len(q) \in Nat
      /\ \A i \in 1..Len(q) : s[i] = q[i]
      /\ s[Len(q) + 1] = e
  OBVIOUS
<1> HIDE DEF s
<1>2. EventsOf(s) \subseteq EventsOf(q) \cup {e}
  <2> SUFFICES ASSUME NEW i \in 1..Len(s) PROVE s[i] \in EventsOf(q) \cup {e}
    BY DEF EventsOf
  <2>1. i \in 1..Len(q) \/ i = Len(q) + 1
    BY <1>1
  <2> QED BY <1>1, <2>1 DEF EventsOf
<1>3. EventsOf(q) \subseteq EventsOf(s)
  BY <1>1 DEF EventsOf
<1>4. e \in EventsOf(s)
  <2>1. Len(q) + 1 \in 1..Len(s)
    BY <1>1
  <2> QED BY <1>1, <2>1 DEF EventsOf
<1> QED BY <1>2, <1>3, <1>4 DEF s

\* The oldest event and the others are the events of a queue.
LEMMA EventsTail ==
    ASSUME NEW q \in Seq(Event), q # <<>>
    PROVE  EventsOf(q) = {Head(q)} \cup EventsOf(Tail(q))
<1> DEFINE s == Tail(q)
<1>1. /\ Len(q) = Len(s) + 1 /\ Len(s) \in Nat /\ Head(q) = q[1]
      /\ \A i \in 1..Len(s) : s[i] = q[i + 1]
  OBVIOUS
<1> HIDE DEF s
<1>2. EventsOf(q) \subseteq {Head(q)} \cup EventsOf(s)
  <2> SUFFICES ASSUME NEW i \in 1..Len(q), i # 1 PROVE q[i] \in EventsOf(s)
    BY <1>1 DEF EventsOf
  <2>1. i - 1 \in 1..Len(s) /\ s[i - 1] = q[i]
    BY <1>1
  <2> QED BY <2>1 DEF EventsOf
<1>3. EventsOf(s) \subseteq EventsOf(q)
  <2> SUFFICES ASSUME NEW i \in 1..Len(s) PROVE s[i] \in EventsOf(q)
    BY DEF EventsOf
  <2>1. i + 1 \in 1..Len(q) /\ q[i + 1] = s[i]
    BY <1>1
  <2> QED BY <2>1 DEF EventsOf
<1>4. Head(q) \in EventsOf(q)
  BY <1>1 DEF EventsOf
<1> QED BY <1>2, <1>3, <1>4 DEF s

\* An event that is merged is there already.
LEMMA EventsMerged ==
    ASSUME NEW q \in Seq(Event), NEW e \in Event
    PROVE  EventsOf(Merged(q, e)) = EventsOf(q) \cup {e}
<1>1. CASE q # <<>> /\ q[Len(q)] = e
  <2>1. Len(q) \in 1..Len(q)
    BY <1>1
  <2> QED BY <1>1, <2>1 DEF Merged, EventsOf
<1>2. CASE ~(q # <<>> /\ q[Len(q)] = e)
  BY <1>2, EventsAppend DEF Merged
<1> QED BY <1>1, <1>2

\* Queues in a row have the events of each.
LEMMA EventsConcat ==
    ASSUME NEW q \in Seq(Event), NEW r \in Seq(Event)
    PROVE  q \o r \in Seq(Event) /\ EventsOf(q \o r) = EventsOf(q) \cup EventsOf(r)
<1> DEFINE s == q \o r
<1>1. /\ s \in Seq(Event) /\ Len(s) = Len(q) + Len(r) /\ Len(q) \in Nat /\ Len(r) \in Nat
      /\ \A i \in 1..Len(q) : s[i] = q[i]
      /\ \A i \in 1..Len(r) : s[Len(q) + i] = r[i]
  OBVIOUS
<1> HIDE DEF s
<1>2. EventsOf(s) \subseteq EventsOf(q) \cup EventsOf(r)
  <2> SUFFICES ASSUME NEW i \in 1..Len(s), i \notin 1..Len(q) PROVE s[i] \in EventsOf(r)
    BY <1>1 DEF EventsOf
  <2>1. i - Len(q) \in 1..Len(r) /\ s[Len(q) + (i - Len(q))] = r[i - Len(q)]
    BY <1>1
  <2>2. Len(q) + (i - Len(q)) = i
    BY <1>1
  <2> QED BY <2>1, <2>2 DEF EventsOf
<1>3. EventsOf(q) \subseteq EventsOf(s)
  BY <1>1 DEF EventsOf
<1>4. EventsOf(r) \subseteq EventsOf(s)
  <2> SUFFICES ASSUME NEW i \in 1..Len(r) PROVE r[i] \in EventsOf(s)
    BY DEF EventsOf
  <2>1. Len(q) + i \in 1..Len(s) /\ s[Len(q) + i] = r[i]
    BY <1>1
  <2> QED BY <2>1 DEF EventsOf
<1> QED BY <1>1, <1>2, <1>3, <1>4 DEF s

\* A mark is told of an event as one of its watch.
LEMMA EventsTold ==
    ASSUME Typed, NEW at \in Path, NEW p \in Path,
           NEW type \in {"IN_CREATE", "IN_DELETE", "IN_MODIFY"}
    PROVE  \/ MarksOn(at) = {} /\ Tell(at, type, p) = queue
           \/ \E w \in MarksOn(at), e \in Event :
                 /\ e = [watch |-> w, type |-> type, path |-> p]
                 /\ Tell(at, type, p) = Merged(queue, e)
                 /\ EventsOf(Tell(at, type, p)) = EventsOf(queue) \cup {e}
<1>1. CASE MarksOn(at) = {}
  BY <1>1 DEF Tell
<1>2. CASE MarksOn(at) # {}
  <2> DEFINE w == CHOOSE v \in MarksOn(at) : TRUE
             e == [watch |-> w, type |-> type, path |-> p]
  <2>1. w \in MarksOn(at) /\ w \in Wd
    BY <1>2 DEF MarksOn
  <2>2. e \in Event /\ Tell(at, type, p) = Merged(queue, e)
    BY <1>2, <2>1 DEF Event, EventType, Tell
  <2>3. queue \in Seq(Event)
    BY DEF Typed, InotifyTypeOK
  <2>4. EventsOf(Merged(queue, e)) = EventsOf(queue) \cup {e}
    BY <2>2, <2>3, EventsMerged
  <2> QED BY <2>1, <2>2, <2>4
<1> QED BY <1>1, <1>2

-----------------------------------------------------------------------------
(* What steps do to events and watches.                                    *)

\* Nothing of the daemon has changed but what the invariants below do not read.
LEMMA EventsKept ==
    ASSUME UNCHANGED <<events, buf, queue>>
    PROVE  AllEvents' = AllEvents
  BY DEF AllEvents, EventsOf

\* A read moves events from the kernel's queue to the buffer.
LEMMA ReadEffect ==
    ASSUME Inv, Read
    PROVE  /\ AllEvents' = AllEvents
           /\ UNCHANGED <<present, version, mark, watch, watches, list, mode, handler, parsed, events>>
<1>1. buf = <<>> /\ buf' = queue /\ queue' = <<>> /\ events' = events
  BY DEF Read, ReadEvents
<1>2. AllEvents' = AllEvents
  BY <1>1, EventsEmpty DEF AllEvents, EventsOf
<1>3. UNCHANGED <<present, version, mark, watch, watches, list, mode, handler, parsed>>
  BY DEF Read, ReadEvents, fileSystem, daemon
<1> QED BY <1>1, <1>2, <1>3

\* An event is delivered to a watch that is found by its descriptor, or is lost.
LEMMA DeliverEffect ==
    ASSUME Inv, DeliverEvent
    PROVE  /\ buf # <<>> /\ handler' = "handling" /\ mode \in {"up", "closing"}
           /\ Head(buf) \in EventsOf(buf) /\ buf' = Tail(buf)
           /\ \/ Head(buf).watch \in watches /\ AllEvents' = AllEvents
                 /\ events' = Append(events, Head(buf))
              \/ Head(buf).watch \notin watches /\ events' = events
                 /\ AllEvents = AllEvents' \cup {Head(buf)}
           /\ EventsOf(buf) = {Head(buf)} \cup EventsOf(buf')
           /\ \A w \in Wd : watch'[w].path = watch[w].path
           /\ UNCHANGED <<present, version, mark, queue, list, mode, parsed>>
<1> DEFINE e == Head(buf)
<1>1. /\ buf # <<>> /\ buf' = Tail(buf) /\ handler' = "handling" /\ mode \in {"up", "closing"}
      /\ \/ e.watch \in watches /\ events' = Append(events, e)
         \/ e.watch \notin watches /\ events' = events
      /\ UNCHANGED <<present, version, mark, queue, list, mode, parsed>>
  BY DEF DeliverEvent, Deliver, fileSystem, kernel, Running
<1>2. buf \in Seq(Event) /\ events \in Seq(Event) /\ watch \in [Wd -> InotifyWatch]
  BY DEF Inv, Typed, InotifyTypeOK
<1>3. e \in Event /\ e.watch \in Wd
  BY <1>1, <1>2, DropsTail DEF Event
<1>4. \A w \in Wd : watch'[w].path = watch[w].path
  <2>1. UNCHANGED watch \/ watch' = [watch EXCEPT ![e.watch].enabled = FALSE]
    BY DEF DeliverEvent, Deliver, Disable
  <2> QED BY <1>2, <1>3, <2>1 DEF InotifyWatch
<1>5. EventsOf(buf) = {e} \cup EventsOf(buf')
  BY <1>1, <1>2, EventsTail
<1>6. \/ e.watch \in watches /\ AllEvents' = AllEvents /\ events' = Append(events, e)
      \/ e.watch \notin watches /\ events' = events /\ AllEvents = AllEvents' \cup {e}
  <2>1. /\ EventsOf(queue)' = EventsOf(queue) /\ EventsOf(buf)' = EventsOf(buf')
        /\ EventsOf(events)' = EventsOf(events')
    BY <1>1 DEF EventsOf
  <2>2. CASE e.watch \in watches /\ events' = Append(events, e)
    <3>1. EventsOf(events') = EventsOf(events) \cup {e}
      BY <1>2, <1>3, <2>2, EventsAppend
    <3> QED BY <1>5, <2>1, <2>2, <3>1 DEF AllEvents
  <2>3. CASE e.watch \notin watches /\ events' = events
    BY <1>5, <2>1, <2>3 DEF AllEvents
  <2> QED BY <1>1, <2>2, <2>3
<1> QED BY <1>1, <1>4, <1>5, <1>6

\* A watch that is added has a descriptor that is new, on a path that is there.
LEMMA AddEffect ==
    ASSUME Inv, NEW p \in Path, AddWatch(p)
    PROVE  /\ p \in present \cup {Root}
           /\ \E n \in Wd :
                 /\ mark[n] = "unused" /\ n \notin list
                 /\ mark'[n] = "linked" /\ watch'[n].path = p
                 /\ list' = list \cup {n}
                 /\ \A w \in Wd \ {n} : watch'[w] = watch[w] /\ mark'[w] = mark[w]
<1> DEFINE n == NextWd
<1>1. PICK u \in Wd : mark[u] = "unused"
  BY DEF AddWatch, Add
<1>2. n \in Wd /\ mark[n] = "unused"
  BY <1>1 DEF NextWd
<1>3. /\ watch' = [watch EXCEPT ![n] = [path |-> p, enabled |-> TRUE]]
      /\ mark' = [mark EXCEPT ![n] = "linked"]
      /\ list' = list \cup {n} /\ p \in present \cup {Root}
  BY DEF AddWatch, Add, CanAdd
<1> HIDE DEF n
<1>4. /\ mark'[n] = "linked" /\ watch'[n].path = p
      /\ \A w \in Wd \ {n} : watch'[w] = watch[w] /\ mark'[w] = mark[w]
  BY <1>2, <1>3 DEF Inv, Typed, InotifyTypeOK
<1>5. n \notin list
  BY <1>2 DEF Inv, DescriptorsUsed
<1> QED BY <1>2, <1>3, <1>4, <1>5

\* The handler adds a watch, removes one, or leaves them; what it has taken from
\* the events of its batch is gone.
LEMMA HandleEffect ==
    ASSUME Inv, HandleEvent
    PROVE  /\ mode = "up" /\ events # <<>> /\ buf' = buf
           /\ Head(events) \in EventsOf(events) /\ Head(events) \in Event
           /\ EventsOf(events) = {Head(events)} \cup EventsOf(Tail(events))
           /\ UNCHANGED <<present, version, removed, early>>
           /\ handler' \in {"handling", "reading"}
           /\ EventsOf(events') \subseteq EventsOf(events)
           /\ \/ NoWatchChanges /\ AllEvents' \subseteq AllEvents
                 /\ (mode' = mode \/ mode' \in {"uncaught", "segfault"})
              \/ /\ AddWatch(Head(events).path) /\ AllEvents' \subseteq AllEvents
                 /\ Head(events).type = "IN_CREATE"
                 /\ UNCHANGED <<mode, queue>>
              \/ /\ Head(events).type = "IN_DELETE"
                 /\ \E w \in RemovedWatches(Head(events)) : list' = list \ {w}
                 /\ UNCHANGED <<mode, watch>>
                 /\ \A e \in AllEvents' \ AllEvents : e.type = "IN_IGNORED"
                 /\ \A w \in Wd : mark'[w] = mark[w] \/ mark'[w] = "gone"
<1>1. /\ events # <<>> /\ mode \in {"up", "closing"} /\ buf' = buf
      /\ UNCHANGED <<present, version, removed, early>>
      /\ events' = events \/ events' = Tail(events)
  BY DEF HandleEvent, HandleDangling, HandleIgnored, HandleCreatedDir, HandleCreatedFile,
         HandleCreatedAgain, HandleModified, HandleDeleted, Handle, Handling, GetEvent,
         Running, fileSystem, history
<1>2. mode = "up"
  BY <1>1 DEF Inv, BatchOnly
<1>3. handler' \in {"handling", "reading"}
  BY DEF HandleEvent, HandleDangling, HandleIgnored, HandleCreatedDir, HandleCreatedFile,
         HandleCreatedAgain, HandleModified, HandleDeleted, Handle, Handling
<1>4. events \in Seq(Event) /\ queue \in Seq(Event) /\ mark \in [Wd -> MarkState]
  BY DEF Inv, Typed, InotifyTypeOK
<1>5. /\ Head(events) \in Event
      /\ EventsOf(events) = {Head(events)} \cup EventsOf(Tail(events))
      /\ EventsOf(events') \subseteq EventsOf(events)
  BY <1>1, <1>4, EventsTail, DropsTail
<1>6. AllEvents' = EventsOf(events') \cup EventsOf(buf) \cup EventsOf(queue')
  BY <1>1 DEF AllEvents, EventsOf
<1>7. queue' = queue => AllEvents' \subseteq AllEvents
  BY <1>5, <1>6 DEF AllEvents
<1>8. CASE HandleDangling
  BY <1>1, <1>2, <1>3, <1>5, <1>7, <1>8 DEF HandleDangling, Dies, NoWatchChanges
<1>9. CASE HandleIgnored \/ HandleCreatedAgain \/ HandleModified
  BY <1>1, <1>2, <1>3, <1>5, <1>7, <1>9
     DEF HandleIgnored, HandleCreatedAgain, HandleModified, NoWatchChanges
<1>10. CASE HandleCreatedDir
  BY <1>1, <1>2, <1>3, <1>5, <1>7, <1>10 DEF HandleCreatedDir, Dies, NoWatchChanges, Handle
<1>11. CASE HandleCreatedFile
  BY <1>1, <1>2, <1>3, <1>5, <1>7, <1>11 DEF HandleCreatedFile, Dies, NoWatchChanges
<1>12. CASE HandleDeleted
  <2> DEFINE w == CHOOSE v \in RemovedWatches(Head(events)) : TRUE
  <2>1. CASE NoWatchChanges
    BY <1>1, <1>2, <1>3, <1>5, <1>7, <1>12, <2>1 DEF HandleDeleted, NoWatchChanges
  <2>2. CASE RemovedWatches(Head(events)) # {} /\ Remove(w) /\ list' = list \ {w} /\ UNCHANGED mode
    <3>1. w \in RemovedWatches(Head(events)) /\ w \in Wd
      BY <2>2 DEF RemovedWatches, Inv, Typed
    <3>2. UNCHANGED watch /\ \A v \in Wd : mark'[v] = mark[v] \/ mark'[v] = "gone"
      BY <1>4, <2>2 DEF Remove
    <3>3. \A e \in AllEvents' \ AllEvents : e.type = "IN_IGNORED"
      <4>1. CASE w \notin watches
        BY <1>7, <2>2, <4>1 DEF Remove
      <4>2. CASE w \in watches
        <5> DEFINE d == [watch |-> w, type |-> "IN_IGNORED", path |-> watch[w].path]
        <5>1. d \in Event /\ d.type = "IN_IGNORED" /\ queue' = Append(queue, d)
          BY <2>2, <3>1, <4>2
             DEF Remove, Event, EventType, Inv, DescriptorsUsed, RemovedWatches
        <5> HIDE DEF d
        <5>2. EventsOf(queue') = EventsOf(queue) \cup {d}
          BY <1>4, <5>1, EventsAppend
        <5> QED BY <1>5, <1>6, <5>1, <5>2 DEF AllEvents
      <4> QED BY <4>1, <4>2
    <3>4. Head(events).type = "IN_DELETE"
      BY <1>12 DEF HandleDeleted, Handle
    <3> QED BY <1>1, <1>2, <1>3, <1>5, <2>2, <3>1, <3>2, <3>3, <3>4
  <2> QED BY <1>12, <2>1, <2>2 DEF HandleDeleted
<1> QED BY <1>8, <1>9, <1>10, <1>11, <1>12 DEF HandleEvent

-----------------------------------------------------------------------------
(* Dangling pointers: the watches of directories stay in the list while no *)
(* directory is removed, so that what creates and deletes has its watch.   *)

FromDirectory(e) ==
    /\ e.type = "IN_DELETE" => e.path \in File
    /\ e.type \in {"IN_CREATE", "IN_DELETE"} =>
          e.watch \in list /\ watch[e.watch].path \notin File

DirectoriesStay ==
    mode # "closing" /\ "directory" \notin removed => \A e \in AllEvents : FromDirectory(e)

\* What is not created or deleted asks nothing of its watch.
LEMMA OtherEvents ==
    ASSUME NEW e, e.type \in {"IN_MODIFY", "IN_IGNORED"}
    PROVE  FromDirectory(e)'
  BY DEF FromDirectory

\* A linked mark is that of the one watch on its path, which is in the list.
LEMMA MarkedIsListed ==
    ASSUME Inv, mode = "up", NEW at, NEW w \in MarksOn(at)
    PROVE  /\ w \in list /\ w \in watches /\ w \in Wd /\ mark[w] = "linked"
           /\ watch[w].path = at
           /\ \A v \in list : watch[v].path = at => v = w
  BY DEF Inv, MapsAgree, LinkedIsLive, MarkedIsLive, MarksOn

\* The object an event is about, and the mark that is told of it.
LEMMA PathsOfEvents ==
    ASSUME NEW p \in Dir \cup File
    PROVE  /\ p \in Path /\ ParentOf(p) \in Path /\ ParentOf(p) \notin File
           /\ p \in File => p.dir \in Dir
  BY InotifyAssumption DEF ParentOf, Path, File

\* Other programs' changes are told of to directories' marks, or to files' as IN_MODIFY.
LEMMA ChangesFromDirectories ==
    ASSUME Inv, OtherPrograms, mode = "up", "directory" \notin removed',
           NEW e \in AllEvents', e \notin AllEvents
    PROVE  FromDirectory(e)'
<1> USE DEF Inv
<1>1. UNCHANGED <<list, watch, events, buf>>
  BY DEF OtherPrograms, Create, Write, Delete, Replace, WriteUnlinked, Change, library, daemon
<1>2. e \in EventsOf(queue') /\ e \notin EventsOf(queue)
  BY <1>1 DEF AllEvents, EventsOf
<1>3. ASSUME NEW p \in Dir \cup File, NEW type \in {"IN_CREATE", "IN_DELETE"},
             queue' = Tell(ParentOf(p), type, p), type = "IN_DELETE" => p \in File
      PROVE  FromDirectory(e)'
  <2>0. Typed /\ p \in Path /\ ParentOf(p) \in Path
    BY PathsOfEvents
  <2>1. PICK w \in MarksOn(ParentOf(p)) : e = [watch |-> w, type |-> type, path |-> p]
    <3>1. queue' # queue
      BY <1>2
    <3>2. PICK w \in MarksOn(ParentOf(p)) :
             EventsOf(queue') = EventsOf(queue) \cup {[watch |-> w, type |-> type, path |-> p]}
      <4> DEFINE at == ParentOf(p)
      <4>1. /\ Typed /\ p \in Path /\ at \in Path /\ queue' = Tell(at, type, p)
            /\ type \in {"IN_CREATE", "IN_DELETE", "IN_MODIFY"}
        BY <1>3, <2>0
      <4> HIDE DEF at
      <4>2. \E w \in MarksOn(at) :
               EventsOf(queue') = EventsOf(queue) \cup {[watch |-> w, type |-> type, path |-> p]}
        <5>1. \E w \in MarksOn(at), d \in Event :
                 /\ d = [watch |-> w, type |-> type, path |-> p]
                 /\ EventsOf(Tell(at, type, p)) = EventsOf(queue) \cup {d}
          BY <3>1, <4>1, EventsTold
        <5> QED BY <4>1, <5>1
      <4> QED BY <4>2 DEF at
    <3> QED BY <1>2, <3>2
  <2>2. w \in list /\ watch[w].path \notin File
    BY <2>1, MarkedIsListed, PathsOfEvents
  <2>3. e.watch = w /\ e.type = type /\ e.path = p
    BY <2>1
  <2> QED BY <1>1, <1>3, <2>2, <2>3 DEF FromDirectory
<1>4. ASSUME NEW p \in Dir \cup File, Create(p) PROVE FromDirectory(e)'
  BY <1>3, <1>4 DEF Create
<1>5. ASSUME NEW f \in File, Write(f) PROVE FromDirectory(e)'
  <2>1. queue' = Tell(f, "IN_MODIFY", f) /\ f \in Path
    BY <1>5, PathsOfEvents DEF Write
  <2>2. PICK w \in MarksOn(f) :
             EventsOf(queue') = EventsOf(queue) \cup {[watch |-> w, type |-> "IN_MODIFY", path |-> f]}
    <3>1. Typed /\ queue' # queue
      BY <1>2
    <3> QED BY <2>1, <3>1, EventsTold
  <2>3. e.type = "IN_MODIFY"
    BY <1>2, <2>2
  <2> QED BY <2>3, OtherEvents
<1>6. ASSUME NEW p \in Dir \cup File, Delete(p),
             removed' = removed \cup {IF p \in Dir THEN "directory" ELSE "file"}
      PROVE  FromDirectory(e)'
  <2>1. p \in File
    BY <1>6
  <2> QED BY <1>3, <1>6, <2>1 DEF Delete
<1>7. ASSUME NEW f \in File, Replace(f) PROVE FromDirectory(e)'
  BY <1>2, <1>7 DEF Replace
<1>8. ASSUME NEW w \in Wd, WriteUnlinked(w) PROVE FromDirectory(e)'
  <2> DEFINE d == [watch |-> w, type |-> "IN_MODIFY", path |-> watch[w].path]
  <2>1. d \in Event /\ d.type = "IN_MODIFY" /\ queue' = Merged(queue, d)
    BY <1>8 DEF WriteUnlinked, Event, EventType, Path
  <2>2. queue \in Seq(Event)
    BY DEF Typed, InotifyTypeOK
  <2> HIDE DEF d
  <2>3. e.type = "IN_MODIFY"
    BY <1>2, <2>1, <2>2, EventsMerged
  <2> QED BY <2>3, OtherEvents
<1> QED BY <1>4, <1>5, <1>6, <1>7, <1>8 DEF OtherPrograms

\* A dropped mark's event is IN_IGNORED.
LEMMA KernelEffect ==
    ASSUME Inv, Kernel
    PROVE  /\ \A e \in AllEvents' \ AllEvents : e.type = "IN_IGNORED"
           /\ AllEvents \subseteq AllEvents'
           /\ \E w \in Wd : mark[w] = "unlinked"
           /\ UNCHANGED <<present, version, watch, watches, events, buf, daemon, history>>
           /\ \A w \in Wd : mark'[w] = mark[w] \/ mark'[w] = "gone"
           /\ EventsOf(queue') \ EventsOf(queue) \subseteq {e \in Event : e.type = "IN_IGNORED"}
<1> USE DEF Inv
<1>1. PICK w \in Wd : FreeInode(w)
  BY DEF Kernel
<1> DEFINE d == [watch |-> w, type |-> "IN_IGNORED", path |-> watch[w].path]
<1>2. d \in Event /\ d.type = "IN_IGNORED" /\ queue' = Append(queue, d) /\ queue \in Seq(Event)
  BY <1>1 DEF FreeInode, Event, EventType, DescriptorsUsed, Typed, InotifyTypeOK
<1>3. UNCHANGED <<present, version, watch, watches, events, buf, daemon, history>>
  BY <1>1 DEF FreeInode, Kernel, fileSystem, library
<1>4. mark[w] = "unlinked" /\ \A v \in Wd : mark'[v] = mark[v] \/ mark'[v] = "gone"
  BY <1>1 DEF FreeInode, Typed, InotifyTypeOK
<1> HIDE DEF d
<1>5. EventsOf(queue') = EventsOf(queue) \cup {d}
  BY <1>2, EventsAppend
<1>6. AllEvents' = AllEvents \cup {d}
  BY <1>3, <1>5 DEF AllEvents, EventsOf
<1> QED BY <1>2, <1>3, <1>4, <1>5, <1>6

\* The initial state has no event.
LEMMA InitNoEvents == Init => AllEvents = {}
  BY EventsEmpty DEF Init, InotifyInit, AllEvents

\* No watch of a directory leaves the list before a directory is removed.
LEMMA NextDirectoriesStay == Inv /\ DirectoriesStay /\ [Next]_vars => DirectoriesStay'
<1> SUFFICES ASSUME Inv, DirectoriesStay, [Next]_vars, mode' # "closing", "directory" \notin removed',
                    NEW e \in AllEvents'
             PROVE  FromDirectory(e)'
  BY DEF DirectoriesStay
<1>1. ASSUME mode # "closing", "directory" \notin removed, AllEvents' \subseteq AllEvents,
             UNCHANGED <<list, watch>>
      PROVE  FromDirectory(e)'
  BY <1>1 DEF DirectoriesStay, FromDirectory
<1>2. ASSUME mode # "closing", "directory" \notin removed, AllEvents' \subseteq AllEvents,
             NEW p \in Path, AddWatch(p)
      PROVE  FromDirectory(e)'
  <2>1. PICK n \in Wd : n \notin list /\ list' = list \cup {n}
                       /\ \A w \in Wd \ {n} : watch'[w] = watch[w]
    BY <1>2, AddEffect
  <2>2. FromDirectory(e) /\ list \subseteq Wd
    BY <1>2 DEF DirectoriesStay, Inv, Typed
  <2> QED BY <2>1, <2>2 DEF FromDirectory
<1>3. CASE \E p \in Dir \cup File : Scan(p)
  <2>1. PICK p \in Dir \cup File : Scan(p)
    BY <1>3
  <2>2. UNCHANGED <<events, buf, queue, mode, removed>>
    BY <2>1 DEF Scan, history
  <2>3. AllEvents' = AllEvents
    BY <2>2, EventsKept
  <2>4. p \in Path
    BY PathsOfEvents
  <2>5. AddWatch(p) \/ UNCHANGED <<list, watch>>
    BY <2>1 DEF Scan
  <2> QED BY <1>1, <1>2, <2>2, <2>3, <2>4, <2>5
<1>4. CASE Start \/ WaitAgain \/ SendProgress \/ UNCHANGED vars
  <2>1. UNCHANGED <<events, buf, queue, mode, removed, list, watch>>
    BY <1>4 DEF Start, WaitAgain, SendProgress, SendStep, vars, inotifyVars, kernel, library,
                daemon, history
  <2>2. AllEvents' = AllEvents
    BY <2>1, EventsKept
  <2> QED BY <1>1, <2>1, <2>2
<1>5. CASE Read
  <2>1. UNCHANGED removed
    BY <1>5 DEF Read, history
  <2> QED BY <1>1, <1>5, <2>1, ReadEffect
<1>6. CASE DeliverEvent
  <2>1. UNCHANGED removed
    BY <1>6 DEF DeliverEvent, history
  <2>2. FromDirectory(e) /\ list \subseteq Wd
    BY <1>6, <2>1, DeliverEffect DEF DirectoriesStay, Inv, Typed
  <2> QED BY <1>6, <2>2, DeliverEffect DEF FromDirectory
<1>7. CASE HandleEvent
  <2> DEFINE h == Head(events)
  <2>1. /\ mode = "up" /\ UNCHANGED removed /\ h \in Event /\ h \in AllEvents
    BY <1>7, HandleEffect DEF AllEvents
  <2>2. h.path \in Path
    BY <2>1 DEF Event
  <2>3. CASE NoWatchChanges /\ AllEvents' \subseteq AllEvents
    BY <1>1, <2>1, <2>3 DEF NoWatchChanges
  <2>4. CASE AddWatch(h.path) /\ AllEvents' \subseteq AllEvents
    BY <1>2, <2>1, <2>2, <2>4
  <2>5. CASE /\ h.type = "IN_DELETE"
             /\ \E w \in RemovedWatches(h) : list' = list \ {w}
             /\ UNCHANGED <<mode, watch>>
             /\ \A x \in AllEvents' \ AllEvents : x.type = "IN_IGNORED"
    <3>1. CASE e \notin AllEvents
      BY <2>5, <3>1, OtherEvents
    <3>2. CASE e \in AllEvents
      <4>1. FromDirectory(e) /\ h.path \in File
        BY <2>1, <2>5, <3>2 DEF DirectoriesStay, FromDirectory
      <4>2. PICK w \in list : watch[w].path = h.path /\ list' = list \ {w}
        BY <2>5 DEF RemovedWatches
      <4> QED BY <2>5, <4>1, <4>2 DEF FromDirectory
    <3> QED BY <3>1, <3>2
  <2> QED BY <1>7, <2>3, <2>4, <2>5, HandleEffect
<1>8. CASE Shutdown
  BY <1>8 DEF Shutdown
<1>9. CASE OtherPrograms
  <2>1. /\ mode = "up" /\ "directory" \notin removed
        /\ UNCHANGED <<list, watch>>
    BY <1>9 DEF OtherPrograms, Running, history, daemon, library,
                Create, Write, Delete, Replace, WriteUnlinked, Change
  <2>2. CASE e \in AllEvents
    BY <2>1, <2>2 DEF DirectoriesStay, FromDirectory
  <2> QED BY <1>9, <2>1, <2>2, ChangesFromDirectories
<1>10. CASE Kernel
  <2>1. CASE e \in AllEvents
    BY <1>10, <2>1, KernelEffect DEF DirectoriesStay, FromDirectory, daemon, history
  <2>2. CASE e \notin AllEvents
    BY <1>10, <2>2, KernelEffect, OtherEvents
  <2> QED BY <2>1, <2>2
<1> QED BY <1>3, <1>4, <1>5, <1>6, <1>7, <1>8, <1>9, <1>10 DEF Next, Inotification

\* The watches of directories stay, in every reachable state.
LEMMA AlwaysDirectoriesStay == Spec => []DirectoriesStay
<1>1. Init => DirectoriesStay
  BY InitNoEvents DEF DirectoriesStay
<1> QED BY <1>1, NextDirectoriesStay, Invariance, PTL DEF Spec

\* No event that adds or removes watches is handled through a dangling pointer,
\* unless a whole directory was removed (moman.cpp:133, 163-218).
THEOREM DanglingIsHarmless == Spec => []DanglingChangesNoWatch
<1>1. Inv /\ DirectoriesStay => DanglingChangesNoWatch
  <2> SUFFICES ASSUME Inv, DirectoriesStay, "directory" \notin removed,
                      NEW i \in 1..Len(events), events[i].watch \notin list
               PROVE  events[i].type \in {"IN_IGNORED", "IN_MODIFY"}
    BY DEF DanglingChangesNoWatch
  <2>1. events \in Seq(Event)
    BY DEF Inv, Typed, InotifyTypeOK
  <2>2. events[i] \in Event /\ events[i] \in AllEvents /\ events # <<>>
    BY <2>1 DEF AllEvents, EventsOf
  <2>3. FromDirectory(events[i])
    BY <2>2 DEF Inv, BatchOnly, DirectoriesStay
  <2> QED BY <2>2, <2>3 DEF FromDirectory, Event, EventType
<1> QED BY <1>1, AlwaysDirectoriesStay, Invariance, PTL

-----------------------------------------------------------------------------
(* Reading: a file is read after it is watched, so that what the daemon    *)
(* last read is current or an event of its watch is pending.               *)

LinkedIsPresent == \A w \in Wd : mark[w] = "linked" => watch[w].path \in present \cup {Root}

\* The file that has been watched and is to be read is that of the first event.
ReadingHead ==
    handler = "reading" =>
        /\ buf = <<>> /\ events # <<>>
        /\ Head(events).type = "IN_CREATE" /\ Head(events).path \in File

ModifiedEvent(w) == [watch |-> w, type |-> "IN_MODIFY", path |-> watch[w].path]

FreshFile(w) ==
    \/ parsed[watch[w].path] = version[watch[w].path]
    \/ watch[w].path \in found
    \/ ModifiedEvent(w) \in AllEvents
    \/ handler = "reading" /\ Head(events).path = watch[w].path

Fresh ==
    mode = "up" => \A w \in list : mark[w] = "linked" /\ watch[w].path \in File => FreshFile(w)

ReadInv ==
    /\ parsed \in [File -> Nat \cup {None}]
    /\ LinkedIsPresent
    /\ ReadingHead
    /\ Fresh

\* A file that is read has its current version read; no other file is touched.
LEMMA ParseEffect ==
    ASSUME Typed, parsed \in [File -> Nat \cup {None}], NEW g, NEW named,
           ParseAndSend(g, named) \/ NothingSent
    PROVE  /\ parsed' \in [File -> Nat \cup {None}]
           /\ \A f \in File : parsed'[f] = parsed[f] \/ parsed'[f] = version[f]
           /\ ParseAndSend(g, named) /\ g \in present \cap File => parsed'[g] = version[g]
  BY DEF ParseAndSend, NothingSent, Typed, InotifyTypeOK

\* What is handled reads at most one file.
LEMMA HandleParses ==
    ASSUME Inv, ReadInv, HandleEvent
    PROVE  /\ parsed' \in [File -> Nat \cup {None}]
           /\ \A f \in File : parsed'[f] = parsed[f] \/ parsed'[f] = version[f]
<1>1. Typed /\ parsed \in [File -> Nat \cup {None}]
  BY DEF Inv, ReadInv
<1>2. NothingSent \/ \E g, named : ParseAndSend(g, named)
  BY DEF HandleEvent, HandleDangling, HandleIgnored, HandleCreatedDir, HandleCreatedFile,
         HandleCreatedAgain, HandleModified, HandleDeleted, Dies
<1> QED BY <1>1, <1>2, ParseEffect

\* A linked mark was linked before, or is that of a watch just added.
LEMMA NextLinkedIsPresent == Inv /\ LinkedIsPresent /\ [Next]_vars => LinkedIsPresent'
<1> SUFFICES ASSUME Inv, LinkedIsPresent, [Next]_vars, NEW w \in Wd, mark'[w] = "linked"
             PROVE  watch'[w].path \in present' \cup {Root}
  BY DEF LinkedIsPresent
<1>1. ASSUME mark[w] = "linked", watch'[w].path = watch[w].path, present \subseteq present'
      PROVE  watch'[w].path \in present' \cup {Root}
  BY <1>1 DEF LinkedIsPresent
<1>2. ASSUME NEW p \in Path, AddWatch(p), UNCHANGED present
      PROVE  watch'[w].path \in present' \cup {Root}
  BY <1>1, <1>2, AddEffect
<1>3. CASE \E p \in Dir \cup File : Scan(p)
  <2>1. PICK p \in Dir \cup File : Scan(p)
    BY <1>3
  <2>2. UNCHANGED present /\ p \in Path /\ (AddWatch(p) \/ UNCHANGED <<watch, mark>>)
    BY <2>1, PathsOfEvents DEF Scan, fileSystem
  <2> QED BY <1>1, <1>2, <2>2
<1>4. CASE Start \/ WaitAgain \/ SendProgress \/ UNCHANGED vars
  <2>1. UNCHANGED <<present, watch, mark>>
    BY <1>4 DEF Start, WaitAgain, SendProgress, SendStep, vars, inotifyVars, fileSystem, kernel,
                library
  <2> QED BY <1>1, <2>1
<1>5. CASE Read
  BY <1>1, <1>5, ReadEffect
<1>6. CASE DeliverEvent
  BY <1>1, <1>6, DeliverEffect
<1>7. CASE HandleEvent
  <2>1. UNCHANGED present /\ Head(events).path \in Path
    BY <1>7, HandleEffect DEF Event
  <2>2. CASE AddWatch(Head(events).path)
    BY <1>2, <2>1, <2>2
  <2>3. CASE UNCHANGED watch /\ \A v \in Wd : mark'[v] = mark[v] \/ mark'[v] = "gone"
    BY <1>1, <2>1, <2>3
  <2>4. CASE NoWatchChanges
    BY <1>1, <2>1, <2>4 DEF NoWatchChanges
  <2> QED BY <1>7, <2>2, <2>3, <2>4, HandleEffect
<1>8. CASE Shutdown
  <2>1. UNCHANGED <<present, watch>> /\ mark[w] = "linked"
    BY <1>8 DEF Shutdown, Close, RemoveAll, fileSystem
  <2> QED BY <1>1, <2>1
<1>9. CASE OtherPrograms
  <2>1. UNCHANGED watch /\ mark \in [Wd -> MarkState]
    BY <1>9 DEF OtherPrograms, Create, Write, Delete, Replace, WriteUnlinked, Change, library,
                Inv, Typed, InotifyTypeOK
  <2>2. CASE \E p \in Dir \cup File : Delete(p)
    <3>1. PICK p : mark' = Unlinked(p) /\ present' = present \ {p}
      BY <2>2 DEF Delete
    <3>2. mark[w] = "linked" /\ watch[w].path # p
      BY <2>1, <3>1 DEF Unlinked, MarksOn
    <3> QED BY <2>1, <3>1, <3>2 DEF LinkedIsPresent
  <2>3. CASE \E f \in File : Replace(f)
    <3>1. PICK f : mark' = Unlinked(f) /\ present' = present
      BY <2>3 DEF Replace
    <3>2. mark[w] = "linked"
      BY <2>1, <3>1 DEF Unlinked, MarksOn
    <3> QED BY <1>1, <2>1, <3>1, <3>2
  <2>4. CASE UNCHANGED mark /\ present \subseteq present'
    BY <1>1, <2>1, <2>4
  <2> QED BY <1>9, <2>2, <2>3, <2>4 DEF OtherPrograms, Create, Write, WriteUnlinked
<1>10. CASE Kernel
  BY <1>1, <1>10, KernelEffect
<1> QED BY <1>3, <1>4, <1>5, <1>6, <1>7, <1>8, <1>9, <1>10 DEF Next, Inotification

\* The handler is between watching and reading in one step only.
LEMMA NextReadingHead == Inv /\ ReadingHead /\ [Next]_vars => ReadingHead'
<1> SUFFICES ASSUME Inv, ReadingHead, [Next]_vars, handler' = "reading"
             PROVE  ReadingHead'
  BY DEF ReadingHead
<1>1. CASE UNCHANGED <<handler, buf, events>>
  BY <1>1 DEF ReadingHead
<1>2. CASE HandleEvent
  <2>1. CASE HandleCreatedFile
    BY <2>1 DEF HandleCreatedFile, ReadingHead
  <2>2. CASE ~HandleCreatedFile
    BY <1>2, <2>2
       DEF HandleEvent, HandleDangling, HandleIgnored, HandleCreatedDir, HandleCreatedAgain,
           HandleModified, HandleDeleted, Handle, Handling
  <2> QED BY <2>1, <2>2
<1>3. CASE Start \/ Read \/ DeliverEvent \/ WaitAgain \/ Shutdown
  BY <1>3 DEF Start, Read, daemon, DeliverEvent, WaitAgain, Shutdown
<1>4. CASE (\E p \in Dir \cup File : Scan(p)) \/ SendProgress \/ OtherPrograms \/ Kernel \/ UNCHANGED vars
  <2>1. UNCHANGED <<handler, buf, events>>
    BY <1>4
       DEF Scan, SendProgress, SendStep, OtherPrograms, Create, Write, Delete, Replace,
           WriteUnlinked, Change, Kernel, FreeInode, vars, inotifyVars, library, daemon
  <2> QED BY <1>1, <2>1
<1> QED BY <1>2, <1>3, <1>4 DEF Next, Inotification

\* What was read is typed: only the handlers read, and whole versions.
LEMMA NextParsed == Inv /\ ReadInv /\ [Next]_vars => parsed' \in [File -> Nat \cup {None}]
<1> SUFFICES ASSUME Inv, ReadInv, [Next]_vars PROVE parsed' \in [File -> Nat \cup {None}]
  OBVIOUS
<1>1. CASE HandleEvent
  BY <1>1, HandleParses
<1>2. CASE UNCHANGED parsed
  BY <1>2 DEF ReadInv
<1> QED
  BY <1>1, <1>2
     DEF Next, Scan, Inotification, Start, Read, DeliverEvent, WaitAgain, Shutdown, SendProgress,
         SendStep, OtherPrograms, Kernel, vars, daemon

\* A watch stays fresh while its file does not change and its event is not handled.
LEMMA FreshKept ==
    ASSUME NEW w, FreshFile(w), watch'[w].path = watch[w].path,
           version'[watch[w].path] = version[watch[w].path],
           parsed'[watch[w].path] \in {parsed[watch[w].path], version[watch[w].path]},
           watch[w].path \in found => watch[w].path \in found',
           ModifiedEvent(w) \in AllEvents => ModifiedEvent(w) \in AllEvents',
           handler = "reading" => UNCHANGED <<handler, events>>
    PROVE  FreshFile(w)'
<1>1. ModifiedEvent(w)' = ModifiedEvent(w)
  BY DEF ModifiedEvent
<1> QED BY <1>1 DEF FreshFile

\* A change of a watched file is told to its watch.
LEMMA ChangesAreTold ==
    ASSUME Inv, ReadInv, OtherPrograms, mode = "up",
           NEW w \in list, mark'[w] = "linked", watch[w].path \in File
    PROVE  FreshFile(w)'
<1> USE DEF Inv
<1> DEFINE f == watch[w].path
<1>1. UNCHANGED <<list, watch, events, buf, parsed, handler>>
  BY DEF OtherPrograms, Create, Write, Delete, Replace, WriteUnlinked, Change, library, daemon
<1>2. Typed /\ queue \in Seq(Event) /\ mark \in [Wd -> MarkState] /\ w \in Wd
      /\ version \in [File -> Nat]
  BY DEF Typed, InotifyTypeOK
<1>3. mark[w] = "linked"
  BY <1>2 DEF OtherPrograms, Create, Write, Delete, Replace, WriteUnlinked, Unlinked
<1>4. FreshFile(w) /\ f \in present /\ f # Root
  BY <1>2, <1>3, InotifyAssumption DEF ReadInv, Fresh, LinkedIsPresent
<1>5. AllEvents' = EventsOf(events) \cup EventsOf(buf) \cup EventsOf(queue')
  BY <1>1 DEF AllEvents, EventsOf
<1>6. ASSUME EventsOf(queue) \subseteq EventsOf(queue'), version'[f] = version[f]
      PROVE  FreshFile(w)'
  <2>1. AllEvents \subseteq AllEvents'
    BY <1>5, <1>6 DEF AllEvents
  <2>2. f \in found => f \in found'
    BY <1>6 DEF OtherPrograms
  <2> QED BY <1>1, <1>4, <1>6, <2>1, <2>2, FreshKept
<1>7. ASSUME NEW at \in Path, NEW p \in Path, NEW type \in {"IN_CREATE", "IN_DELETE", "IN_MODIFY"},
             queue' = Tell(at, type, p)
      PROVE  EventsOf(queue) \subseteq EventsOf(queue')
  <2>1. \/ Tell(at, type, p) = queue
        \/ \E v \in MarksOn(at), e \in Event :
              EventsOf(Tell(at, type, p)) = EventsOf(queue) \cup {e}
    BY <1>2, EventsTold
  <2> QED BY <1>7, <2>1
<1>8. ASSUME NEW p \in Dir \cup File, Create(p) PROVE FreshFile(w)'
  <2>1. version'[f] = version[f]
    BY <1>2, <1>4, <1>8 DEF Create
  <2>2. queue' = Tell(ParentOf(p), "IN_CREATE", p)
    BY <1>8 DEF Create
  <2>3. EventsOf(queue) \subseteq EventsOf(queue')
    BY <1>7, <2>2, PathsOfEvents
  <2> QED BY <1>6, <2>1, <2>3
<1>9. ASSUME NEW g \in File, Write(g) PROVE FreshFile(w)'
  <2>1. queue' = Tell(g, "IN_MODIFY", g) /\ g \in Path
    BY <1>9, PathsOfEvents DEF Write
  <2>2. CASE g # f
    <3>1. version'[f] = version[f]
      BY <1>2, <1>9, <2>2 DEF Write
    <3> QED BY <1>6, <1>7, <2>1, <3>1
  <2>3. CASE g = f
    <3>1. w \in MarksOn(g)
      BY <1>2, <1>3, <2>3 DEF MarksOn
    <3>2. PICK v \in MarksOn(g), e \in Event :
             /\ e = [watch |-> v, type |-> "IN_MODIFY", path |-> g]
             /\ EventsOf(queue') = EventsOf(queue) \cup {e}
      BY <1>2, <2>1, <3>1, EventsTold
    <3>3. v = w
      BY <2>3, <3>2, MarkedIsListed
    <3>4. ModifiedEvent(w)' \in AllEvents'
      BY <1>1, <1>5, <2>3, <3>2, <3>3 DEF ModifiedEvent
    <3> QED BY <3>4 DEF FreshFile
  <2> QED BY <2>2, <2>3
<1>10. ASSUME NEW p \in Dir \cup File, Delete(p) PROVE FreshFile(w)'
  <2>1. queue' = Tell(ParentOf(p), "IN_DELETE", p) /\ version' = version
    BY <1>10 DEF Delete
  <2>2. EventsOf(queue) \subseteq EventsOf(queue')
    BY <1>7, <2>1, PathsOfEvents
  <2> QED BY <1>6, <2>1, <2>2
<1>11. ASSUME NEW g \in File, Replace(g) PROVE FreshFile(w)'
  <2>1. mark' = Unlinked(g) /\ queue' = queue
    BY <1>11 DEF Replace
  <2>2. g # f
    BY <1>2, <1>3, <2>1 DEF Unlinked, MarksOn
  <2>3. version'[f] = version[f]
    BY <1>2, <1>11, <2>2 DEF Replace
  <2> QED BY <1>6, <2>1, <2>3
<1>12. ASSUME NEW v \in Wd, WriteUnlinked(v) PROVE FreshFile(w)'
  <2> DEFINE d == [watch |-> v, type |-> "IN_MODIFY", path |-> watch[v].path]
  <2>1. d \in Event /\ queue' = Merged(queue, d) /\ version' = version
    BY <1>12 DEF WriteUnlinked, Event, EventType, Path
  <2> HIDE DEF d
  <2>2. EventsOf(queue) \subseteq EventsOf(queue')
    BY <1>2, <2>1, EventsMerged
  <2> QED BY <1>6, <2>1, <2>2
<1> QED BY <1>8, <1>9, <1>10, <1>11, <1>12 DEF OtherPrograms

\* An event that is handled takes with it only the need it meets.
LEMMA HandledIsRead ==
    ASSUME Inv, ReadInv, HandleEvent, mode' = "up",
           NEW w \in list', mark'[w] = "linked", watch'[w].path \in File
    PROVE  FreshFile(w)'
<1> USE DEF Inv
<1> DEFINE h == Head(events)
           f == watch[w].path
<1>1. /\ mode = "up" /\ events # <<>> /\ UNCHANGED <<present, version, buf, found>>
      /\ h \in Event /\ h.path \in Path
      /\ EventsOf(events) = {h} \cup EventsOf(Tail(events))
  <2>1. UNCHANGED found
    BY DEF HandleEvent, HandleDangling, HandleIgnored, HandleCreatedDir, HandleCreatedFile,
           HandleCreatedAgain, HandleModified, HandleDeleted, Handle, Handling, history
  <2> QED BY <2>1, HandleEffect DEF Event
<1>2. parsed' \in [File -> Nat \cup {None}] /\ \A g \in File : parsed'[g] = parsed[g] \/ parsed'[g] = version[g]
  BY HandleParses
<1>3. Typed /\ list \subseteq Wd /\ parsed \in [File -> Nat \cup {None}] /\ queue \in Seq(Event)
  BY DEF Typed, InotifyTypeOK, ReadInv
<1>4. \A v \in Wd : mark[v] = "linked" => watch[v].path \in present \cup {Root}
  BY DEF ReadInv, LinkedIsPresent
<1>5. AllEvents' = EventsOf(events') \cup EventsOf(buf) \cup EventsOf(queue')
  BY <1>1 DEF AllEvents, EventsOf
\* The cases but the watching of a file: the first event is taken, and is not that of w
\* or is what its file was read for.
<1>6. ASSUME events' = Tail(events), queue' = queue \/ EventsOf(queue) \subseteq EventsOf(queue'),
             w \in list, mark[w] = "linked", watch'[w] = watch[w], handler = "handling",
             h # ModifiedEvent(w) \/ parsed'[f] = version[f]
      PROVE  FreshFile(w)'
  <2>1. FreshFile(w) /\ f \in File
    BY <1>1, <1>6 DEF ReadInv, Fresh
  <2>2. CASE parsed'[f] = version[f]
    BY <1>1, <1>6, <2>2 DEF FreshFile
  <2>3. CASE h # ModifiedEvent(w)
    <3>1. ModifiedEvent(w) \in AllEvents => ModifiedEvent(w) \in AllEvents'
      BY <1>1, <1>5, <1>6, <2>3 DEF AllEvents
    <3> QED BY <1>1, <1>2, <1>6, <2>1, <3>1, FreshKept
  <2> QED BY <1>6, <2>2, <2>3
<1>7. ModifiedEvent(w).type = "IN_MODIFY" /\ ModifiedEvent(w).watch = w /\ ModifiedEvent(w).path = f
  BY DEF ModifiedEvent
<1>8. CASE HandleDangling
  <2>1. /\ events' = Tail(events) /\ handler = "handling" /\ h.watch \notin list
        /\ UNCHANGED <<queue, list, watch, mark>>
    BY <1>8 DEF HandleDangling, Handling, GetEvent, NoWatchChanges, Dies
  <2> QED BY <1>6, <1>7, <2>1
<1>9. CASE HandleIgnored \/ HandleCreatedAgain
  <2>1. /\ events' = Tail(events) /\ handler = "handling" /\ h.type # "IN_MODIFY"
        /\ UNCHANGED <<queue, list, watch, mark>>
    BY <1>9 DEF HandleIgnored, HandleCreatedAgain, Handle, Handling, GetEvent, NoWatchChanges
  <2> QED BY <1>6, <1>7, <2>1
<1>10. CASE HandleCreatedDir
  <2>1. events' = Tail(events) /\ handler = "handling" /\ h.type # "IN_MODIFY" /\ h.path \in Dir
    BY <1>10 DEF HandleCreatedDir, Handle, Handling, GetEvent
  <2>2. AddWatch(h.path) /\ UNCHANGED queue
    BY <1>1, <1>10 DEF HandleCreatedDir, Dies
  <2>3. PICK n \in Wd : /\ watch'[n].path = h.path /\ list' = list \cup {n}
                       /\ \A v \in Wd \ {n} : watch'[v] = watch[v] /\ mark'[v] = mark[v]
    BY <1>1, <2>2, AddEffect
  <2>4. w # n
    BY <2>1, <2>3, InotifyAssumption
  <2> QED BY <1>3, <1>6, <1>7, <2>1, <2>2, <2>3, <2>4
<1>11. CASE HandleModified
  <2>1. /\ events' = Tail(events) /\ handler = "handling" /\ ParseAndSend(h.path, FALSE)
        /\ UNCHANGED <<queue, list, watch, mark>>
    BY <1>11 DEF HandleModified, Handle, Handling, GetEvent, NoWatchChanges
  <2>2. f \in present \cap File
    BY <1>3, <1>4, <2>1, InotifyAssumption
  <2>3. h = ModifiedEvent(w) => parsed'[f] = version[f]
    BY <1>3, <1>7, <2>1, <2>2, ParseEffect
  <2> QED BY <1>6, <2>1, <2>3
<1>12. CASE HandleDeleted
  <2>1. events' = Tail(events) /\ handler = "handling" /\ h.type = "IN_DELETE"
    BY <1>12 DEF HandleDeleted, Handle, Handling, GetEvent
  <2>2. /\ list' \subseteq list /\ UNCHANGED watch
        /\ \A v \in Wd : mark'[v] = mark[v] \/ mark'[v] = "gone"
    BY <1>12, <2>1, HandleEffect DEF NoWatchChanges
  <2>3. queue' = queue \/ EventsOf(queue) \subseteq EventsOf(queue')
    <3>1. CASE UNCHANGED queue
      BY <3>1
    <3>2. CASE \E v \in watches \cap list :
                 queue' = Append(queue, [watch |-> v, type |-> "IN_IGNORED", path |-> watch[v].path])
      <4>1. PICK v \in watches \cap list :
               queue' = Append(queue, [watch |-> v, type |-> "IN_IGNORED", path |-> watch[v].path])
        BY <3>2
      <4> DEFINE d == [watch |-> v, type |-> "IN_IGNORED", path |-> watch[v].path]
      <4>2. d \in Event /\ queue' = Append(queue, d)
        BY <1>3, <4>1 DEF Event, EventType, DescriptorsUsed
      <4> HIDE DEF d
      <4> QED BY <1>3, <4>2, EventsAppend
    <3>3. ASSUME NEW v \in RemovedWatches(h), Remove(v)
          PROVE  \/ UNCHANGED queue
                 \/ \E x \in watches \cap list :
                      queue' = Append(queue, [watch |-> x, type |-> "IN_IGNORED", path |-> watch[x].path])
      BY <3>3 DEF Remove, RemovedWatches
    <3>4. UNCHANGED queue \/ \E v \in RemovedWatches(h) : Remove(v)
      BY <1>12 DEF HandleDeleted, NoWatchChanges
    <3> QED BY <3>1, <3>2, <3>3, <3>4
  <2> QED BY <1>3, <1>6, <1>7, <2>1, <2>2, <2>3
<1>13. CASE HandleCreatedFile /\ handler = "handling"
  <2>1. AddWatch(h.path) /\ handler' = "reading" /\ UNCHANGED <<events, queue, parsed>>
    BY <1>1, <1>13 DEF HandleCreatedFile, Dies, NothingSent
  <2>2. PICK n \in Wd : /\ watch'[n].path = h.path /\ list' = list \cup {n}
                       /\ \A v \in Wd \ {n} : watch'[v] = watch[v] /\ mark'[v] = mark[v]
    BY <1>1, <2>1, AddEffect
  <2>3. CASE w = n
    BY <2>1, <2>2, <2>3 DEF FreshFile
  <2>4. CASE w # n
    <3>1. w \in list /\ mark[w] = "linked" /\ watch'[w] = watch[w]
      BY <1>3, <2>2, <2>4
    <3>2. FreshFile(w)
      BY <1>1, <3>1 DEF ReadInv, Fresh
    <3>3. AllEvents' = AllEvents
      BY <1>1, <2>1, EventsKept
    <3> QED BY <1>1, <1>13, <2>1, <3>1, <3>2, <3>3, FreshKept
  <2> QED BY <2>3, <2>4
<1>14. CASE HandleCreatedFile /\ handler = "reading"
  <2>1. /\ events' = Tail(events) /\ ParseAndSend(h.path, TRUE) /\ h.type = "IN_CREATE"
        /\ UNCHANGED <<queue, list, watch, mark>>
    BY <1>14 DEF HandleCreatedFile, NoWatchChanges
  <2>2. FreshFile(w) /\ f \in File /\ f \in present
    BY <1>1, <1>3, <1>4, <2>1, InotifyAssumption DEF ReadInv, Fresh
  <2>3. CASE f = h.path
    <3>1. parsed'[f] = version[f]
      BY <1>3, <2>1, <2>2, <2>3, ParseEffect
    <3> QED BY <1>1, <2>1, <3>1 DEF FreshFile
  <2>4. CASE f # h.path
    <3>1. ModifiedEvent(w) \in AllEvents => ModifiedEvent(w) \in AllEvents'
      BY <1>1, <1>5, <1>7, <2>1 DEF AllEvents
    <3>2. parsed[f] = version[f] \/ f \in found \/ ModifiedEvent(w) \in AllEvents
      BY <2>2, <2>4 DEF FreshFile
    <3>3. ModifiedEvent(w)' = ModifiedEvent(w)
      BY <2>1 DEF ModifiedEvent
    <3> QED BY <1>1, <1>2, <2>1, <2>2, <3>1, <3>2, <3>3 DEF FreshFile
  <2> QED BY <2>3, <2>4
<1> QED BY <1>8, <1>9, <1>10, <1>11, <1>12, <1>13, <1>14 DEF HandleEvent, HandleCreatedFile

\* Every watched file was read after its last change, or is as the constructor found
\* it, or its event is pending.
LEMMA NextFresh == Inv /\ ReadInv /\ [Next]_vars => Fresh'
<1> SUFFICES ASSUME Inv, ReadInv, [Next]_vars, mode' = "up",
                    NEW w \in list', mark'[w] = "linked", watch'[w].path \in File
             PROVE  FreshFile(w)'
  BY DEF Fresh
<1>0. Typed /\ list \subseteq Wd /\ parsed \in [File -> Nat \cup {None}]
  BY DEF Inv, Typed, ReadInv
<1>1. ASSUME mode = "up", w \in list, mark[w] = "linked", watch'[w].path = watch[w].path,
             UNCHANGED <<version, parsed, found>>, AllEvents \subseteq AllEvents',
             handler = "reading" => UNCHANGED <<handler, events>>
      PROVE  FreshFile(w)'
  <2>1. FreshFile(w)
    BY <1>1 DEF ReadInv, Fresh
  <2> QED BY <1>1, <2>1, FreshKept
<1>2. CASE \E p \in Dir \cup File : Scan(p)
  <2>1. PICK p \in Dir \cup File : Scan(p)
    BY <1>2
  <2>2. /\ mode = "up" /\ handler = "scanning"
        /\ UNCHANGED <<version, events, buf, queue>> /\ p \in Path
    BY <2>1, PathsOfEvents DEF Scan, fileSystem
  <2>3. AllEvents' = AllEvents
    BY <2>2, EventsKept
  <2>4. CASE p \notin present
    BY <1>1, <2>1, <2>2, <2>3, <2>4 DEF Scan
  <2>5. CASE p \in present
    <3>1. /\ AddWatch(p)
          /\ found' = found \cup ({p} \cap File) /\ parsed' = parsed
      BY <2>1, <2>5 DEF Scan
    <3>2. PICK n \in Wd : /\ watch'[n].path = p /\ list' = list \cup {n}
                         /\ \A v \in Wd \ {n} : watch'[v] = watch[v] /\ mark'[v] = mark[v]
      BY <2>2, <3>1, AddEffect
    <3>3. CASE w = n
      <4>1. watch'[w].path \in found'
        BY <3>1, <3>2, <3>3
      <4> QED BY <4>1 DEF FreshFile
    <3>4. CASE w # n
      <4>1. w \in list /\ mark[w] = "linked" /\ watch'[w] = watch[w]
        BY <1>0, <3>2, <3>4
      <4>2. FreshFile(w)
        BY <2>2, <4>1 DEF ReadInv, Fresh
      <4> QED BY <2>2, <2>3, <3>1, <4>1, <4>2, FreshKept
    <3> QED BY <3>3, <3>4
  <2> QED BY <2>4, <2>5
<1>3. CASE Start \/ SendProgress \/ UNCHANGED vars
  <2>1. /\ UNCHANGED <<events, buf, queue, mode, list, watch, mark, version, parsed, found>>
        /\ handler = "reading" => UNCHANGED handler
    BY <1>3 DEF Start, SendProgress, SendStep, vars, inotifyVars, fileSystem, kernel, library,
                daemon, history
  <2>2. AllEvents' = AllEvents
    BY <2>1, EventsKept
  <2> QED BY <1>1, <2>1, <2>2
<1>4. CASE WaitAgain
  <2>1. /\ UNCHANGED <<events, buf, queue, mode, list, watch, mark, version, parsed, found>>
        /\ handler = "handling"
    BY <1>4 DEF WaitAgain, inotifyVars, fileSystem, kernel, library, history
  <2>2. AllEvents' = AllEvents
    BY <2>1, EventsKept
  <2> QED BY <1>1, <2>1, <2>2
<1>5. CASE Read
  <2>1. UNCHANGED found
    BY <1>5 DEF Read, history
  <2> QED BY <1>1, <1>5, <2>1, ReadEffect
<1>6. CASE DeliverEvent
  <2> DEFINE e == Head(buf)
  <2>1. /\ mode = "up" /\ w \in list /\ w \in Wd /\ mark[w] = "linked"
        /\ watch'[w].path = watch[w].path /\ UNCHANGED <<version, parsed, found>>
    BY <1>0, <1>6, DeliverEffect DEF DeliverEvent, history
  <2>2. handler # "reading"
    BY <1>6, DeliverEffect DEF ReadInv, ReadingHead
  <2>3. FreshFile(w)
    BY <1>6, <2>1, DeliverEffect DEF ReadInv, Fresh
  <2>4. w \in watches
    BY <2>1 DEF Inv, LinkedIsLive, MarkedIsLive
  <2>5. ModifiedEvent(w).watch = w
    BY DEF ModifiedEvent
  <2>6. ModifiedEvent(w) \in AllEvents => ModifiedEvent(w) \in AllEvents'
    BY <1>6, <2>4, <2>5, DeliverEffect
  <2> QED BY <2>1, <2>2, <2>3, <2>6, FreshKept
<1>7. CASE HandleEvent
  BY <1>7, HandledIsRead
<1>8. CASE Shutdown
  BY <1>8 DEF Shutdown
<1>9. CASE OtherPrograms
  <2>1. UNCHANGED <<list, watch, mode>>
    BY <1>9 DEF OtherPrograms, daemon, Create, Write, Delete, Replace, WriteUnlinked, Change, library
  <2> QED BY <1>9, <2>1, ChangesAreTold
<1>10. CASE Kernel
  <2>1. UNCHANGED <<version, watch, list, mode, parsed, found, handler, events>>
    BY <1>10, KernelEffect DEF Kernel, daemon, history
  <2> QED BY <1>0, <1>1, <1>10, <2>1, KernelEffect
<1> QED BY <1>2, <1>3, <1>4, <1>5, <1>6, <1>7, <1>8, <1>9, <1>10 DEF Next, Inotification

\* What is read stays in step with the directory.
LEMMA AlwaysRead == Spec => []ReadInv
<1>1. Init => ReadInv
  <2> SUFFICES ASSUME Init PROVE ReadInv
    OBVIOUS
  <2>1. LinkedIsPresent
    BY DEF Init, InotifyInit, LinkedIsPresent
  <2>2. Fresh
    BY InotifyAssumption DEF Init, InotifyInit, Fresh, Wd
  <2> QED BY <2>1, <2>2 DEF Init, ReadInv, ReadingHead
<1>2. Inv /\ ReadInv /\ [Next]_vars => ReadInv'
  BY NextParsed, NextLinkedIsPresent, NextReadingHead, NextFresh DEF ReadInv
<1> QED BY <1>1, <1>2, Invariance, PTL DEF Spec

\* An event of a queue is at one of its places.
LEMMA PendingEvents ==
    ASSUME Inv
    PROVE  Pending \in Seq(Event) /\ EventsOf(Pending) = AllEvents
<1>1. events \in Seq(Event) /\ buf \in Seq(Event) /\ queue \in Seq(Event)
  BY DEF Inv, Typed, InotifyTypeOK
<1> DEFINE front == events \o buf
<1>2. front \in Seq(Event) /\ EventsOf(front) = EventsOf(events) \cup EventsOf(buf)
  BY <1>1, EventsConcat
<1>3. Pending = front \o queue
  BY DEF Pending
<1> HIDE DEF front
<1>4. front \o queue \in Seq(Event) /\ EventsOf(front \o queue) = EventsOf(front) \cup EventsOf(queue)
  BY <1>1, <1>2, EventsConcat
<1> QED BY <1>2, <1>3, <1>4 DEF AllEvents

\* No change of a watched file goes unread: its content is what was last read from
\* it, or still what the constructor found, which only watches it
\* (moman.cpp:105-120), or an event is pending, although a file that is created may
\* change between its watching and its reading (moman.cpp:183-190).
THEOREM NoUpdateIsLost == Spec => []ReadIsCurrent
<1>1. Inv /\ ReadInv => ReadIsCurrent
  <2> SUFFICES ASSUME Inv, ReadInv, mode = "up", NEW w \in list,
                      watch[w].path \in present \cap File, mark[w] = "linked"
               PROVE  \/ parsed[watch[w].path] = version[watch[w].path]
                      \/ watch[w].path \in found
                      \/ IsPending("IN_MODIFY", watch[w].path)
                      \/ IsPending("IN_CREATE", watch[w].path)
    BY DEF ReadIsCurrent
  <2>1. FreshFile(w)
    BY DEF ReadInv, Fresh
  <2>2. ASSUME NEW e \in AllEvents PROVE IsPending(e.type, e.path)
    <3>1. PICK i \in 1..Len(Pending) : Pending[i] = e
      BY <2>2, PendingEvents DEF EventsOf
    <3> QED BY <3>1 DEF IsPending
  <2>3. CASE ModifiedEvent(w) \in AllEvents
    <3>1. ModifiedEvent(w).type = "IN_MODIFY" /\ ModifiedEvent(w).path = watch[w].path
      BY DEF ModifiedEvent
    <3> QED BY <2>2, <2>3, <3>1
  <2>4. CASE handler = "reading" /\ Head(events).path = watch[w].path
    <3>1. events # <<>> /\ events \in Seq(Event) /\ Head(events).type = "IN_CREATE"
      BY <2>4 DEF ReadInv, ReadingHead, Inv, Typed, InotifyTypeOK
    <3>2. Head(events) \in AllEvents
      BY <3>1, EventsTail DEF AllEvents
    <3> QED BY <2>2, <2>4, <3>1, <3>2
  <2> QED BY <2>1, <2>3, <2>4 DEF FreshFile
<1> QED BY <1>1, AlwaysRead, Invariance, PTL

-----------------------------------------------------------------------------
(* Creations: until a directory is removed the kernel and the library both *)
(* know the watches of directories, so that no event that a file was       *)
(* created is lost before it is handled, nor handled without a watch.      *)

DirectoriesMarked ==
    mode = "up" /\ "directory" \notin removed =>
        \A w \in list : watch[w].path \notin File => mark[w] = "linked"

\* A watch was added for the file that is to be read.
ReadingWatched ==
    handler = "reading" => \E w \in list : watch[w].path = Head(events).path

\* Directories' marks go with a directory, or with the descriptor.
LEMMA NextDirectoriesMarked ==
    Inv /\ DirectoriesStay /\ DirectoriesMarked /\ [Next]_vars => DirectoriesMarked'
<1> SUFFICES ASSUME Inv, DirectoriesStay, DirectoriesMarked, [Next]_vars,
                    mode' = "up", "directory" \notin removed',
                    NEW w \in list', watch'[w].path \notin File
             PROVE  mark'[w] = "linked"
  BY DEF DirectoriesMarked
<1>1. list \subseteq Wd /\ mark \in [Wd -> MarkState]
  BY DEF Inv, Typed, InotifyTypeOK
<1>2. ASSUME mode = "up", "directory" \notin removed, w \in list,
             watch'[w].path = watch[w].path, mark[w] = "linked" => mark'[w] = "linked"
      PROVE  mark'[w] = "linked"
  BY <1>2 DEF DirectoriesMarked
<1>3. ASSUME mode = "up", "directory" \notin removed, NEW p \in Path, AddWatch(p)
      PROVE  mark'[w] = "linked"
  <2>1. PICK n \in Wd :
           /\ mark'[n] = "linked" /\ list' = list \cup {n}
           /\ \A v \in Wd \ {n} : watch'[v] = watch[v] /\ mark'[v] = mark[v]
    BY <1>3, AddEffect
  <2> QED BY <1>1, <1>2, <1>3, <2>1
<1>4. CASE \E p \in Dir \cup File : Scan(p)
  <2>1. PICK p \in Dir \cup File : Scan(p)
    BY <1>4
  <2>2. mode = "up" /\ UNCHANGED removed /\ (AddWatch(p) \/ UNCHANGED <<list, watch, mark>>)
    BY <2>1 DEF Scan, history
  <2> QED BY <1>2, <1>3, <2>2, PathsOfEvents
<1>5. CASE Start \/ WaitAgain \/ SendProgress \/ UNCHANGED vars
  BY <1>2, <1>5
     DEF Start, WaitAgain, SendProgress, SendStep, vars, inotifyVars, kernel, library, daemon,
         history
<1>6. CASE Read
  BY <1>2, <1>6, ReadEffect DEF Read, history
<1>7. CASE DeliverEvent
  BY <1>1, <1>2, <1>7, DeliverEffect DEF DeliverEvent, history
<1>8. CASE HandleEvent
  <2> DEFINE h == Head(events)
  <2>1. mode = "up" /\ UNCHANGED removed /\ h \in Event /\ h \in AllEvents
    BY <1>8, HandleEffect DEF AllEvents
  <2>2. CASE NoWatchChanges
    BY <1>2, <2>1, <2>2 DEF NoWatchChanges
  <2>3. CASE AddWatch(h.path)
    BY <1>3, <2>1, <2>3 DEF Event
  <2>4. CASE HandleDeleted /\ ~NoWatchChanges
    <3> DEFINE v == CHOOSE u \in RemovedWatches(h) : TRUE
    <3>1. /\ h.type = "IN_DELETE" /\ RemovedWatches(h) # {}
          /\ Remove(v) /\ list' = list \ {v}
      BY <2>4 DEF HandleDeleted, Handle
    <3>2. v \in list /\ watch[v].path = h.path
      BY <3>1 DEF RemovedWatches
    <3>3. UNCHANGED watch /\ \A u \in Wd : u # v => mark'[u] = mark[u]
      BY <1>1, <3>1 DEF Remove
    <3> QED BY <1>1, <1>2, <2>1, <3>1, <3>3
  <2>5. NoWatchChanges \/ AddWatch(h.path) \/ HandleDeleted
    BY <1>8
       DEF HandleEvent, HandleDangling, HandleIgnored, HandleCreatedDir, HandleCreatedFile,
           HandleCreatedAgain, HandleModified, Dies
  <2> QED BY <2>2, <2>3, <2>4, <2>5
<1>9. CASE Shutdown
  BY <1>9 DEF Shutdown
<1>10. CASE OtherPrograms
  <2>1. /\ mode = "up" /\ "directory" \notin removed
        /\ UNCHANGED <<list, watch>>
    BY <1>10 DEF OtherPrograms, Running, history, daemon, library,
                 Create, Write, Delete, Replace, WriteUnlinked, Change
  <2>2. mark'[w] = mark[w] \/ \E f \in File : mark' = Unlinked(f)
    BY <1>10 DEF OtherPrograms, Create, Write, Delete, Replace, WriteUnlinked
  <2>3. w \in Wd /\ watch[w].path \notin File
    BY <1>1, <2>1
  <2>4. mark'[w] = mark[w]
    BY <2>2, <2>3 DEF Unlinked, MarksOn
  <2> QED BY <1>2, <2>1, <2>4
<1>11. CASE Kernel
  <2>1. PICK v \in Wd : FreeInode(v)
    BY <1>11 DEF Kernel
  <2>2. mark[w] = "linked" => mark'[w] = "linked"
    BY <1>1, <2>1 DEF FreeInode
  <2> QED BY <1>2, <1>11, <2>2, KernelEffect DEF daemon, history
<1> QED BY <1>4, <1>5, <1>6, <1>7, <1>8, <1>9, <1>10, <1>11 DEF Next, Inotification

\* Only the handler itself changes the list, and it goes on to read.
LEMMA NextReadingWatched == Inv /\ ReadingWatched /\ [Next]_vars => ReadingWatched'
<1> SUFFICES ASSUME Inv, ReadingWatched, [Next]_vars, handler' = "reading"
             PROVE  \E w \in list' : watch'[w].path = Head(events').path
  BY DEF ReadingWatched
<1>1. CASE UNCHANGED <<handler, events, list, watch>>
  BY <1>1 DEF ReadingWatched
<1>2. CASE HandleEvent
  <2>1. HandleCreatedFile
    BY <1>2
       DEF HandleEvent, HandleDangling, HandleIgnored, HandleCreatedDir, HandleCreatedAgain,
           HandleModified, HandleDeleted, Handle, Handling
  <2> DEFINE p == Head(events).path
  <2>2. /\ UNCHANGED events
        /\ IF CanAdd(p) THEN AddWatch(p) ELSE UNCHANGED handler
        /\ handler = "handling"
    BY <2>1 DEF HandleCreatedFile
  <2>3. AddWatch(p) /\ p \in Path
    BY <1>2, <2>2, HandleEffect DEF Event
  <2> HIDE DEF p
  <2>4. \E n \in Wd : watch'[n].path = p /\ list' = list \cup {n}
    BY <2>3, AddEffect
  <2> QED BY <2>2, <2>4 DEF p
<1>3. CASE (\E p \in Dir \cup File : Scan(p)) \/ Start \/ Read \/ DeliverEvent \/ WaitAgain \/ Shutdown
  <2>1. CASE Read
    BY <1>1, <2>1 DEF Read, ReadEvents, daemon
  <2> QED BY <1>3, <2>1 DEF Scan, Start, DeliverEvent, WaitAgain, Shutdown
<1>4. CASE SendProgress \/ OtherPrograms \/ Kernel \/ UNCHANGED vars
  <2>1. UNCHANGED <<handler, events, list, watch>>
    BY <1>4
       DEF SendProgress, SendStep, OtherPrograms, Create, Write, Delete, Replace,
           WriteUnlinked, Change, Kernel, FreeInode, vars, inotifyVars, library, daemon
  <2> QED BY <1>1, <2>1
<1> QED BY <1>2, <1>3, <1>4 DEF Next, Inotification

\* Both hold in every reachable state.
LEMMA AlwaysMarked == Spec => [](DirectoriesMarked /\ ReadingWatched)
<1>1. Init => DirectoriesMarked /\ ReadingWatched
  BY InotifyAssumption DEF Init, InotifyInit, DirectoriesMarked, ReadingWatched, Wd
<1> QED
  BY <1>1, NextDirectoriesMarked, NextReadingWatched, AlwaysDirectoriesStay, Invariance, PTL
     DEF Spec

\* An event is gone when it was lost at its delivery, for a watch that was dropped,
\* or was the one that is handled.
LEMMA CreationStep ==
    ASSUME Inv, DirectoriesStay, DirectoriesMarked, ReadInv, ReadingWatched, [Next]_vars,
           mode = "up", mode' = "up", "directory" \notin removed',
           NEW e \in AllEvents, e.type = "IN_CREATE", e.path \in File, e \notin AllEvents'
    PROVE  \E w \in list' : watch'[w].path = e.path
<1>1. HandleEvent \/ DeliverEvent
  <2>1. CASE Read
    BY <2>1, ReadEffect
  <2>2. CASE Kernel
    BY <2>2, KernelEffect
  <2>3. CASE OtherPrograms
    <3>1. UNCHANGED <<events, buf>> /\ EventsOf(queue) \subseteq EventsOf(queue')
      <4>1. Typed /\ queue \in Seq(Event)
        BY DEF Inv, Typed, InotifyTypeOK
      <4>2. ASSUME NEW at \in Path, NEW p \in Path,
                   NEW type \in {"IN_CREATE", "IN_DELETE", "IN_MODIFY"}
            PROVE  EventsOf(queue) \subseteq EventsOf(Tell(at, type, p))
        BY <4>1, EventsTold
      <4>3. ASSUME NEW w \in Wd, WriteUnlinked(w)
            PROVE  EventsOf(queue) \subseteq EventsOf(queue')
        <5> DEFINE d == [watch |-> w, type |-> "IN_MODIFY", path |-> watch[w].path]
        <5>1. d \in Event /\ queue' = Merged(queue, d)
          BY <4>3 DEF WriteUnlinked, Event, EventType, Path
        <5> HIDE DEF d
        <5> QED BY <4>1, <5>1, EventsMerged
      <4>4. ASSUME NEW p \in Dir \cup File, Create(p) \/ Delete(p)
            PROVE  EventsOf(queue) \subseteq EventsOf(queue')
        BY <4>2, <4>4, PathsOfEvents DEF Create, Delete
      <4>5. ASSUME NEW f \in File, Write(f) \/ Replace(f)
            PROVE  EventsOf(queue) \subseteq EventsOf(queue')
        BY <4>2, <4>5, PathsOfEvents DEF Write, Replace
      <4>6. EventsOf(queue) \subseteq EventsOf(queue')
        BY <2>3, <4>3, <4>4, <4>5 DEF OtherPrograms
      <4> QED
        BY <2>3, <4>6
           DEF OtherPrograms, Create, Write, Delete, Replace, WriteUnlinked, Change, library
    <3>2. e \in AllEvents'
      BY <3>1 DEF AllEvents, EventsOf
    <3> QED BY <3>2
  <2>4. CASE (\E p \in Dir \cup File : Scan(p)) \/ Start \/ WaitAgain \/ SendProgress \/ UNCHANGED vars
    <3>1. UNCHANGED <<events, buf, queue>>
      BY <2>4
         DEF Scan, Start, WaitAgain, SendProgress, SendStep, vars, inotifyVars, kernel, library
    <3> QED BY <3>1, EventsKept
  <2>5. ~Shutdown
    BY DEF Shutdown
  <2> QED BY <2>1, <2>2, <2>3, <2>4, <2>5 DEF Next, Inotification
<1>2. "directory" \notin removed
  BY <1>1, HandleEffect DEF DeliverEvent, history
<1>3. FromDirectory(e)
  BY <1>2 DEF DirectoriesStay
<1>4. e.watch \in list /\ e.watch \in watches
  <2>1. e.watch \in list /\ mark[e.watch] = "linked"
    BY <1>2, <1>3 DEF FromDirectory, DirectoriesMarked
  <2>2. e.watch \in Wd
    BY <2>1 DEF Inv, Typed
  <2> QED BY <2>1, <2>2 DEF Inv, LinkedIsLive, MarkedIsLive
<1>5. ~DeliverEvent
  BY <1>4, DeliverEffect
<1>6. HandleEvent /\ e = Head(events) /\ events' # events /\ UNCHANGED <<buf>>
  <2>1. HandleEvent
    BY <1>1, <1>5
  <2>2. UNCHANGED buf /\ (events' = events \/ events' = Tail(events))
    BY <2>1
       DEF HandleEvent, HandleDangling, HandleIgnored, HandleCreatedDir, HandleCreatedFile,
           HandleCreatedAgain, HandleModified, HandleDeleted, Handle, Handling, GetEvent
  <2>3. EventsOf(queue) \subseteq EventsOf(queue')
    <3>1. queue \in Seq(Event)
      BY DEF Inv, Typed, InotifyTypeOK
    <3>2. CASE UNCHANGED queue
      BY <3>2
    <3>3. CASE HandleDeleted /\ ~UNCHANGED queue
      <4> DEFINE v == CHOOSE u \in RemovedWatches(Head(events)) : TRUE
                 d == [watch |-> v, type |-> "IN_IGNORED", path |-> watch[v].path]
      <4>1. /\ RemovedWatches(Head(events)) # {} /\ v \in watches
            /\ queue' = Append(queue, d)
        BY <3>3 DEF HandleDeleted, NoWatchChanges, Remove
      <4>2. v \in RemovedWatches(Head(events))
        BY <4>1
      <4>3. d \in Event
        BY <4>2 DEF RemovedWatches, Inv, Typed, DescriptorsUsed, Event, EventType
      <4> HIDE DEF d
      <4> QED BY <3>1, <4>1, <4>3, EventsAppend
    <3> QED
      BY <2>1, <3>2, <3>3
         DEF HandleEvent, HandleDangling, HandleIgnored, HandleCreatedDir, HandleCreatedFile,
             HandleCreatedAgain, HandleModified, NoWatchChanges, Dies
  <2>4. e \in EventsOf(events) /\ e \notin EventsOf(events')
    BY <2>2, <2>3 DEF AllEvents, EventsOf
  <2>5. EventsOf(events) = {Head(events)} \cup EventsOf(Tail(events))
    BY <2>1, HandleEffect
  <2> QED BY <2>1, <2>2, <2>4, <2>5
<1>7. ~HandleDangling /\ ~HandleIgnored /\ ~HandleModified /\ ~HandleDeleted
  BY <1>4, <1>6 DEF HandleDangling, HandleIgnored, HandleModified, HandleDeleted, Handle
<1>8. ~HandleCreatedDir
  BY <1>6, InotifyAssumption DEF HandleCreatedDir
<1>9. CASE HandleCreatedAgain
  BY <1>6, <1>9 DEF HandleCreatedAgain, AlreadyMonitored, NoWatchChanges
<1>10. CASE HandleCreatedFile
  BY <1>6, <1>10 DEF HandleCreatedFile, ReadingWatched, NoWatchChanges
<1> QED BY <1>6, <1>7, <1>8, <1>9, <1>10 DEF HandleEvent

\* No step takes the last event of a file's creation and leaves the file unwatched:
\* what its being watched in the end rests on (inotify-cxx.cpp:514-556,
\* moman.cpp:163-200).
THEOREM NoCreationIsLost == Spec => CreationIsKept
<1>1. Inv => EventsOf(Pending) = AllEvents
  BY PendingEvents
<1>2. /\ Inv /\ DirectoriesStay /\ DirectoriesMarked /\ ReadInv /\ ReadingWatched
      /\ (EventsOf(Pending) = AllEvents)' /\ [Next]_vars
      => \A f \in File : mode = "up" /\ IsPending("IN_CREATE", f) =>
            \/ IsPending("IN_CREATE", f)'
            \/ f \notin present'
            \/ \E w \in list' : watch'[w].path = f
            \/ mode' # "up"
            \/ "directory" \in removed'
  <2> SUFFICES ASSUME Inv, DirectoriesStay, DirectoriesMarked, ReadInv, ReadingWatched,
                      (EventsOf(Pending) = AllEvents)', [Next]_vars, NEW f \in File, mode = "up", IsPending("IN_CREATE", f),
                      mode' = "up", "directory" \notin removed', ~IsPending("IN_CREATE", f)'
               PROVE  \E w \in list' : watch'[w].path = f
    OBVIOUS
  <2>1. PICK e \in AllEvents : e.type = "IN_CREATE" /\ e.path = f
    <3>1. PICK i \in 1..Len(Pending) : Pending[i].type = "IN_CREATE" /\ Pending[i].path = f
      BY DEF IsPending
    <3> QED BY <3>1, PendingEvents DEF EventsOf
  <2>2. e \notin AllEvents'
    <3>1. SUFFICES ASSUME e \in AllEvents' PROVE FALSE
      OBVIOUS
    <3>2. \E i \in 1..Len(Pending') : Pending'[i] = e
      BY <3>1 DEF EventsOf
    <3> QED BY <2>1, <3>2 DEF IsPending
  <2> QED BY <2>1, <2>2, CreationStep
<1> QED
  BY <1>1, <1>2, Invariance, AlwaysDirectoriesStay, AlwaysMarked, AlwaysRead, PTL
     DEF Spec, CreationIsKept

-----------------------------------------------------------------------------
(* Deaths: while nothing is removed and no directory appeared during the   *)
(* constructor, every watch stays, and every directory that is created has *)
(* one event, and no watch before it is handled.                           *)

CreatesDir(e) == e.type = "IN_CREATE" /\ e.path \in Dir

CreatedDirs(q) == {e.path : e \in {x \in EventsOf(q) : CreatesDir(x)}}

CreatedBy(e) == IF CreatesDir(e) THEN {e.path} ELSE {}

CreatedOnce(q) ==
    \A i, j \in 1..Len(q) :
        CreatesDir(q[i]) /\ CreatesDir(q[j]) /\ q[i].path = q[j].path => i = j

CalmMarks == \A w \in Wd : mark[w] \in {"unused", "linked"}

CalmEvents ==
    \A e \in AllEvents :
        /\ e.watch \in list
        /\ e.type \in {"IN_CREATE", "IN_MODIFY"}
        /\ e.type = "IN_CREATE" => e.path \in present

CalmQueues ==
    /\ CreatedOnce(events) /\ CreatedOnce(buf) /\ CreatedOnce(queue)
    /\ CreatedDirs(events) \cap CreatedDirs(buf) = {}
    /\ CreatedDirs(events) \cap CreatedDirs(queue) = {}
    /\ CreatedDirs(buf) \cap CreatedDirs(queue) = {}

CalmList ==
    \A w \in list :
        watch[w].path \notin CreatedDirs(events) \cup CreatedDirs(buf) \cup CreatedDirs(queue)

CalmScan == handler = "scanning" => events = <<>> /\ buf = <<>> /\ CreatedDirs(queue) = {}

Calm == CalmMarks /\ CalmEvents /\ CalmQueues /\ CalmList /\ CalmScan

Pristine ==
    removed = {} /\ early = {} => mode \in {"up", "closing"} /\ (mode = "up" => Calm)

\* An empty queue has created nothing.
LEMMA CreatedEmpty == CreatedDirs(<<>>) = {} /\ CreatedOnce(<<>>)
  BY EventsEmpty DEF CreatedDirs, CreatedOnce

\* One event more, and what it creates.
LEMMA CreatedMore ==
    ASSUME NEW q, NEW r, NEW e, EventsOf(r) = EventsOf(q) \cup {e}
    PROVE  CreatedDirs(r) = CreatedDirs(q) \cup CreatedBy(e)
  BY DEF CreatedDirs, CreatedBy

\* A directory is created once if it was not before.
LEMMA OnceAppend ==
    ASSUME NEW q \in Seq(Event), NEW e \in Event, CreatedOnce(q),
           CreatedBy(e) \cap CreatedDirs(q) = {}
    PROVE  CreatedOnce(Append(q, e))
<1> DEFINE s == Append(q, e)
<1>1. /\ Len(s) = Len(q) + 1 /\ Len(q) \in Nat
      /\ \A i \in 1..Len(q) : s[i] = q[i]
      /\ s[Len(q) + 1] = e
  OBVIOUS
<1> HIDE DEF s
<1>2. \A i \in 1..Len(q) : CreatesDir(q[i]) => q[i].path \in CreatedDirs(q)
  BY DEF CreatedDirs, EventsOf
<1>3. CreatesDir(e) => e.path \notin CreatedDirs(q)
  BY DEF CreatedBy
<1>4. ASSUME NEW i \in 1..Len(s), NEW j \in 1..Len(s),
             CreatesDir(s[i]), CreatesDir(s[j]), s[i].path = s[j].path
      PROVE  i = j
  <2>1. (i \in 1..Len(q) \/ i = Len(q) + 1) /\ (j \in 1..Len(q) \/ j = Len(q) + 1)
    BY <1>1
  <2>2. CASE i \in 1..Len(q) /\ j \in 1..Len(q)
    BY <1>1, <1>4, <2>2 DEF CreatedOnce
  <2>3. CASE i \in 1..Len(q) /\ j = Len(q) + 1
    BY <1>1, <1>2, <1>3, <1>4, <2>3
  <2>4. CASE i = Len(q) + 1 /\ j \in 1..Len(q)
    BY <1>1, <1>2, <1>3, <1>4, <2>4
  <2> QED BY <2>1, <2>2, <2>3, <2>4
<1>5. CreatedOnce(s)
  BY <1>4 DEF CreatedOnce
<1> QED BY <1>5 DEF s

\* The same, for an event that may be merged.
LEMMA OnceMerged ==
    ASSUME NEW q \in Seq(Event), NEW e \in Event, CreatedOnce(q),
           CreatedBy(e) \cap CreatedDirs(q) = {}
    PROVE  CreatedOnce(Merged(q, e))
  BY OnceAppend DEF Merged

\* A directory the oldest event creates is created by no other.
LEMMA OnceTail ==
    ASSUME NEW q \in Seq(Event), q # <<>>, CreatedOnce(q)
    PROVE  /\ CreatedOnce(Tail(q)) /\ CreatedBy(Head(q)) \cap CreatedDirs(Tail(q)) = {}
           /\ CreatedDirs(q) = CreatedDirs(Tail(q)) \cup CreatedBy(Head(q))
<1> DEFINE s == Tail(q)
<1>1. /\ Len(q) = Len(s) + 1 /\ Len(s) \in Nat /\ Head(q) = q[1]
      /\ \A i \in 1..Len(s) : s[i] = q[i + 1]
  OBVIOUS
<1> HIDE DEF s
<1>2. \A i \in 1..Len(s) : i + 1 \in 1..Len(q) /\ i + 1 # 1
  BY <1>1
<1>3. CreatedOnce(s)
  <2> SUFFICES ASSUME NEW i \in 1..Len(s), NEW j \in 1..Len(s),
                      CreatesDir(s[i]), CreatesDir(s[j]), s[i].path = s[j].path
               PROVE  i = j
    BY DEF CreatedOnce
  <2>1. i + 1 = j + 1
    BY <1>1, <1>2 DEF CreatedOnce
  <2> QED BY <2>1
<1>4. ASSUME NEW d \in CreatedBy(Head(q)), d \in CreatedDirs(s) PROVE FALSE
  <2>1. PICK i \in 1..Len(s) : CreatesDir(s[i]) /\ s[i].path = d
    BY <1>4 DEF CreatedDirs, EventsOf
  <2>2. CreatesDir(q[1]) /\ q[1].path = d /\ 1 \in 1..Len(q)
    BY <1>1, <1>4 DEF CreatedBy
  <2>3. i + 1 = 1
    BY <1>1, <1>2, <2>1, <2>2 DEF CreatedOnce
  <2> QED BY <1>2, <2>3
<1>5. EventsOf(q) = EventsOf(s) \cup {Head(q)}
  BY EventsTail DEF s
<1>6. CreatedDirs(q) = CreatedDirs(s) \cup CreatedBy(Head(q))
  BY <1>5, CreatedMore
<1> QED BY <1>3, <1>4, <1>6 DEF s

\* Steps that move no event keep the queues calm.
LEMMA QueuesKept ==
    ASSUME UNCHANGED <<events, buf, queue>>, CalmQueues
    PROVE  /\ CalmQueues' /\ CreatedDirs(events)' = CreatedDirs(events)
           /\ CreatedDirs(buf)' = CreatedDirs(buf) /\ CreatedDirs(queue)' = CreatedDirs(queue)
  BY DEF CalmQueues, CreatedOnce, CreatedDirs, CreatesDir, EventsOf

\* Steps that change no watch and move no event keep everything calm.
LEMMA CalmKept ==
    ASSUME Calm, UNCHANGED <<events, buf, queue, mark, list, watch, present>>,
           handler' = "scanning" => handler = "scanning"
    PROVE  Calm'
<1>1. AllEvents' = AllEvents
  BY EventsKept
<1>2. CalmQueues' /\ CalmList' /\ CalmScan'
  BY QueuesKept DEF Calm, CalmList, CalmScan
<1>3. CalmMarks' /\ CalmEvents'
  BY <1>1 DEF Calm, CalmMarks, CalmEvents
<1> QED BY <1>2, <1>3 DEF Calm

\* The paths of the watches in the list are there.
LEMMA ListedArePresent ==
    ASSUME Inv, ReadInv, CalmMarks, NEW w \in list
    PROVE  w \in Wd /\ watch[w].path \in present \cup {Root}
  BY DEF Inv, Typed, DescriptorsUsed, ReadInv, LinkedIsPresent, CalmMarks

\* A directory that is created was not there, and is not watched.
LEMMA CreationIsCalm ==
    ASSUME Inv, ReadInv, Calm, mode = "up", NEW p \in Dir \cup File, Create(p),
           UNCHANGED <<list, handler>>, handler = "scanning" => p \notin Dir
    PROVE  Calm'
<1> USE DEF Inv
<1>1. /\ p \notin present /\ present' = present \cup {p} /\ queue' = Tell(ParentOf(p), "IN_CREATE", p)
      /\ UNCHANGED <<mark, watch, events, buf>>
  BY DEF Create, Change, library
<1>2. Typed /\ queue \in Seq(Event) /\ p \in Path /\ ParentOf(p) \in Path /\ p # Root
  BY PathsOfEvents, InotifyAssumption DEF Typed, InotifyTypeOK
<1>3. CASE MarksOn(ParentOf(p)) = {}
  <2>1. queue' = queue
    BY <1>1, <1>3 DEF Tell
  <2>2. AllEvents' = AllEvents
    BY <1>1, <2>1, EventsKept
  <2>3. CalmMarks' /\ CalmEvents'
    BY <1>1, <2>2 DEF Calm, CalmMarks, CalmEvents
  <2>4. CalmQueues' /\ CalmList' /\ CalmScan'
    BY <1>1, <2>1, QueuesKept DEF Calm, CalmList, CalmScan
  <2> QED BY <2>3, <2>4 DEF Calm
<1>4. CASE MarksOn(ParentOf(p)) # {}
  <2> DEFINE at == ParentOf(p)
  <2>1. PICK w \in MarksOn(at), e \in Event :
           /\ e = [watch |-> w, type |-> "IN_CREATE", path |-> p]
           /\ Tell(at, "IN_CREATE", p) = Merged(queue, e)
           /\ EventsOf(Tell(at, "IN_CREATE", p)) = EventsOf(queue) \cup {e}
    BY <1>2, <1>4, EventsTold
  <2>2. w \in list /\ e.watch = w /\ e.type = "IN_CREATE" /\ e.path = p
    BY <2>1, MarkedIsListed
  <2>3. EventsOf(queue') = EventsOf(queue) \cup {e} /\ queue' = Merged(queue, e)
    BY <1>1, <2>1
  <2> HIDE DEF at
  <2>4. AllEvents' = AllEvents \cup {e}
    BY <1>1, <2>3 DEF AllEvents, EventsOf
  <2>5. CalmMarks' /\ CalmEvents'
    BY <1>1, <2>2, <2>4 DEF Calm, CalmMarks, CalmEvents
  <2>6. /\ CreatedDirs(queue)' = CreatedDirs(queue) \cup CreatedBy(e)
        /\ CreatedDirs(events)' = CreatedDirs(events) /\ CreatedDirs(buf)' = CreatedDirs(buf)
    <3>1. CreatedDirs(queue') = CreatedDirs(queue) \cup CreatedBy(e)
      BY <2>3, CreatedMore
    <3> QED BY <1>1, <3>1 DEF CreatedDirs, CreatesDir, EventsOf
  <2>7. CreatedDirs(events) \cup CreatedDirs(buf) \cup CreatedDirs(queue) \subseteq present
    BY DEF Calm, CalmEvents, CreatedDirs, CreatesDir, AllEvents
  <2>8. CreatedBy(e) \subseteq {p} /\ (handler = "scanning" => CreatedBy(e) = {})
    BY <2>2 DEF CreatedBy, CreatesDir
  <2>9. CreatedOnce(queue')
    BY <1>1, <1>2, <2>3, <2>7, <2>8, OnceMerged DEF Calm, CalmQueues
  <2>10. CalmQueues'
    <3>1. /\ CreatedOnce(queue)' = CreatedOnce(queue') /\ CreatedOnce(events)' = CreatedOnce(events)
          /\ CreatedOnce(buf)' = CreatedOnce(buf)
      BY <1>1 DEF CreatedOnce, CreatesDir
    <3> QED BY <1>1, <2>6, <2>7, <2>8, <2>9, <3>1 DEF Calm, CalmQueues
  <2>11. CalmList'
    <3>1. ASSUME NEW v \in list PROVE watch[v].path # p
      BY <1>1, <1>2, <3>1, ListedArePresent DEF Calm
    <3> QED BY <1>1, <2>6, <2>8, <3>1 DEF Calm, CalmList
  <2>12. CalmScan'
    BY <1>1, <2>6, <2>8 DEF Calm, CalmScan
  <2> QED BY <2>5, <2>10, <2>11, <2>12 DEF Calm
<1> QED BY <1>3, <1>4

\* A change of a watched file creates nothing.
LEMMA WritingIsCalm ==
    ASSUME Inv, Calm, mode = "up", NEW f \in File, Write(f), UNCHANGED <<list, handler>>
    PROVE  Calm'
<1> USE DEF Inv
<1>1. /\ queue' = Tell(f, "IN_MODIFY", f) /\ UNCHANGED <<present, mark, watch, events, buf>>
  BY DEF Write, Change, library
<1>2. Typed /\ queue \in Seq(Event) /\ f \in Path
  BY PathsOfEvents DEF Typed, InotifyTypeOK
<1>3. CASE queue' = queue
  BY <1>1, <1>3, CalmKept
<1>4. CASE queue' # queue
  <2>1. PICK w \in MarksOn(f), e \in Event :
           /\ e = [watch |-> w, type |-> "IN_MODIFY", path |-> f]
           /\ queue' = Merged(queue, e)
           /\ EventsOf(queue') = EventsOf(queue) \cup {e}
    BY <1>1, <1>2, <1>4, EventsTold
  <2>2. w \in list /\ e.watch = w /\ e.type = "IN_MODIFY"
    BY <2>1, MarkedIsListed
  <2>3. AllEvents' = AllEvents \cup {e}
    BY <1>1, <2>1 DEF AllEvents, EventsOf
  <2>4. CalmMarks' /\ CalmEvents'
    BY <1>1, <2>2, <2>3 DEF Calm, CalmMarks, CalmEvents
  <2>5. CreatedBy(e) = {}
    BY <2>2 DEF CreatedBy, CreatesDir
  <2>6. /\ CreatedDirs(queue)' = CreatedDirs(queue)
        /\ CreatedDirs(events)' = CreatedDirs(events) /\ CreatedDirs(buf)' = CreatedDirs(buf)
    <3>1. CreatedDirs(queue') = CreatedDirs(queue)
      BY <2>1, <2>5, CreatedMore
    <3> QED BY <1>1, <3>1 DEF CreatedDirs, CreatesDir, EventsOf
  <2>7. CreatedOnce(queue')
    BY <1>2, <2>1, <2>5, OnceMerged DEF Calm, CalmQueues
  <2>8. CalmQueues'
    <3>1. /\ CreatedOnce(queue)' = CreatedOnce(queue') /\ CreatedOnce(events)' = CreatedOnce(events)
          /\ CreatedOnce(buf)' = CreatedOnce(buf)
      BY <1>1 DEF CreatedOnce, CreatesDir
    <3> QED BY <2>6, <2>7, <3>1 DEF Calm, CalmQueues
  <2>9. CalmList' /\ CalmScan'
    BY <1>1, <2>6 DEF Calm, CalmList, CalmScan
  <2> QED BY <2>4, <2>8, <2>9 DEF Calm
<1> QED BY <1>3, <1>4

\* Directories are what is created as one.
LEMMA CreatedAreDirs ==
    ASSUME NEW q
    PROVE  /\ CreatedDirs(q) \subseteq Dir
           /\ \A r : EventsOf(r) \subseteq EventsOf(q) => CreatedDirs(r) \subseteq CreatedDirs(q)
  BY DEF CreatedDirs, CreatesDir

\* An event is handled: no more are left, and a watch may have been added on a
\* path that no event left creates.
LEMMA HandlingIsCalm ==
    ASSUME Inv, Calm, UNCHANGED <<present, buf, queue>>,
           EventsOf(events') \subseteq EventsOf(events), CreatedOnce(events'),
           handler' = "scanning" => handler = "scanning" /\ events' = events,
           \/ UNCHANGED <<mark, list, watch>>
           \/ \E p \in Path :
                 /\ AddWatch(p)
                 /\ p \notin CreatedDirs(events') \cup CreatedDirs(buf) \cup CreatedDirs(queue)
    PROVE  Calm'
<1>1. /\ CreatedDirs(events') \subseteq CreatedDirs(events)
      /\ CreatedDirs(events)' = CreatedDirs(events')
      /\ CreatedDirs(buf)' = CreatedDirs(buf) /\ CreatedDirs(queue)' = CreatedDirs(queue)
      /\ CreatedOnce(events)' = CreatedOnce(events')
      /\ CreatedOnce(buf)' = CreatedOnce(buf) /\ CreatedOnce(queue)' = CreatedOnce(queue)
  <2>1. CreatedDirs(events') \subseteq CreatedDirs(events)
    BY CreatedAreDirs
  <2>2. /\ CreatedDirs(events)' = CreatedDirs(events')
        /\ CreatedDirs(buf)' = CreatedDirs(buf) /\ CreatedDirs(queue)' = CreatedDirs(queue)
    BY DEF CreatedDirs, CreatesDir, EventsOf
  <2>3. /\ CreatedOnce(events)' = CreatedOnce(events')
        /\ CreatedOnce(buf)' = CreatedOnce(buf) /\ CreatedOnce(queue)' = CreatedOnce(queue)
    BY DEF CreatesDir, CreatedOnce
  <2> QED BY <2>1, <2>2, <2>3
<1>2. AllEvents' \subseteq AllEvents
  BY DEF AllEvents, EventsOf
<1>3. CalmQueues'
  BY <1>1 DEF Calm, CalmQueues
<1>4. CalmScan'
  BY <1>1 DEF Calm, CalmScan
<1>5. CASE UNCHANGED <<mark, list, watch>>
  <2>1. CalmMarks' /\ CalmEvents' /\ CalmList'
    BY <1>1, <1>2, <1>5 DEF Calm, CalmMarks, CalmEvents, CalmList
  <2> QED BY <1>3, <1>4, <2>1 DEF Calm
<1>6. CASE ~UNCHANGED <<mark, list, watch>>
  <2>1. PICK p \in Path :
           /\ AddWatch(p)
           /\ p \notin CreatedDirs(events') \cup CreatedDirs(buf) \cup CreatedDirs(queue)
    BY <1>6
  <2>2. PICK n \in Wd :
           /\ n \notin list /\ mark'[n] = "linked" /\ watch'[n].path = p
           /\ list' = list \cup {n}
           /\ \A w \in Wd \ {n} : watch'[w] = watch[w] /\ mark'[w] = mark[w]
    BY <2>1, AddEffect
  <2>3. CalmMarks'
    BY <2>2 DEF Calm, CalmMarks
  <2>4. CalmEvents'
    BY <1>2, <2>2 DEF Calm, CalmEvents
  <2>5. list \subseteq Wd
    BY DEF Inv, Typed
  <2>6. ASSUME NEW w \in list'
        PROVE  watch'[w].path \notin CreatedDirs(events') \cup CreatedDirs(buf) \cup CreatedDirs(queue)
    <3>1. CASE w = n
      BY <2>1, <2>2, <3>1
    <3>2. CASE w # n
      BY <1>1, <2>2, <2>5, <3>2 DEF Calm, CalmList
    <3> QED BY <3>1, <3>2
  <2>7. CalmList'
    BY <1>1, <2>6 DEF CalmList
  <2> QED BY <1>3, <1>4, <2>3, <2>4, <2>7 DEF Calm
<1> QED BY <1>5, <1>6

\* A read moves all that was created.
LEMMA ReadingIsCalm ==
    ASSUME Inv, Calm, Read
    PROVE  Calm'
<1>1. buf = <<>> /\ buf' = queue /\ queue' = <<>> /\ handler' # "scanning"
  BY DEF Read, ReadEvents, daemon
<1>2. AllEvents' = AllEvents /\ UNCHANGED <<present, mark, watch, list, events>>
  BY ReadEffect
<1>3. /\ CreatedDirs(events)' = CreatedDirs(events) /\ CreatedOnce(events)' = CreatedOnce(events)
      /\ CreatedDirs(buf)' = CreatedDirs(queue) /\ CreatedOnce(buf)' = CreatedOnce(queue)
      /\ CreatedDirs(queue)' = CreatedDirs(queue') /\ CreatedOnce(queue)' = CreatedOnce(queue')
  BY <1>1, <1>2 DEF CreatedDirs, CreatesDir, EventsOf, CreatedOnce
<1>4. CreatedDirs(queue)' = {} /\ CreatedOnce(queue)'
  BY <1>1, <1>3, CreatedEmpty
<1>5. CalmMarks' /\ CalmEvents'
  BY <1>2 DEF Calm, CalmMarks, CalmEvents
<1>6. CalmQueues' /\ CalmList' /\ CalmScan'
  BY <1>1, <1>2, <1>3, <1>4 DEF Calm, CalmQueues, CalmList, CalmScan
<1> QED BY <1>5, <1>6 DEF Calm

\* So does a delivery, or it loses an event.
LEMMA DeliveringIsCalm ==
    ASSUME Inv, Calm, DeliverEvent
    PROVE  Calm'
<1> DEFINE e == Head(buf)
           rest == Tail(buf)
<1>1. /\ buf # <<>> /\ handler' = "handling" /\ buf' = rest
      /\ \/ AllEvents' = AllEvents /\ events' = Append(events, e)
         \/ events' = events /\ AllEvents = AllEvents' \cup {e}
      /\ \A w \in Wd : watch'[w].path = watch[w].path
      /\ UNCHANGED <<present, queue, list, mark>>
  BY DeliverEffect
<1>2. buf \in Seq(Event) /\ events \in Seq(Event) /\ e \in Event /\ list \subseteq Wd
  BY <1>1 DEF Inv, Typed, InotifyTypeOK
<1>3. /\ CreatedOnce(rest) /\ CreatedBy(e) \cap CreatedDirs(rest) = {}
      /\ CreatedDirs(buf) = CreatedDirs(rest) \cup CreatedBy(e)
  BY <1>1, <1>2, OnceTail DEF Calm, CalmQueues
<1>4. /\ CreatedOnce(Append(events, e))
      /\ CreatedDirs(Append(events, e)) = CreatedDirs(events) \cup CreatedBy(e)
  <2>1. CreatedOnce(events) /\ CreatedBy(e) \cap CreatedDirs(events) = {}
    BY <1>3 DEF Calm, CalmQueues
  <2>2. EventsOf(Append(events, e)) = EventsOf(events) \cup {e}
    BY <1>2, EventsAppend
  <2> QED BY <1>2, <2>1, <2>2, OnceAppend, CreatedMore
<1> HIDE DEF e, rest
<1>5. /\ CreatedDirs(events)' = CreatedDirs(events') /\ CreatedOnce(events)' = CreatedOnce(events')
      /\ CreatedDirs(buf)' = CreatedDirs(rest) /\ CreatedOnce(buf)' = CreatedOnce(rest)
      /\ CreatedDirs(queue)' = CreatedDirs(queue) /\ CreatedOnce(queue)' = CreatedOnce(queue)
  BY <1>1 DEF CreatedDirs, CreatesDir, EventsOf, CreatedOnce
<1>6. /\ CreatedOnce(events')
      /\ CreatedDirs(events') \subseteq CreatedDirs(events) \cup CreatedBy(e)
  BY <1>1, <1>4 DEF Calm, CalmQueues
<1>7. AllEvents' \subseteq AllEvents
  BY <1>1
<1>8. CalmMarks' /\ CalmEvents'
  BY <1>1, <1>7 DEF Calm, CalmMarks, CalmEvents
<1>9. CalmQueues'
  BY <1>3, <1>5, <1>6 DEF Calm, CalmQueues
<1>10. CalmList'
  BY <1>1, <1>2, <1>3, <1>5, <1>6 DEF Calm, CalmList
<1>11. CalmScan'
  BY <1>1 DEF CalmScan
<1> QED BY <1>8, <1>9, <1>10, <1>11 DEF Calm

\* What is handled while calm kills nothing.
LEMMA HandleIsCalm ==
    ASSUME Inv, ReadInv, Calm, HandleEvent
    PROVE  mode' = "up" /\ Calm'
<1> DEFINE e == Head(events)
           rest == Tail(events)
<1>1. /\ mode = "up" /\ events # <<>> /\ buf' = buf /\ e \in Event /\ e \in AllEvents
      /\ UNCHANGED <<present, version, removed, early>>
      /\ handler' # "scanning" /\ EventsOf(events') \subseteq EventsOf(events)
  BY HandleEffect DEF AllEvents
<1>2. events \in Seq(Event) /\ queue \in Seq(Event) /\ list \subseteq Wd
  BY DEF Inv, Typed, InotifyTypeOK
<1>3. e.watch \in list /\ e.type \in {"IN_CREATE", "IN_MODIFY"} /\ (e.type = "IN_CREATE" => e.path \in present)
  BY <1>1 DEF Calm, CalmEvents
<1>4. /\ CreatedOnce(events) /\ CreatedOnce(rest)
      /\ CreatedBy(e) \cap CreatedDirs(rest) = {}
      /\ CreatedDirs(events) = CreatedDirs(rest) \cup CreatedBy(e)
  BY <1>1, <1>2, OnceTail DEF Calm, CalmQueues
<1>5. events' = events \/ events' = rest
  BY DEF HandleEvent, HandleDangling, HandleIgnored, HandleCreatedDir, HandleCreatedFile,
         HandleCreatedAgain, HandleModified, HandleDeleted, Handle, Handling, GetEvent
<1>6. CreatedOnce(events')
  BY <1>4, <1>5
<1>7. CASE NoWatchChanges /\ UNCHANGED mode
  BY <1>1, <1>6, <1>7, HandlingIsCalm DEF NoWatchChanges
<1>8. CASE HandleCreatedDir
  <2>1. e.type = "IN_CREATE" /\ e.path \in Dir /\ e.path \in present /\ events' = rest
    BY <1>3, <1>8 DEF HandleCreatedDir, Handle, Handling, GetEvent
  <2>2. CreatedBy(e) = {e.path}
    BY <2>1 DEF CreatedBy, CreatesDir
  <2>3. e.path \in CreatedDirs(events) /\ e.path \notin CreatedDirs(rest)
    BY <1>4, <2>2
  <2>4. FindWatch(e.path) = {}
    BY <1>1, <2>3 DEF FindWatch, Inv, MapsAgree, Calm, CalmList
  <2>5. CanAdd(e.path)
    BY <2>1, <2>4 DEF CanAdd
  <2>6. AddWatch(e.path) /\ UNCHANGED <<mode, queue>>
    BY <1>8, <2>5 DEF HandleCreatedDir
  <2>7. e.path \in Path
    BY <1>1 DEF Event
  <2>8. e.path \notin CreatedDirs(events') \cup CreatedDirs(buf) \cup CreatedDirs(queue)
    BY <2>1, <2>3 DEF Calm, CalmQueues
  <2> HIDE DEF e, rest
  <2>9. Calm'
    BY <1>1, <1>6, <2>6, <2>7, <2>8, HandlingIsCalm
  <2> QED BY <1>1, <2>6, <2>9
<1>9. CASE HandleCreatedFile
  <2>1. CASE NoWatchChanges /\ UNCHANGED mode
    BY <1>7, <2>1
  <2>2. CASE ~(NoWatchChanges /\ UNCHANGED mode)
    <3>1. /\ e.path \in File /\ ~AlreadyMonitored(e.path) /\ e.type = "IN_CREATE"
          /\ IF CanAdd(e.path) THEN AddWatch(e.path) /\ UNCHANGED <<mode, queue>> ELSE mode' = "uncaught"
      BY <1>9, <2>2 DEF HandleCreatedFile, Dies
    <3>2. FindWatch(e.path) = {}
      BY <1>1, <3>1 DEF FindWatch, Inv, MapsAgree, AlreadyMonitored
    <3>3. CanAdd(e.path)
      BY <1>3, <3>1, <3>2 DEF CanAdd
    <3>4. e.path \in Path /\ e.path \notin Dir
      BY <1>1, <3>1, InotifyAssumption DEF Event
    <3>5. e.path \notin CreatedDirs(events') \cup CreatedDirs(buf) \cup CreatedDirs(queue)
      BY <3>4, CreatedAreDirs
    <3> HIDE DEF e, rest
    <3>6. Calm'
      BY <1>1, <1>6, <3>1, <3>3, <3>4, <3>5, HandlingIsCalm
    <3> QED BY <1>1, <3>1, <3>3, <3>6
  <2> QED BY <2>1, <2>2
<1>10. CASE HandleCreatedAgain \/ HandleModified
  <2>1. NoWatchChanges /\ UNCHANGED mode
    BY <1>10 DEF HandleCreatedAgain, HandleModified
  <2> QED BY <1>7, <1>1, <2>1
<1>11. ~HandleDangling /\ ~HandleIgnored /\ ~HandleDeleted
  BY <1>3 DEF HandleDangling, HandleIgnored, HandleDeleted, Handle
<1> QED BY <1>1, <1>7, <1>8, <1>9, <1>10, <1>11 DEF HandleEvent

\* The constructor's watches are on paths that no event creates.
LEMMA ScanIsCalm ==
    ASSUME Inv, Calm, NEW p \in Dir \cup File, Scan(p)
    PROVE  Calm'
<1>1. /\ handler = "scanning" /\ p \in Path
      /\ UNCHANGED <<present, queue, buf, events, handler>>
      /\ AddWatch(p) \/ UNCHANGED <<watch, mark, list>>
  BY PathsOfEvents DEF Scan, fileSystem
<1>2. events = <<>> /\ buf = <<>> /\ CreatedDirs(queue) = {}
  BY <1>1 DEF Calm, CalmScan
<1>3. CreatedDirs(events') = {} /\ CreatedDirs(buf) = {} /\ CreatedOnce(events')
  BY <1>1, <1>2, CreatedEmpty
<1> QED BY <1>1, <1>2, <1>3, HandlingIsCalm

\* Every step keeps it, while nothing is removed.
LEMMA NextPristine == Inv /\ ReadInv /\ Pristine /\ [Next]_vars => Pristine'
<1> SUFFICES ASSUME Inv, ReadInv, Pristine, [Next]_vars, removed' = {}, early' = {}
             PROVE  mode' \in {"up", "closing"} /\ (mode' = "up" => Calm')
  BY DEF Pristine
<1>1. CASE OtherPrograms
  <2>1. UNCHANGED daemon
    BY <1>1 DEF OtherPrograms
  <2>2. removed = {} /\ early = {}
    BY <1>1 DEF OtherPrograms, history
  <2>3. mode \in {"up", "closing"} /\ (mode = "up" => Calm)
    BY <2>2 DEF Pristine
  <2>4. CASE mode # "up"
    BY <2>1, <2>3, <2>4 DEF daemon
  <2>5. CASE mode = "up"
    <3>1. ASSUME NEW p \in Dir \cup File, Create(p), handler = "scanning" => p \notin Dir
          PROVE  Calm'
      BY <2>1, <2>3, <2>5, <3>1, CreationIsCalm DEF daemon
    <3>2. ASSUME NEW f \in File, Write(f) PROVE Calm'
      BY <2>1, <2>3, <2>5, <3>2, WritingIsCalm DEF daemon
    <3>3. \A w \in Wd : ~WriteUnlinked(w)
      BY <2>3, <2>5 DEF Calm, CalmMarks, WriteUnlinked
    <3>4. \/ \E p \in Dir \cup File : Create(p) /\ (handler = "scanning" => p \notin Dir)
          \/ \E f \in File : Write(f)
      BY <1>1, <3>3 DEF OtherPrograms
    <3>5. Calm'
      BY <3>1, <3>2, <3>4
    <3> QED BY <2>1, <2>5, <3>5 DEF daemon
  <2> QED BY <2>4, <2>5
<1>2. CASE UNCHANGED <<removed, early>>
  <2>1. mode \in {"up", "closing"} /\ (mode = "up" => Calm)
    BY <1>2 DEF Pristine
  <2>2. CASE \E p \in Dir \cup File : Scan(p)
    <3>1. PICK p \in Dir \cup File : Scan(p)
      BY <2>2
    <3>2. mode = "up" /\ mode' = mode
      BY <3>1 DEF Scan
    <3> QED BY <2>1, <3>1, <3>2, ScanIsCalm
  <2>3. CASE Start \/ WaitAgain \/ SendProgress \/ UNCHANGED vars
    <3>1. /\ UNCHANGED <<mode, events, buf, queue, mark, list, watch, present>>
          /\ handler' = "scanning" => handler = "scanning"
      BY <2>3 DEF Start, WaitAgain, SendProgress, SendStep, vars, inotifyVars, fileSystem, kernel,
                  library, daemon
    <3> QED BY <2>1, <3>1, CalmKept
  <2>4. CASE Read
    BY <2>1, <2>4, ReadingIsCalm, ReadEffect
  <2>5. CASE DeliverEvent
    BY <2>1, <2>5, DeliveringIsCalm, DeliverEffect
  <2>6. CASE HandleEvent
    <3>1. mode = "up"
      BY <2>6, HandleEffect
    <3> QED BY <2>1, <2>6, <3>1, HandleIsCalm
  <2>7. CASE Shutdown
    BY <2>7 DEF Shutdown
  <2>8. CASE Kernel
    <3>1. (\E w \in Wd : mark[w] = "unlinked") /\ UNCHANGED daemon
      BY <2>8, KernelEffect
    <3> QED BY <2>1, <3>1 DEF Calm, CalmMarks, daemon
  <2>9. CASE OtherPrograms
    BY <1>1, <2>9
  <2> QED BY <2>2, <2>3, <2>4, <2>5, <2>6, <2>7, <2>8, <2>9 DEF Next, Inotification
<1>3. OtherPrograms \/ UNCHANGED <<removed, early>>
  BY HandleEffect DEF Next, Inotification, Scan, Start, Read, DeliverEvent, WaitAgain, Shutdown,
     SendProgress, SendStep, Kernel, history, vars
<1> QED BY <1>1, <1>2, <1>3

\* Nothing has happened yet.
LEMMA InitPristine == Init => Pristine
<1> SUFFICES ASSUME Init PROVE mode = "up" /\ Calm
  BY DEF Pristine
<1>1. /\ events = <<>> /\ buf = <<>> /\ queue = <<>> /\ mode = "up"
      /\ \A w \in Wd : mark[w] \in {"unused", "linked"}
  BY DEF Init, InotifyInit
<1>2. AllEvents = {}
  BY InitNoEvents
<1> QED BY <1>1, <1>2, CreatedEmpty DEF Calm, CalmMarks, CalmEvents, CalmQueues, CalmList, CalmScan

\* While nothing is removed and no directory appears during the constructor, the
\* events of the directory kill the daemon in no order (onInotifyUpdate, Inotify).
THEOREM DeathNeedsRemoval == Spec => []DiesOnlyOfRemovals
<1>1. Inv /\ ReadInv /\ Pristine /\ [Next]_vars => Pristine'
  BY NextPristine
<1>2. Pristine => DiesOnlyOfRemovals
  BY DEF Pristine, DiesOnlyOfRemovals
<1> QED BY <1>1, <1>2, InitPristine, Invariance, AlwaysRead, PTL DEF Spec
==============================================================================
