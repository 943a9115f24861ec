-------------------- MODULE MonitorScraperCompletionProofs --------------------
(***************************************************************************)
(* Proofs about MonitorScraperCompletion, for every set of requests and    *)
(* classes: how many answers a joint command gets, when, and which; that   *)
(* the MonitorManager keeps its promises with them; and that they          *)
(* implement CommonAnswer.                                                 *)
(***************************************************************************)
EXTENDS MonitorScraperCompletion, RegistryProofs

JointTyped ==
    /\ phase \in [Op -> Phase]
    /\ replies \in [Op -> Seq(Answer)]
    /\ timer \in [Op -> TimerState]
    /\ joint \in [Request -> Completion]
    /\ answers \in [Request -> Seq(Answer)]

\* An operation with a timer is being added; one that goes on is unanswered.
OneReply ==
    \A o \in Op :
        /\ timer[o] # "none" => phase[o] = "adding"
        /\ phase[o] # "done" => replies[o] = <<>>
        /\ Len(replies[o]) <= 1

\* The second operation of a request waits for a joint command.
SecondHalfWaits ==
    \A r \in Request : ~IsJoint(r) =>
        /\ phase[<<r, "Scraper">>] = "idle"
        /\ joint[r].firstResponse = None
        /\ answers[r] = <<>>

Replied(r) == [kind \in Kind |-> replies[<<r, kind>>]]

\* Before the first response no half has replied, before the answer one has.
Counted(first, answer, replied) ==
    /\ first = None => answer = <<>> /\ \A kind \in Kind : replied[kind] = <<>>
    /\ first # None => replied[first.kind] = <<first.answer>>
    /\ first # None /\ answer = <<>> => \A kind \in Kind \ {first.kind} : replied[kind] = <<>>
    /\ answer # <<>> =>
          /\ \A kind \in Kind : Len(replied[kind]) = 1
          /\ answer = <<MakeCommonResponse(replied["Monitor"][1], replied["Scraper"][1])>>

ResponsesCounted ==
    \A r \in Request : IsJoint(r) => Counted(joint[r].firstResponse, answers[r], Replied(r))

\* The halves of a status are done at once, Monitor first.
StatusAtOnce ==
    \A r \in Request : joint[r].command = "status" =>
        /\ \A kind \in Kind : phase[<<r, kind>>] \in {"accepted", "done"}
        /\ phase[<<r, "Monitor">>] = "done" =>
              /\ joint[r].firstResponse # None
              /\ joint[r].firstResponse.kind = "Monitor"
        /\ phase[<<r, "Monitor">>] = "accepted" => joint[r].firstResponse = None

JointInv ==
    /\ JointTyped
    /\ OneReply
    /\ SecondHalfWaits
    /\ ResponsesCounted
    /\ StatusAtOnce

-----------------------------------------------------------------------------
(* What a step of the MonitorManager does to the operations.               *)

\* No operation is touched, but timers that run may end.
Untouched ==
    /\ UNCHANGED <<phase, replies>>
    /\ timer' \in [Op -> TimerState]
    /\ \A p \in Op : timer'[p] # "none" => timer[p] # "none"

\* The others are untouched; this one goes on, or ends with or without a reply.
Advances(o) ==
    /\ phase' \in [Op -> Phase]
    /\ replies' \in [Op -> Seq(Answer)]
    /\ timer' \in [Op -> TimerState]
    /\ \A p \in Op \ {o} : /\ phase'[p] = phase[p]
                           /\ replies'[p] = replies[p]
                           /\ timer'[p] # "none" => timer[p] # "none"
    /\ timer'[o] # "none" => phase'[o] = "adding"
    /\ \/ replies'[o] = replies[o]
       \/ phase'[o] = "done" /\ \E answer \in Answer : replies'[o] = <<answer>>

\* An update of the registry ends waits and starts none.
LEMMA UpdateEndsWaits ==
    ASSUME JointTyped, NEW registry, UpdateRegistry(registry)
    PROVE  /\ timer' \in [Op -> TimerState]
           /\ \A p \in Op : timer'[p] # "none" <=> timer[p] # "none"
  BY DEF JointTyped, UpdateRegistry, TimersAfter, TimerState

\* A reply is the operation's only one.
LEMMA ReplyAdvances ==
    ASSUME JointTyped, OneReply, NEW o \in Op, NEW answer \in Answer, Reply(o, answer),
           phase[o] # "done", timer' \in [Op -> TimerState], timer'[o] = "none",
           \A p \in Op \ {o} : timer'[p] # "none" => timer[p] # "none"
    PROVE  Advances(o)
<1>1. replies[o] = <<>>
  BY DEF OneReply
<1>2. replies' = [replies EXCEPT ![o] = <<answer>>]
  BY <1>1 DEF Reply
<1>3. phase' = [phase EXCEPT ![o] = "done"]
  BY DEF Reply
<1> QED BY <1>2, <1>3 DEF Advances, JointTyped, Phase

\* A command that is dispatched goes on, or is over.
LEMMA DispatchAdvances ==
    ASSUME JointInv, NEW o \in Op,
           Dispatch(o) \/ \E k : OnAdd(o, k) \/ OnStop(o, k) \/ StopThrows(o, k)
    PROVE  Advances(o) /\ phase[o] = "accepted"
<1> USE DEF JointInv
<1>1. phase[o] = "accepted" /\ timer[o] = "none"
  <2>1. phase[o] = "accepted"
    BY DEF Dispatch, ReadFails, Unrecognised, OnPing, OnGetStatus,
           AddRefused, CommandThrows, StopRefused, Shutdown, OnAdd, OnStop,
           StopThrows, Dispatched
  <2> QED BY <2>1 DEF OneReply
<1>2. CASE ReadFails(o) \/ CommandThrows(o)
  BY <1>1, <1>2 DEF ReadFails, CommandThrows, Advances, JointTyped, Phase
<1>3. CASE \/ Unrecognised(o) \/ OnPing(o) \/ OnGetStatus(o) \/ AddRefused(o)
           \/ StopRefused(o)
  <2>1. UNCHANGED timer /\ \E answer \in Answer : Reply(o, answer)
    BY <1>3 DEF Unrecognised, OnPing, OnGetStatus, AddRefused, StopRefused,
                Answer
  <2> QED BY <1>1, <2>1, ReplyAdvances DEF JointTyped
<1>4. CASE Shutdown(o)
  <2>1. /\ UpdateRegistry(TerminateProcesses(stored)) /\ Reply(o, "ok")
        /\ "ok" \in Answer
    BY <1>4 DEF Shutdown, Answer
  <2> QED BY <1>1, <2>1, UpdateEndsWaits, ReplyAdvances
<1>5. ASSUME NEW k, OnAdd(o, k) PROVE Advances(o)
  BY <1>1, <1>5 DEF OnAdd, Advances, JointTyped, Phase, TimerState
<1>6. ASSUME NEW k, OnStop(o, k) \/ StopThrows(o, k) PROVE Advances(o)
  BY <1>1, <1>6 DEF OnStop, StopThrows, Advances, JointTyped, Phase
<1> QED BY <1>1, <1>2, <1>3, <1>4, <1>5, <1>6 DEF Dispatch

\* The delay timer's handler ends an add, or the daemon.
LEMMA AddTimerAdvances ==
    ASSUME JointInv, NEW o \in Op, AddTimer(o)
    PROVE  Advances(o) /\ phase[o] = "adding"
<1> USE DEF JointInv
<1>1. phase[o] = "adding" /\ timer' = [timer EXCEPT ![o] = "none"]
  BY DEF AddTimer, AddTimerAborted, AddTimerFindsNoEntry, AddTimerFindsNoProcess,
         AddTimerFindsRunning, AddTimerFindsDead, HandleExpiry, OneReply
<1>2. /\ timer' \in [Op -> TimerState] /\ timer'[o] = "none"
      /\ \A p \in Op \ {o} : timer'[p] # "none" => timer[p] # "none"
  BY <1>1 DEF JointTyped, TimerState
<1>3. \/ UNCHANGED replies /\ (UNCHANGED phase \/ phase' = [phase EXCEPT ![o] = "done"])
      \/ \E answer \in Answer : Reply(o, answer)
  BY DEF AddTimer, AddTimerAborted, AddTimerFindsNoEntry, AddTimerFindsNoProcess,
         AddTimerFindsRunning, AddTimerFindsDead, Answer
<1>4. CASE UNCHANGED replies /\ (UNCHANGED phase \/ phase' = [phase EXCEPT ![o] = "done"])
  BY <1>1, <1>2, <1>4 DEF Advances, JointTyped, Phase
<1>5. CASE \E answer \in Answer : Reply(o, answer)
  BY <1>1, <1>2, <1>5, ReplyAdvances
<1> QED BY <1>1, <1>3, <1>4, <1>5

\* A stop's write is followed by a read, unless it fails.
LEMMA StopAdvances ==
    ASSUME JointInv, NEW o \in Op, StopCompletion(o)
    PROVE  Advances(o) /\ phase[o] \in {"stopWrite", "stopRead"}
<1> USE DEF JointInv
<1>1. phase[o] \in {"stopWrite", "stopRead"} /\ timer[o] = "none"
  <2>1. phase[o] \in {"stopWrite", "stopRead"}
    BY DEF StopCompletion, StopWritten, StopRead
  <2> QED BY <2>1 DEF OneReply
<1>2. /\ timer' \in [Op -> TimerState]
      /\ \A p \in Op : timer'[p] # "none" <=> timer[p] # "none"
  <2>1. UNCHANGED timer \/ \E registry : UpdateRegistry(registry)
    BY DEF StopCompletion, StopWritten, StopRead
  <2> QED BY <2>1, UpdateEndsWaits DEF JointTyped
<1>3. \/ UNCHANGED replies /\ phase' = [phase EXCEPT ![o] = "stopRead"]
      \/ \E answer \in Answer : Reply(o, answer)
  BY DEF StopCompletion, StopWritten, StopRead, StopAnswer, Answer
<1>4. CASE UNCHANGED replies /\ phase' = [phase EXCEPT ![o] = "stopRead"]
  BY <1>1, <1>2, <1>4 DEF Advances, JointTyped, Phase
<1>5. CASE \E answer \in Answer : Reply(o, answer)
  BY <1>1, <1>2, <1>5, ReplyAdvances
<1> QED BY <1>1, <1>3, <1>4, <1>5

-----------------------------------------------------------------------------
(* The invariant.                                                          *)

\* Exits, events, expiries and the files that come and go answer nobody.
LEMMA SilentSafe ==
    ASSUME JointInv, Silent
    PROVE  JointInv'
<1> USE DEF JointInv
<1>1. Untouched
  <2>1. CASE \E o \in Op : ExitHandler(o)
    <3>1. UNCHANGED <<phase, replies>> /\ (UNCHANGED timer \/ \E registry : UpdateRegistry(registry))
      BY <2>1 DEF ExitHandler, OnProcessExit, OnProcessExitError
    <3> QED BY <3>1, UpdateEndsWaits DEF Untouched, JointTyped
  <2>2. CASE \E o \in Op : TimerExpires(o)
    BY <2>2 DEF TimerExpires, Untouched, JointTyped, TimerState
  <2>3. CASE OnInotifyUpdate
    <3>1. UNCHANGED <<phase, replies>> /\ (UNCHANGED timer \/ \E registry : UpdateRegistry(registry))
      BY <2>3 DEF OnInotifyUpdate, OnSocketCreated, OnSocketDeleted, NextEvent
    <3> QED BY <3>1, UpdateEndsWaits DEF Untouched, JointTyped
  <2>4. CASE \/ \E o \in Op : ProcessExits(o)
             \/ Return
             \/ \E k \in Key : SocketAppears(k) \/ SocketVanishes(k) \/ SocketAbandoned(k)
    BY <2>4 DEF ProcessExits, Return, SocketAppears, SocketVanishes,
                SocketAbandoned, Untouched, JointTyped
  <2> QED BY <2>1, <2>2, <2>3, <2>4 DEF Silent
<1>2. UNCHANGED <<phase, replies, joint, answers>>
  BY <1>1 DEF Silent, Untouched
<1>3. JointTyped' /\ OneReply'
  BY <1>1, <1>2 DEF JointTyped, OneReply, Untouched
<1>4. SecondHalfWaits' /\ ResponsesCounted' /\ StatusAtOnce'
  BY <1>2 DEF SecondHalfWaits, ResponsesCounted, StatusAtOnce, IsJoint, Replied
<1> QED BY <1>3, <1>4

\* Nobody is answered twice by an operation that goes on.
LEMMA AdvancingKeepsOneReply ==
    ASSUME JointInv, NEW o \in Op, Advances(o), phase[o] # "done"
    PROVE  OneReply'
<1> SUFFICES ASSUME NEW p \in Op
             PROVE  /\ timer'[p] # "none" => phase'[p] = "adding"
                    /\ phase'[p] # "done" => replies'[p] = <<>>
                    /\ Len(replies'[p]) <= 1
  BY DEF OneReply
<1>1. CASE p # o
  BY <1>1 DEF Advances, JointInv, OneReply
<1>2. CASE p = o
  <2>1. timer'[o] # "none" => phase'[o] = "adding"
    BY DEF Advances
  <2>2. CASE replies'[o] = replies[o]
    BY <1>2, <2>1, <2>2 DEF JointInv, OneReply
  <2>3. CASE replies'[o] # replies[o]
    <3>1. PICK answer \in Answer : replies'[o] = <<answer>> /\ phase'[o] = "done"
      BY <2>3 DEF Advances
    <3>2. Len(replies'[o]) = 1
      BY <3>1
    <3> QED BY <1>2, <2>1, <3>1, <3>2
  <2> QED BY <2>2, <2>3
<1> QED BY <1>1, <1>2

\* A plain command is answered by MonitorManager itself.
LEMMA PlainSafe ==
    ASSUME JointInv, NEW r \in Request, NEW kind \in Kind, ~IsJoint(r), Advances(<<r, kind>>),
           phase[<<r, kind>>] \notin {"idle", "done"}, UNCHANGED <<joint, answers>>
    PROVE  JointInv'
<1> USE DEF JointInv
<1> DEFINE o == <<r, kind>>
<1>1. o \in Op /\ o = <<r, "Monitor">>
  BY CompletionAssumption DEF JointOp, Kind, SecondHalfWaits
<1>2. \A q \in Request, j \in Kind : <<q, j>> # o =>
         /\ <<q, j>> \in Op
         /\ phase'[<<q, j>>] = phase[<<q, j>>]
         /\ replies'[<<q, j>>] = replies[<<q, j>>]
  BY <1>1, CompletionAssumption DEF Advances, JointOp
<1>3. JointTyped' /\ OneReply'
  BY <1>1, AdvancingKeepsOneReply DEF JointTyped, Advances
<1>4. SecondHalfWaits'
  BY <1>1, <1>2 DEF SecondHalfWaits, IsJoint, Kind
<1>5. ASSUME NEW q \in Request, IsJoint(q)
      PROVE  \A j \in Kind : /\ phase'[<<q, j>>] = phase[<<q, j>>]
                             /\ replies'[<<q, j>>] = replies[<<q, j>>]
  BY <1>1, <1>2, <1>5
<1>6. ResponsesCounted'
  <2>1. \A q \in Request : IsJoint(q) => Replied(q)' = Replied(q)
    BY <1>5 DEF Replied
  <2> QED BY <2>1 DEF ResponsesCounted, IsJoint
<1>7. StatusAtOnce'
  <2>1. \A q \in Request : joint[q].command = "status" => IsJoint(q)
    BY CompletionAssumption DEF IsJoint, JointCommand
  <2> QED BY <1>2, <1>5, <2>1 DEF StatusAtOnce, Kind
<1> QED BY <1>3, <1>4, <1>6, <1>7

\* A request arrives on its first operation.
LEMMA ConnectSafe ==
    ASSUME JointInv, NEW r \in Request, Connect(r)
    PROVE  JointInv'
<1> USE DEF JointInv
<1> DEFINE o == <<r, "Monitor">>
<1>1. o \in Op
  BY CompletionAssumption DEF JointOp, Kind
<1>2. /\ UNCHANGED <<joint, answers, replies, timer>> /\ phase[o] = "idle"
      /\ phase' = [phase EXCEPT ![o] = "accepted"]
  BY DEF Connect, Accept, Carrier
<1>3. JointTyped' /\ OneReply'
  BY <1>1, <1>2 DEF JointTyped, OneReply, Phase
<1>4. SecondHalfWaits'
  BY <1>1, <1>2 DEF SecondHalfWaits, IsJoint, JointTyped
<1>5. ResponsesCounted'
  BY <1>2 DEF ResponsesCounted, IsJoint, Replied
<1>6. StatusAtOnce'
  BY <1>1, <1>2 DEF StatusAtOnce, JointTyped, Kind
<1> QED BY <1>3, <1>4, <1>5, <1>6

\* Both halves of a joint command are posted, and neither has replied.
LEMMA PostSafe ==
    ASSUME JointInv, NEW r \in Request, NEW command \in JointCommand, NEW class \in Class,
           Post(r, command, class)
    PROVE  JointInv'
<1> USE DEF JointInv
<1> DEFINE s == <<r, "Scraper">>
<1>1. /\ s \in Op /\ <<r, "Monitor">> \in Op /\ s # <<r, "Monitor">>
      /\ \A q \in Request, kind \in Kind : <<q, kind>> \in Op
  BY CompletionAssumption DEF JointOp, Kind
<1>2. /\ ~IsJoint(r) /\ phase[<<r, "Monitor">>] = "accepted"
      /\ phase[s] = "idle" /\ joint[r].firstResponse = None /\ answers[r] = <<>>
  BY DEF Post, Dispatched, Carrier, SecondHalfWaits
<1>3. /\ phase' = [phase EXCEPT ![s] = "accepted"]
      /\ UNCHANGED <<replies, timer, answers>>
      /\ joint' = [joint EXCEPT ![r].command = command, ![r].class = class]
  BY DEF Post
<1>4. /\ joint'[r].command = command /\ joint'[r].firstResponse = None
      /\ \A q \in Request \ {r} : joint'[q] = joint[q]
      /\ joint' \in [Request -> Completion]
  <2>1. joint[r] \in Completion
    BY DEF JointTyped
  <2> QED BY <1>2, <1>3, <2>1 DEF JointTyped, Completion
<1>5. JointTyped' /\ OneReply'
  BY <1>1, <1>2, <1>3, <1>4 DEF JointTyped, OneReply, Phase
<1>6. SecondHalfWaits'
  BY <1>1, <1>3, <1>4, CompletionAssumption DEF SecondHalfWaits, IsJoint, JointTyped
<1>7. ResponsesCounted'
  <2>1. \A kind \in Kind : replies[<<r, kind>>] = <<>>
    BY <1>1, <1>2 DEF OneReply, Kind
  <2>2. Counted(None, <<>>, Replied(r))
    BY <2>1 DEF Counted, Replied
  <2>3. \A q \in Request : Replied(q)' = Replied(q)
    BY <1>3 DEF Replied
  <2> QED BY <1>2, <1>3, <1>4, <2>2, <2>3 DEF ResponsesCounted, IsJoint
<1>8. StatusAtOnce'
  <2>1. \A kind \in Kind : phase'[<<r, kind>>] = "accepted"
    BY <1>1, <1>2, <1>3 DEF JointTyped, Kind
  <2>2. \A q \in Request \ {r}, kind \in Kind : phase'[<<q, kind>>] = phase[<<q, kind>>]
    BY <1>1, <1>3 DEF JointTyped
  <2>3. "Monitor" \in Kind
    BY DEF Kind
  <2> QED BY <1>4, <2>1, <2>2, <2>3 DEF StatusAtOnce
<1> QED BY <1>5, <1>6, <1>7, <1>8

\* The first reply of a joint command is stored, the second answered.
LEMMA CompletionCounts ==
    ASSUME JointInv, NEW r \in Request, NEW kind \in Kind, IsJoint(r),
           Advances(<<r, kind>>), phase[<<r, kind>>] \notin {"idle", "done"}, Complete(r, kind)
    PROVE  /\ JointTyped' /\ OneReply' /\ SecondHalfWaits' /\ ResponsesCounted'
           /\ \A q \in Request \ {r} : joint'[q] = joint[q]
           /\ joint'[r].command = joint[r].command
           /\ joint[r].firstResponse # None => joint'[r] = joint[r]
           /\ replies'[<<r, kind>>] # <<>> /\ joint[r].firstResponse = None =>
                 joint'[r].firstResponse # None /\ joint'[r].firstResponse.kind = kind
           /\ replies'[<<r, kind>>] = <<>> => joint'[r] = joint[r]
<1> USE DEF JointInv
<1> DEFINE o == <<r, kind>>
           first == joint[r].firstResponse
<1>1. /\ o \in Op /\ replies[o] = <<>> /\ joint[r] \in Completion
      /\ first = None \/ first \in Response
      /\ \A q \in Request, j \in Kind : <<q, j>> \in Op
  BY CompletionAssumption DEF JointOp, OneReply, JointTyped, Completion
<1>2. \A q \in Request, j \in Kind : <<q, j>> # o =>
         phase'[<<q, j>>] = phase[<<q, j>>] /\ replies'[<<q, j>>] = replies[<<q, j>>]
  BY <1>1 DEF Advances
<1>3. OneReply'
  BY <1>1, AdvancingKeepsOneReply
<1>4. \A q \in Request \ {r} : Replied(q)' = Replied(q)
  BY <1>2 DEF Replied
<1>5. Counted(first, answers[r], Replied(r)) /\ Replied(r)[kind] = <<>>
  BY <1>1 DEF ResponsesCounted, Replied
<1>6. CASE replies'[o] = replies[o]
  <2>1. UNCHANGED <<joint, answers>>
    BY <1>6 DEF Complete
  <2>2. JointTyped'
    BY <2>1 DEF JointTyped, Advances
  <2>3. \A q \in Request, j \in Kind : replies'[<<q, j>>] = replies[<<q, j>>]
    BY <1>2, <1>6
  <2>4. SecondHalfWaits'
    BY <1>2, <2>1 DEF SecondHalfWaits, IsJoint, Kind
  <2>5. \A q \in Request : Replied(q)' = Replied(q)
    BY <2>3 DEF Replied
  <2>6. ResponsesCounted'
    BY <2>1, <2>5 DEF ResponsesCounted, IsJoint
  <2> QED BY <1>1, <1>3, <1>6, <2>1, <2>2, <2>4, <2>6
<1>7. CASE replies'[o] # replies[o]
  <2>1. PICK a \in Answer : replies'[o] = <<a>>
    BY <1>7 DEF Advances
  <2> DEFINE response == [kind |-> kind, answer |-> a, passedOn |-> phase[o] = "stopRead"]
  <2>2. response \in Response /\ CheckForCompletion(r, response)
    BY <1>7, <2>1 DEF Complete, Response
  <2>3. response # None
    BY <2>2, CompletionAssumption
  <2>4. answers[r] = <<>>
    BY <1>5 DEF Counted
  <2>5. CASE first = None
    <3>1. joint' = [joint EXCEPT ![r].firstResponse = response] /\ UNCHANGED answers
      BY <2>2, <2>5 DEF CheckForCompletion
    <3>2. /\ joint'[r].firstResponse = response /\ joint'[r].command = joint[r].command
          /\ \A q \in Request \ {r} : joint'[q] = joint[q]
          /\ joint' \in [Request -> Completion]
      BY <1>1, <2>2, <3>1 DEF JointTyped, Completion
    <3>3. JointTyped'
      BY <3>1, <3>2 DEF JointTyped, Advances
    <3>4. SecondHalfWaits'
      BY <1>2, <3>1, <3>2 DEF SecondHalfWaits, IsJoint, Kind
    <3>5. Counted(response, <<>>, Replied(r)')
      <4>1. \A j \in Kind \ {kind} : Replied(r)'[j] = <<>>
        BY <1>2, <1>5, <2>5 DEF Counted, Replied
      <4>2. Replied(r)'[kind] = <<a>>
        BY <2>1 DEF Replied
      <4> QED BY <2>3, <4>1, <4>2 DEF Counted
    <3>6. ResponsesCounted'
      BY <1>4, <2>4, <3>1, <3>2, <3>5 DEF ResponsesCounted, IsJoint
    <3> QED BY <1>1, <1>3, <1>7, <2>3, <2>5, <3>2, <3>3, <3>4, <3>6
  <2>6. CASE first # None
    <3>1. /\ UNCHANGED joint
          /\ answers' = [answers EXCEPT ![r] = <<MakeCommonResponse(first.answer, a)>>]
      BY <2>2, <2>4, <2>6 DEF CheckForCompletion
    <3>2. first.kind \in Kind \ {kind} /\ first.answer \in Answer
      <4>1. first \in Response /\ Replied(r)[first.kind] # <<>>
        BY <1>1, <1>5, <2>6 DEF Counted
      <4> QED BY <1>5, <4>1 DEF Response
    <3>3. MakeCommonResponse(first.answer, a) \in Answer
      BY DEF MakeCommonResponse, Answer
    <3>4. JointTyped'
      BY <3>1, <3>3 DEF JointTyped, Advances
    <3>5. SecondHalfWaits'
      BY <1>2, <3>1 DEF SecondHalfWaits, IsJoint, Kind, JointTyped
    <3>6. answers'[r] = <<MakeCommonResponse(first.answer, a)>>
      BY <3>1 DEF JointTyped
    <3>7. Counted(first, <<MakeCommonResponse(first.answer, a)>>, Replied(r)')
      <4>1. Replied(r)'[kind] = <<a>>
        BY <2>1 DEF Replied
      <4>2. Replied(r)'[first.kind] = <<first.answer>>
        <5>1. Replied(r)'[first.kind] = Replied(r)[first.kind]
          BY <1>2, <3>2 DEF Replied
        <5> QED BY <1>5, <2>6, <5>1 DEF Counted
      <4>3. Replied(r)'["Monitor"][1] = (IF kind = "Monitor" THEN a ELSE first.answer)
            /\ Replied(r)'["Scraper"][1] = (IF kind = "Scraper" THEN a ELSE first.answer)
        BY <3>2, <4>1, <4>2 DEF Kind
      <4>4. \A j \in Kind : Len(Replied(r)'[j]) = 1
        <5>1. Len(<<a>>) = 1 /\ Len(<<first.answer>>) = 1
          OBVIOUS
        <5> QED BY <3>2, <4>1, <4>2, <5>1 DEF Kind
      <4>5. MakeCommonResponse(Replied(r)'["Monitor"][1], Replied(r)'["Scraper"][1])
            = MakeCommonResponse(first.answer, a)
        BY <4>3 DEF MakeCommonResponse, Kind
      <4> QED BY <2>6, <4>2, <4>4, <4>5 DEF Counted
    <3>8. ResponsesCounted'
      <4>1. \A q \in Request \ {r} : answers'[q] = answers[q]
        BY <3>1 DEF JointTyped
      <4> QED BY <1>4, <3>1, <3>6, <3>7, <4>1 DEF ResponsesCounted, IsJoint
    <3> QED BY <1>1, <1>3, <1>7, <2>1, <2>6, <3>1, <3>4, <3>5, <3>8
  <2> QED BY <2>5, <2>6
<1> QED BY <1>6, <1>7

\* A half of an add or a stop: no status is touched.
LEMMA HalfSafe ==
    ASSUME JointInv, NEW r \in Request, NEW kind \in Kind, IsJoint(r), joint[r].command # "status",
           Advances(<<r, kind>>), phase[<<r, kind>>] \notin {"idle", "done"}, Complete(r, kind)
    PROVE  JointInv'
<1>1. /\ JointTyped' /\ OneReply' /\ SecondHalfWaits' /\ ResponsesCounted'
      /\ \A q \in Request \ {r} : joint'[q] = joint[q]
      /\ joint'[r].command = joint[r].command
  BY CompletionCounts
<1>2. \A q \in Request \ {r}, j \in Kind : phase'[<<q, j>>] = phase[<<q, j>>]
  BY CompletionAssumption DEF Advances, JointOp
<1>3. StatusAtOnce'
  <2>1. "Monitor" \in Kind
    BY DEF Kind
  <2> QED BY <1>1, <1>2, <2>1 DEF StatusAtOnce, JointInv
<1> QED BY <1>1, <1>3 DEF JointInv

\* A half of a status is done at once; the scraper's comes second.
LEMMA HalfStatusSafe ==
    ASSUME JointInv, NEW r \in Request, NEW kind \in Kind, HalfStatus(r, kind)
    PROVE  JointInv'
<1> USE DEF JointInv
<1> DEFINE o == <<r, kind>>
<1>1. /\ o \in Op /\ <<r, "Monitor">> \in Op /\ "Monitor" \in Kind
      /\ IsJoint(r) /\ joint[r].command = "status" /\ OnGetStatus(o)
      /\ kind = "Scraper" => phase[<<r, "Monitor">>] # "accepted"
      /\ Complete(r, kind)
  BY CompletionAssumption DEF HalfStatus, TurnOf, JointOp, Kind
<1>2. Advances(o) /\ phase[o] = "accepted"
  BY <1>1, DispatchAdvances DEF Dispatch
<1>3. /\ replies[o] = <<>>
      /\ replies' = [replies EXCEPT ![o] = Append(replies[o], "ok")]
      /\ phase' = [phase EXCEPT ![o] = "done"]
  BY <1>1, <1>2 DEF OnGetStatus, Reply, OneReply
<1>4. replies'[o] # <<>> /\ phase'[o] = "done"
  BY <1>1, <1>3 DEF JointTyped
<1>5. \A q \in Request, j \in Kind : <<q, j>> # o => phase'[<<q, j>>] = phase[<<q, j>>]
  BY <1>2, CompletionAssumption DEF Advances, JointOp
<1>6. /\ JointTyped' /\ OneReply' /\ SecondHalfWaits' /\ ResponsesCounted'
      /\ \A q \in Request \ {r} : joint'[q] = joint[q]
      /\ joint'[r].command = joint[r].command
      /\ joint[r].firstResponse # None => joint'[r] = joint[r]
      /\ joint[r].firstResponse = None =>
            joint'[r].firstResponse # None /\ joint'[r].firstResponse.kind = kind
  BY <1>1, <1>2, <1>4, CompletionCounts
<1>7. StatusAtOnce'
  <2> SUFFICES ASSUME NEW q \in Request, joint'[q].command = "status"
               PROVE  /\ \A j \in Kind : phase'[<<q, j>>] \in {"accepted", "done"}
                      /\ phase'[<<q, "Monitor">>] = "done" =>
                            /\ joint'[q].firstResponse # None
                            /\ joint'[q].firstResponse.kind = "Monitor"
                      /\ phase'[<<q, "Monitor">>] = "accepted" => joint'[q].firstResponse = None
    BY DEF StatusAtOnce
  <2>1. CASE q # r
    BY <1>1, <1>5, <1>6, <2>1 DEF StatusAtOnce
  <2>2. CASE q = r /\ kind = "Monitor"
    BY <1>1, <1>2, <1>4, <1>5, <1>6, <2>2 DEF StatusAtOnce
  <2>3. CASE q = r /\ kind = "Scraper"
    BY <1>1, <1>2, <1>4, <1>5, <1>6, <2>3 DEF StatusAtOnce
  <2> QED BY <2>1, <2>2, <2>3 DEF Kind
<1> QED BY <1>6, <1>7

\* JointInv is about the operations, the joint commands and the answers.
LEMMA NothingSafe ==
    ASSUME JointInv, UNCHANGED <<phase, replies, timer, joint, answers>>
    PROVE  JointInv'
  BY DEF JointInv, JointTyped, OneReply, SecondHalfWaits, ResponsesCounted, StatusAtOnce, IsJoint, Replied

\* JointInv is inductive.
LEMMA JointNextInv == JointInv /\ [JointNext]_jointVars => JointInv'
<1> SUFFICES ASSUME JointInv, [JointNext]_jointVars PROVE JointInv'
  OBVIOUS
<1>1. CASE UNCHANGED jointVars
  <2>1. UNCHANGED <<phase, replies, timer, joint, answers>>
    BY <1>1 DEF jointVars, vars
  <2> QED BY <2>1, NothingSafe
<1>2. ASSUME NEW r \in Request, NEW kind \in Kind, Half(r, kind) PROVE JointInv'
  <2> DEFINE o == <<r, kind>>
  <2>1. o \in Op
    BY CompletionAssumption DEF JointOp
  <2>2. CASE HalfStatus(r, kind)
    BY <2>2, HalfStatusSafe
  <2>3. CASE HalfAdd(r, kind) \/ HalfStop(r, kind)
    <3>1. /\ IsJoint(r) /\ joint[r].command # "status" /\ Complete(r, kind)
          /\ Dispatch(o) \/ \E k : OnAdd(o, k) \/ OnStop(o, k) \/ StopThrows(o, k)
      BY <2>3 DEF HalfAdd, HalfStop, TurnOf, Dispatch
    <3>2. Advances(o) /\ phase[o] = "accepted"
      BY <2>1, <3>1, DispatchAdvances
    <3> QED BY <3>1, <3>2, HalfSafe
  <2> QED BY <1>2, <2>2, <2>3 DEF Half
<1>3. ASSUME NEW r \in Request, NEW kind \in Kind, Continue(r, kind) PROVE JointInv'
  <2> DEFINE o == <<r, kind>>
  <2>1. o \in Op
    BY CompletionAssumption DEF JointOp
  <2>2. Advances(o) /\ phase[o] \in {"adding", "stopWrite", "stopRead"}
    BY <1>3, <2>1, AddTimerAdvances, StopAdvances DEF Continue
  <2>3. CASE IsJoint(r)
    <3>1. joint[r].command # "status"
      BY <2>2 DEF JointInv, StatusAtOnce
    <3> QED BY <1>3, <2>2, <2>3, <3>1, HalfSafe DEF Continue
  <2>4. CASE ~IsJoint(r)
    BY <1>3, <2>2, <2>4, PlainSafe DEF Continue, Complete
  <2> QED BY <2>3, <2>4
<1>4. ASSUME NEW r \in Request, NEW kind \in Kind, CommonResponseThrows(r, kind) PROVE JointInv'
  <2>1. UNCHANGED <<phase, replies, timer, joint, answers>>
    BY <1>4 DEF CommonResponseThrows
  <2> QED BY <2>1, NothingSafe
<1>5. ASSUME NEW r \in Request, PlainCommand(r) PROVE JointInv'
  <2>1. Carrier(r) = <<r, "Monitor">> /\ Carrier(r) \in Op /\ "Monitor" \in Kind
    BY CompletionAssumption DEF Carrier, JointOp, Kind
  <2>2. Advances(Carrier(r)) /\ phase[Carrier(r)] = "accepted"
    BY <1>5, <2>1, DispatchAdvances DEF PlainCommand
  <2> QED BY <1>5, <2>1, <2>2, PlainSafe DEF PlainCommand
<1> QED BY <1>1, <1>2, <1>3, <1>4, <1>5, ConnectSafe, PostSafe, SilentSafe DEF JointNext, Start

\* No request has arrived.
LEMMA JointInitInv == JointInit => JointInv
<1> SUFFICES ASSUME JointInit PROVE JointInv
  OBVIOUS
<1>1. JointTyped
  BY DEF JointInit, Init, JointTyped, Phase, TimerState, Completion
<1>2. OneReply
  BY DEF JointInit, Init, OneReply
<1>3. \A r \in Request : joint[r].command = None /\ joint[r].firstResponse = None
  BY DEF JointInit
<1>4. SecondHalfWaits /\ ResponsesCounted
  BY <1>3, CompletionAssumption DEF JointInit, Init, SecondHalfWaits, ResponsesCounted, IsJoint, JointOp, Kind
<1>5. StatusAtOnce
  BY <1>3, CompletionAssumption DEF StatusAtOnce, JointCommand
<1> QED BY <1>1, <1>2, <1>4, <1>5 DEF JointInv

\* The invariant the theorems below rest on.
THEOREM JointInvariance == JointSpec => []JointInv
  BY JointInitInv, JointNextInv, PTL DEF JointSpec

\* A joint command is answered at most once, and not before each of its halves has
\* replied, once (callbacks.cpp:50-57).
THEOREM BothHalvesFirst == JointSpec => []AnsweredAfterBoth
<1>1. JointInv => AnsweredAfterBoth
  <2> SUFFICES ASSUME JointInv, NEW r \in Request
               PROVE  /\ Len(answers[r]) <= 1
                      /\ answers[r] # <<>> => \A kind \in Kind : Len(replies[<<r, kind>>]) = 1
    BY DEF AnsweredAfterBoth
  <2>1. answers[r] # <<>> => IsJoint(r)
    BY DEF JointInv, SecondHalfWaits
  <2>2. CASE answers[r] = <<>>
    BY <2>2
  <2>3. CASE answers[r] # <<>>
    <3>1. Counted(joint[r].firstResponse, answers[r], Replied(r))
      BY <2>1, <2>3 DEF JointInv, ResponsesCounted
    <3>2. \A kind \in Kind : Len(replies[<<r, kind>>]) = 1
      BY <2>3, <3>1 DEF Counted, Replied
    <3>3. PICK answer : answers[r] = <<answer>>
      BY <2>3, <3>1 DEF Counted
    <3>4. Len(answers[r]) = 1
      BY <3>3
    <3> QED BY <3>2, <3>4
  <2> QED BY <2>2, <2>3
<1> QED BY <1>1, JointInvariance, PTL

\* The common answer is OK exactly when both halves' are, in whatever order they
\* came (utils.cpp:119-138).
THEOREM AnswerIsBoth == JointSpec => []AnswerIsCommon
<1>1. JointInv => AnswerIsCommon
  <2> SUFFICES ASSUME JointInv, NEW r \in Request, answers[r] # <<>>
               PROVE  answers[r] = <<"ok">> <=> \A kind \in Kind : replies[<<r, kind>>] = <<"ok">>
    BY DEF AnswerIsCommon
  <2>1. IsJoint(r)
    BY DEF JointInv, SecondHalfWaits
  <2> DEFINE m == replies[<<r, "Monitor">>]
             s == replies[<<r, "Scraper">>]
  <2>2. /\ m \in Seq(Answer) /\ s \in Seq(Answer) /\ Len(m) = 1 /\ Len(s) = 1
        /\ answers[r] = <<MakeCommonResponse(m[1], s[1])>>
    BY <2>1, CompletionAssumption DEF JointInv, ResponsesCounted, Counted, Replied, JointTyped, JointOp, Kind
  <2>3. m = <<m[1]>> /\ s = <<s[1]>> /\ m[1] \in Answer /\ s[1] \in Answer
    BY <2>2
  <2>4. answers[r] = <<"ok">> <=> m[1] = "ok" /\ s[1] = "ok"
    BY <2>2, <2>3 DEF MakeCommonResponse, Answer
  <2> HIDE DEF m, s
  <2>5. (m = <<"ok">> <=> m[1] = "ok") /\ (s = <<"ok">> <=> s[1] = "ok")
    BY <2>3
  <2> QED BY <2>4, <2>5 DEF m, s, Kind
<1> QED BY <1>1, JointInvariance, PTL

\* The first response to a status, which is labelled "monitors", is the monitors'
\* own (callbacks.cpp:313-332).
THEOREM StatusLabels == JointSpec => []StatusInOrder
<1>1. JointInv => StatusInOrder
  <2> SUFFICES ASSUME JointInv, NEW r \in Request, joint[r].command = "status",
                      joint[r].firstResponse # None
               PROVE  joint[r].firstResponse.kind = "Monitor"
    BY DEF StatusInOrder
  <2>1. phase[<<r, "Monitor">>] \in {"accepted", "done"}
    BY DEF JointInv, StatusAtOnce, Kind
  <2> QED BY <2>1 DEF JointInv, StatusAtOnce
<1> QED BY <1>1, JointInvariance, PTL

-----------------------------------------------------------------------------
(* The composition: what the MonitorManager promises, it promises with     *)
(* joint commands too.                                                     *)

ClassKnown == \A r \in Request : IsJoint(r) => joint[r].class \in Class

\* The class of a joint command is the one it was posted with.
LEMMA ClassKept == JointInv /\ ClassKnown /\ [JointNext]_jointVars => ClassKnown'
<1> SUFFICES ASSUME JointInv, ClassKnown, [JointNext]_jointVars PROVE ClassKnown'
  OBVIOUS
<1> USE DEF JointInv, JointTyped
<1>1. CASE UNCHANGED joint
  BY <1>1 DEF ClassKnown, IsJoint
<1>2. ASSUME NEW r \in Request, NEW kind \in Kind, Complete(r, kind) PROVE ClassKnown'
  <2>1. UNCHANGED joint \/ \E response : joint' = [joint EXCEPT ![r].firstResponse = response]
    BY <1>2 DEF Complete, CheckForCompletion
  <2>2. ASSUME NEW response, joint' = [joint EXCEPT ![r].firstResponse = response]
        PROVE  ClassKnown'
    <3>1. joint[r] \in Completion /\ \A q \in Request \ {r} : joint'[q] = joint[q]
      BY <2>2
    <3>2. joint'[r].command = joint[r].command /\ joint'[r].class = joint[r].class
      BY <2>2, <3>1 DEF Completion
    <3> QED BY <3>1, <3>2 DEF ClassKnown, IsJoint
  <2> QED BY <1>1, <2>1, <2>2
<1>3. ASSUME NEW r \in Request, NEW cmd \in JointCommand, NEW c \in Class, Post(r, cmd, c)
      PROVE  ClassKnown'
  <2>1. joint' = [joint EXCEPT ![r].command = cmd, ![r].class = c]
    BY <1>3 DEF Post
  <2> QED BY <2>1 DEF ClassKnown, IsJoint, Completion
<1> QED BY <1>1, <1>2, <1>3 DEF JointNext, Start, Connect, PlainCommand, Half, HalfAdd, HalfStop,
          HalfStatus, Continue, CommonResponseThrows, Silent, jointVars

\* What a MonitorManager does not do by itself: the scraper's half is posted, or the
\* common response throws.
OfTheCompletion ==
    /\ Running
    /\ UNCHANGED <<stored, keyOf, replies, timer, proc, sock, events>>
    /\ \/ /\ UNCHANGED mode
          /\ \E o \in Op : phase[o] = "idle" /\ phase' = [phase EXCEPT ![o] = "accepted"]
       \/ UNCHANGED phase /\ mode' = "uncaught"

\* Every other step is one of the MonitorManager, or none.
LEMMA StepsOfTheManager ==
    JointInv /\ ClassKnown /\ [JointNext]_jointVars => [Next]_vars \/ OfTheCompletion
<1> SUFFICES ASSUME JointInv, ClassKnown, [JointNext]_jointVars PROVE [Next]_vars \/ OfTheCompletion
  OBVIOUS
<1>1. CASE UNCHANGED jointVars
  BY <1>1 DEF jointVars
<1>2. \A r \in Request, kind \in Kind : <<r, kind>> \in Op
  BY CompletionAssumption DEF JointOp
<1>3. \A r \in Request : Carrier(r) \in Op
  BY <1>2 DEF Carrier, Kind
<1>4. ASSUME NEW r \in Request, NEW kind \in Kind, Half(r, kind) PROVE Next
  <2>1. IsJoint(r)
    BY <1>4 DEF Half, HalfAdd, HalfStop, HalfStatus, TurnOf
  <2>2. <<kind, joint[r].class>> \in Key
    BY <2>1, CompletionAssumption DEF ClassKnown, JointKey
  <2>3. Dispatch(<<r, kind>>)
    BY <1>4, <2>2 DEF Half, HalfAdd, HalfStop, HalfStatus, Dispatch
  <2> QED BY <1>2, <2>3 DEF Next, Daemon
<1>5. ASSUME NEW r \in Request, NEW kind \in Kind, Continue(r, kind) PROVE Next
  BY <1>2, <1>5 DEF Continue, Next, Daemon
<1>6. ASSUME NEW r \in Request, NEW kind \in Kind, CommonResponseThrows(r, kind)
      PROVE  OfTheCompletion
  BY <1>6 DEF CommonResponseThrows, OfTheCompletion
<1>7. ASSUME NEW r \in Request, NEW cmd \in JointCommand, NEW c \in Class, Post(r, cmd, c)
      PROVE  OfTheCompletion
  <2>1. phase[<<r, "Scraper">>] = "idle" /\ "Scraper" \in Kind
    BY <1>7 DEF Post, JointInv, SecondHalfWaits, Kind
  <2> QED BY <1>2, <1>7, <2>1 DEF Post, Dispatched, OfTheCompletion
<1>8. ASSUME NEW r \in Request, Connect(r) \/ PlainCommand(r) PROVE Next
  BY <1>3, <1>8 DEF Connect, PlainCommand, Next, Daemon, Environment
<1>9. CASE Silent
  BY <1>9 DEF Silent, Next, Daemon, Environment
<1> QED BY <1>1, <1>4, <1>5, <1>6, <1>7, <1>8, <1>9 DEF JointNext, Start

\* What holds of the MonitorManager in every state it reaches with joint commands.
ManagerInv ==
    /\ JointInv /\ ClassKnown
    /\ Inv /\ AddingIsTimed /\ PendingAddHasTimer /\ EventsInv

\* A step of the completion disturbs none of it.
LEMMA CompletionKeepsManager ==
    ASSUME ManagerInv, OfTheCompletion
    PROVE  Inv' /\ AddingIsTimed' /\ PendingAddHasTimer' /\ EventsInv'
<1> USE DEF ManagerInv, Inv, Typed, TypeOK, OfTheCompletion
<1>1. \A o \in Op : \/ phase'[o] = phase[o]
                    \/ phase[o] = "idle" /\ phase'[o] = "accepted"
  OBVIOUS
<1>2. Typed'
  BY DEF Mode, Phase, KeyKnown
<1>3. EntriesOwned' /\ LiveProcessRegistered'
  BY DEF EntriesOwned, LiveProcessRegistered, HasProcess
<1>4. TimersOwned' /\ OperationPhases' /\ PendingAddHasTimer'
  BY <1>1 DEF TimersOwned, OperationPhases, PendingAddHasTimer
<1>5. DropNeedsSuccessor'
  BY <1>1 DEF DropNeedsSuccessor
<1>6. AddingIsTimed' /\ EventsInv'
  BY DEF AddingIsTimed, EventsInv, EndpointBacked, CreationsAreUndone, HasProcess, HasEndpoint
<1> QED BY <1>2, <1>3, <1>4, <1>5, <1>6

LEMMA JointNextManager == ManagerInv /\ [JointNext]_jointVars => ManagerInv'
  BY JointNextInv, ClassKept, StepsOfTheManager, CompletionKeepsManager,
     NextInv, NextKeepsMarks, NextKeepsWaits, NextKeepsEvents
  DEF ManagerInv

\* The invariants of the MonitorManager's proofs are those of the composition.
THEOREM ManagerInvariance == JointSpec => []ManagerInv
<1>1. JointInit => ManagerInv
  BY JointInitInv, InitInv
  DEF JointInit, ManagerInv, ClassKnown, IsJoint, Init, AddingIsTimed, PendingAddHasTimer,
      EventsInv, EndpointBacked, CreationsAreUndone, HasEndpoint
<1> QED BY <1>1, JointNextManager, PTL DEF JointSpec

\* Whatever joint commands do to both registries at once, the MonitorManager keeps
\* its promises: about the processes, the entries, the answers, the timers of adds
\* and the events of the sockets.
THEOREM JointKeepsPromises ==
    JointSpec => [](/\ LiveProcessRegistered /\ SingleInstance /\ HasProcessOrEndpoint
                    /\ ReplyOnce /\ DropNeedsSuccessor
                    /\ AddingIsTimed /\ PendingAddHasTimer /\ EndpointBacked)
<1>1. ManagerInv => /\ LiveProcessRegistered /\ SingleInstance /\ HasProcessOrEndpoint
                    /\ ReplyOnce /\ DropNeedsSuccessor
                    /\ AddingIsTimed /\ PendingAddHasTimer /\ EndpointBacked
  BY InvImplies DEF ManagerInv, EventsInv
<1> QED BY <1>1, ManagerInvariance, PTL

\* The same of its steps: what an OK to an add, the report of an exit and the
\* shutdown mean is not changed by joint commands.
THEOREM JointKeepsSteps ==
    JointSpec => AddOkMeansRunning /\ ExitUnregisters /\ ShutdownLeavesNoOrphan
<1>1. ManagerInv /\ [JointNext]_jointVars =>
        /\ \A o \in Op : phase[o] = "adding" /\ replies'[o] = <<"ok">> =>
              HasProcess(stored', keyOf[o]) /\ proc'[stored'[keyOf[o]].process] = "running"
        /\ \A o \in Op : proc[o] = "exited" /\ proc'[o] = "gone" => o \notin Registered(stored')
        /\ mode = "up" /\ mode' = "closing" => \A o \in Op : proc'[o] # "running"
  <2> SUFFICES ASSUME ManagerInv, OfTheCompletion
               PROVE  /\ \A o \in Op : phase[o] = "adding" => replies'[o] # <<"ok">>
                      /\ UNCHANGED proc
                      /\ ~(mode = "up" /\ mode' = "closing")
    BY StepsOfTheManager, AnsweringFindsProcess, ReportingUnregisters, ClosingEndsProcesses
    DEF ManagerInv
  <2>1. \A o \in Op : phase[o] = "adding" => replies[o] = <<>>
    BY DEF ManagerInv, Inv, OperationPhases
  <2>2. <<"ok">> # <<>>
    OBVIOUS
  <2> QED BY <2>1, <2>2 DEF OfTheCompletion
<1> QED BY <1>1, ManagerInvariance, PTL
        DEF JointSpec, AddOkMeansRunning, ExitUnregisters, ShutdownLeavesNoOrphan

\* A Supervisor does not see that its clients ask for two things at once.
THEOREM JointRefinesSupervisor == JointSpec => ImplementsSupervisor
<1>1. JointInit => Supervisor!Init
  BY DEF JointInit, Init, Supervisor!Init, slot, life, owner, Launches, HasProcess
<1>2. ManagerInv /\ ManagerInv' /\ [JointNext]_jointVars => [Supervisor!Next]_(Supervisor!vars)
  <2>1. OfTheCompletion => UNCHANGED Supervisor!vars
    BY DEF OfTheCompletion, Supervisor!vars, slot, life, owner, Launches
  <2> QED BY <2>1, StepsOfTheManager, NextRefines DEF ManagerInv
<1> QED BY <1>1, <1>2, ManagerInvariance, PTL
        DEF JointSpec, ImplementsSupervisor, Supervisor!Spec

-----------------------------------------------------------------------------
(* What the halves of a joint command do.                                  *)

WorksOn(o, r, kind) == keyOf[o] = <<kind, joint[r].class>>

\* A half that is posted goes the way of its command; one that goes on, or succeeds,
\* has set to work on its own key.
HalfWorks(r, kind) ==
    LET o == <<r, kind>> IN
    /\ phase[o] # "idle"
    /\ joint[r].command = "add" =>
          /\ phase[o] \in {"accepted", "adding", "done"}
          /\ phase[o] = "adding" \/ replies[o] = <<"ok">> => Launches(o) /\ WorksOn(o, r, kind)
    /\ joint[r].command = "stop" =>
          /\ phase[o] # "adding" /\ ~Launches(o)
          /\ phase[o] \in {"stopWrite", "stopRead"} \/ replies[o] = <<"ok">> =>
                WorksOn(o, r, kind)

HalvesWork == \A r \in Request, kind \in Kind : IsJoint(r) => HalfWorks(r, kind)

HalvesInv == ManagerInv /\ HalvesWork

\* The other operations keep their phase, answers, key and process.
Elsewhere(o) ==
    \A p \in Op \ {o} :
        /\ phase'[p] = phase[p] /\ replies'[p] = replies[p] /\ keyOf'[p] = keyOf[p]
        /\ Launches(p)' <=> Launches(p)

\* Of all operations, a command is about its own alone.
LEMMA DispatchElsewhere ==
    ASSUME ManagerInv, NEW o \in Op,
           Dispatch(o) \/ \E k \in Key : OnAdd(o, k) \/ OnStop(o, k) \/ StopThrows(o, k)
    PROVE  Elsewhere(o)
<1> USE DEF ManagerInv, Inv, Typed, TypeOK
<1>1. Advances(o)
  BY DispatchAdvances
<1>2. UNCHANGED keyOf \/ \E k : keyOf' = [keyOf EXCEPT ![o] = k]
  BY DEF Dispatch, ReadFails, Unrecognised, OnPing, OnGetStatus, AddRefused, CommandThrows,
         StopRefused, Shutdown, OnAdd, OnStop, StopThrows
<1>3. \/ UNCHANGED proc \/ proc' = [proc EXCEPT ![o] = "running"]
      \/ proc' = [p \in Op |-> IF p \in Registered(stored) /\ proc[p] \in {"running", "exited"}
                              THEN "reaped" ELSE proc[p]]
  BY DEF Dispatch, ReadFails, Unrecognised, OnPing, OnGetStatus, AddRefused, CommandThrows,
         StopRefused, Shutdown, OnAdd, OnStop, StopThrows
<1>4. \A p \in Op \ {o} : proc'[p] # "none" <=> proc[p] # "none"
  BY <1>3
<1>5. \A p \in Op \ {o} : keyOf'[p] = keyOf[p]
  BY <1>2
<1> QED BY <1>1, <1>4, <1>5 DEF Advances, Elsewhere, Launches

\* So is what comes of it, which also leaves its own key and process alone.
LEMMA CompletionElsewhere ==
    ASSUME ManagerInv, NEW o \in Op, AddTimer(o) \/ StopCompletion(o)
    PROVE  Elsewhere(o) /\ UNCHANGED keyOf /\ (Launches(o)' <=> Launches(o))
<1> USE DEF ManagerInv, Inv, Typed, TypeOK
<1>1. Advances(o)
  BY AddTimerAdvances, StopAdvances
<1>2. UNCHANGED keyOf
  BY DEF AddTimer, AddTimerAborted, AddTimerFindsNoEntry, AddTimerFindsNoProcess,
         AddTimerFindsRunning, AddTimerFindsDead, HandleExpiry, StopCompletion, StopWritten, StopRead
<1>3. UNCHANGED proc \/ \E p : proc' = Reap(p)
  BY DEF AddTimer, AddTimerAborted, AddTimerFindsNoEntry, AddTimerFindsNoProcess,
         AddTimerFindsRunning, AddTimerFindsDead, StopCompletion, StopWritten, StopRead
<1>4. \A p \in Op : proc'[p] # "none" <=> proc[p] # "none"
  BY <1>3 DEF Reap
<1> QED BY <1>1, <1>2, <1>4 DEF Advances, Elsewhere, Launches

\* Exits, events, expiries and the files that come and go are about no operation.
LEMMA SilentElsewhere ==
    ASSUME ManagerInv, Silent
    PROVE  /\ UNCHANGED <<phase, replies, keyOf, joint>>
           /\ \A p \in Op : Launches(p)' <=> Launches(p)
<1> USE DEF ManagerInv, Inv, Typed, TypeOK
<1>1. UNCHANGED <<phase, replies, keyOf, joint>>
  BY DEF Silent, ExitHandler, OnProcessExit, OnProcessExitError, TimerExpires, ProcessExits,
         OnInotifyUpdate, OnSocketCreated, OnSocketDeleted, NextEvent, Return, SocketAppears,
         SocketVanishes, SocketAbandoned
<1>2. \/ UNCHANGED proc
      \/ \E o \in Op : /\ proc[o] # "none"
                       /\ proc' \in {[proc EXCEPT ![o] = "gone"], [proc EXCEPT ![o] = "exited"]}
  BY DEF Silent, ExitHandler, OnProcessExit, OnProcessExitError, TimerExpires, ProcessExits,
         OnInotifyUpdate, OnSocketCreated, OnSocketDeleted, NextEvent, Return, SocketAppears,
         SocketVanishes, SocketAbandoned
<1> QED BY <1>1, <1>2 DEF Launches

\* Where a step leaves a half alone, its work stands.
LEMMA WorkStands ==
    ASSUME HalvesWork, NEW r \in Request, NEW kind \in Kind, NEW o \in Op, o = <<r, kind>>,
           IsJoint(r), joint'[r].command = joint[r].command, joint'[r].class = joint[r].class,
           phase'[o] = phase[o], replies'[o] = replies[o], keyOf'[o] = keyOf[o],
           Launches(o)' <=> Launches(o)
    PROVE  HalfWorks(r, kind)'
  BY DEF HalvesWork, HalfWorks, WorksOn

\* What a half is answered, the completion keeps apart from what it was asked.
LEMMA CompletionKeepsCommands ==
    ASSUME JointInv, NEW r \in Request, NEW kind \in Kind, Complete(r, kind)
    PROVE  \A q \in Request : /\ joint'[q].command = joint[q].command
                              /\ joint'[q].class = joint[q].class
<1>1. CASE UNCHANGED joint
  BY <1>1
<1>2. ASSUME NEW response, joint' = [joint EXCEPT ![r].firstResponse = response]
      PROVE  \A q \in Request : /\ joint'[q].command = joint[q].command
                                /\ joint'[q].class = joint[q].class
  <2>1. joint[r] \in Completion /\ \A q \in Request \ {r} : joint'[q] = joint[q]
    BY <1>2 DEF JointInv, JointTyped
  <2>2. joint'[r].command = joint[r].command /\ joint'[r].class = joint[r].class
    BY <1>2, <2>1 DEF JointInv, JointTyped, Completion
  <2> QED BY <2>1, <2>2
<1> QED BY <1>1, <1>2 DEF Complete, CheckForCompletion

\* A half that is dispatched launches a process, sends a stop, or is over.
LEMMA HalfWorksOnDispatch ==
    ASSUME HalvesInv, NEW r \in Request, NEW kind \in Kind, Half(r, kind)
    PROVE  HalfWorks(r, kind)' /\ Elsewhere(<<r, kind>>)
<1> USE DEF HalvesInv, ManagerInv, Inv, Typed, TypeOK
<1> DEFINE o == <<r, kind>>
           k == <<kind, joint[r].class>>
<1>1. o \in Op /\ IsJoint(r) /\ Complete(r, kind)
  BY CompletionAssumption DEF JointOp, Half, HalfAdd, HalfStop, HalfStatus, TurnOf
<1>2. k \in Key
  BY <1>1, CompletionAssumption DEF ClassKnown, JointKey
<1>3. joint'[r].command = joint[r].command /\ joint'[r].class = joint[r].class
  BY <1>1, CompletionKeepsCommands
<1>4. \/ Dispatch(o)
      \/ \E j \in Key : OnAdd(o, j) \/ OnStop(o, j) \/ StopThrows(o, j)
  BY <1>2 DEF Half, HalfAdd, HalfStop, HalfStatus, Dispatch
<1>5. Elsewhere(o) /\ phase[o] = "accepted" /\ replies[o] = <<>> /\ ~Launches(o)
  BY <1>1, <1>4, DispatchElsewhere, DispatchAdvances DEF OperationPhases, Launches
<1>6. CASE \/ OnGetStatus(o) /\ joint[r].command = "status"
           \/ AddRefused(o) \/ StopRefused(o)
  <2>1. /\ UNCHANGED proc /\ phase' = [phase EXCEPT ![o] = "done"]
        /\ \E answer \in Answer : /\ replies' = [replies EXCEPT ![o] = Append(replies[o], answer)]
                                  /\ answer = "ok" => joint[r].command = "status"
    BY <1>6 DEF OnGetStatus, AddRefused, StopRefused, Reply, Answer
  <2>2. \E answer \in Answer : /\ replies'[o] = <<answer>>
                               /\ answer = "ok" => joint[r].command = "status"
    BY <1>1, <1>5, <2>1
  <2>3. phase'[o] = "done" /\ ~Launches(o)'
    BY <1>1, <1>5, <2>1 DEF Launches
  <2>4. replies'[o] = <<"ok">> => joint[r].command = "status"
    BY <2>2
  <2> QED BY <1>3, <1>5, <2>3, <2>4 DEF HalfWorks
<1>7. CASE CommandThrows(o) \/ StopThrows(o, k)
  <2>1. UNCHANGED <<phase, replies, keyOf, proc>>
    BY <1>7 DEF CommandThrows, StopThrows
  <2> QED BY <1>1, <1>3, <1>5, <2>1, WorkStands DEF Launches
<1>8. CASE OnAdd(o, k) /\ joint[r].command = "add"
  <2>1. phase'[o] = "adding" /\ keyOf'[o] = k /\ Launches(o)'
    BY <1>1, <1>8 DEF OnAdd, Launches
  <2> QED BY <1>3, <1>5, <1>8, <2>1 DEF HalfWorks, WorksOn
<1>9. CASE OnStop(o, k) /\ joint[r].command = "stop"
  <2>1. phase'[o] = "stopWrite" /\ keyOf'[o] = k /\ ~Launches(o)'
    BY <1>1, <1>5, <1>9 DEF OnStop, Launches
  <2> QED BY <1>3, <1>5, <1>9, <2>1 DEF HalfWorks, WorksOn
<1> QED BY <1>5, <1>6, <1>7, <1>8, <1>9 DEF Half, HalfAdd, HalfStop, HalfStatus

\* A half that goes on keeps to the key it has set to work on.
LEMMA HalfWorksOn ==
    ASSUME HalvesInv, NEW r \in Request, NEW kind \in Kind, IsJoint(r), Continue(r, kind)
    PROVE  HalfWorks(r, kind)'
<1> USE DEF HalvesInv, ManagerInv
<1> DEFINE o == <<r, kind>>
<1>1. o \in Op /\ Complete(r, kind) /\ (AddTimer(o) \/ StopCompletion(o))
  BY CompletionAssumption DEF JointOp, Continue
<1>2. joint'[r].command = joint[r].command /\ joint'[r].class = joint[r].class
  BY <1>1, CompletionKeepsCommands
<1>3. UNCHANGED keyOf /\ (Launches(o)' <=> Launches(o))
  BY <1>1, CompletionElsewhere
<1>4. HalfWorks(r, kind)
  BY DEF HalvesWork
<1>5. CASE AddTimer(o)
  <2>1. phase[o] = "adding" /\ phase'[o] \in {"adding", "done"}
    <3>1. phase[o] = "adding"
      BY <1>1, <1>5, AddTimerAdvances
    <3>2. UNCHANGED phase \/ phase' = [phase EXCEPT ![o] = "done"]
      BY <1>5 DEF AddTimer, AddTimerAborted, AddTimerFindsNoEntry, AddTimerFindsNoProcess,
                  AddTimerFindsRunning, AddTimerFindsDead, Reply
    <3> QED BY <1>1, <3>1, <3>2 DEF Inv, Typed, TypeOK
  <2> QED BY <1>2, <1>3, <1>4, <2>1 DEF HalfWorks, WorksOn
<1>6. CASE StopCompletion(o)
  <2>1. phase[o] \in {"stopWrite", "stopRead"} /\ phase'[o] \in {"stopRead", "done"}
    <3>1. phase[o] \in {"stopWrite", "stopRead"}
      BY <1>1, <1>6, StopAdvances
    <3>2. phase' \in {[phase EXCEPT ![o] = "stopRead"], [phase EXCEPT ![o] = "done"]}
      BY <1>6 DEF StopCompletion, StopWritten, StopRead, Reply
    <3> QED BY <1>1, <3>1, <3>2 DEF Inv, Typed, TypeOK
  <2> QED BY <1>2, <1>3, <1>4, <2>1 DEF HalfWorks, WorksOn
<1> QED BY <1>1, <1>5, <1>6

\* HalvesInv is inductive.
LEMMA HalvesNext == HalvesInv /\ [JointNext]_jointVars => HalvesWork'
<1> SUFFICES ASSUME HalvesInv, [JointNext]_jointVars PROVE HalvesWork'
  OBVIOUS
<1> USE DEF HalvesInv, ManagerInv, Inv, Typed, TypeOK
<1>1. /\ \A q \in Request, j \in Kind : <<q, j>> \in Op
      /\ \A q \in Request : Carrier(q) \in Op /\ Carrier(q) = <<q, "Monitor">>
  BY CompletionAssumption DEF JointOp, Kind, Carrier
<1>2. CASE \/ UNCHANGED jointVars \/ Silent
           \/ \E r \in Request, kind \in Kind : CommonResponseThrows(r, kind)
  <2>1. /\ UNCHANGED <<phase, replies, keyOf, joint>>
        /\ \A p \in Op : Launches(p)' <=> Launches(p)
    BY <1>2, SilentElsewhere DEF jointVars, vars, CommonResponseThrows, Launches
  <2> QED BY <1>1, <2>1, WorkStands DEF HalvesWork, IsJoint
<1>3. ASSUME NEW r \in Request, NEW kind \in Kind,
             \/ Half(r, kind)
             \/ Continue(r, kind)
      PROVE  HalvesWork'
  <2>1. /\ IsJoint(r) => HalfWorks(r, kind)'
        /\ Elsewhere(<<r, kind>>)
    BY <1>1, <1>3, HalfWorksOnDispatch, HalfWorksOn, CompletionElsewhere DEF Continue
  <2>2. \A q \in Request : /\ joint'[q].command = joint[q].command
                           /\ joint'[q].class = joint[q].class
    BY <1>3, CompletionKeepsCommands DEF Half, HalfAdd, HalfStop, HalfStatus, Continue
  <2>3. ASSUME NEW q \in Request, NEW j \in Kind, IsJoint(q), <<q, j>> # <<r, kind>>
        PROVE  HalfWorks(q, j)'
    BY <1>1, <2>1, <2>2, <2>3, WorkStands DEF Elsewhere
  <2> QED BY <2>1, <2>2, <2>3 DEF HalvesWork, IsJoint
<1>4. ASSUME NEW r \in Request, Connect(r) \/ PlainCommand(r) PROVE HalvesWork'
  <2>1. Elsewhere(Carrier(r)) /\ UNCHANGED joint
    <3>1. CASE Connect(r)
      BY <3>1 DEF Connect, Accept, Elsewhere, Launches
    <3>2. CASE PlainCommand(r)
      BY <1>1, <3>2, DispatchElsewhere DEF PlainCommand
    <3> QED BY <1>4, <3>1, <3>2
  <2>2. IsJoint(r) => phase[Carrier(r)] # "idle"
    BY <1>1 DEF HalvesWork, HalfWorks, Kind
  <2>3. ~IsJoint(r)
    BY <1>4, <2>2 DEF Connect, Accept, PlainCommand
  <2>4. ASSUME NEW q \in Request, NEW j \in Kind, IsJoint(q) PROVE HalfWorks(q, j)'
    <3>1. <<q, j>> \in Op \ {Carrier(r)}
      BY <1>1, <2>3, <2>4
    <3> QED BY <2>1, <2>4, <3>1, WorkStands DEF Elsewhere
  <2> QED BY <2>1, <2>4 DEF HalvesWork, IsJoint
<1>5. ASSUME NEW r \in Request, NEW cmd \in JointCommand, NEW c \in Class, Post(r, cmd, c)
      PROVE  HalvesWork'
  <2>1. /\ phase' = [phase EXCEPT ![<<r, "Scraper">>] = "accepted"]
        /\ UNCHANGED <<replies, keyOf, proc>>
        /\ phase[<<r, "Monitor">>] = "accepted" /\ phase[<<r, "Scraper">>] = "idle"
    BY <1>5 DEF Post, Dispatched, Carrier, JointInv, SecondHalfWaits
  <2>2. \A q \in Request \ {r} : joint'[q] = joint[q]
    BY <1>5 DEF Post, JointInv, JointTyped
  <2>3. \A kind \in Kind : /\ phase'[<<r, kind>>] = "accepted" /\ replies'[<<r, kind>>] # <<"ok">>
                           /\ ~Launches(<<r, kind>>)'
    <3>1. \A kind \in Kind : replies[<<r, kind>>] = <<>> /\ proc[<<r, kind>>] = "none"
      BY <1>1, <2>1 DEF Kind, OperationPhases
    <3>2. \A kind \in Kind : phase'[<<r, kind>>] = "accepted"
      BY <1>1, <2>1 DEF Kind
    <3>3. <<"ok">> # <<>>
      OBVIOUS
    <3> QED BY <2>1, <3>1, <3>2, <3>3 DEF Launches
  <2>4. ASSUME NEW q \in Request \ {r}, NEW j \in Kind, IsJoint(q) PROVE HalfWorks(q, j)'
    BY <1>1, <2>1, <2>2, <2>4, WorkStands DEF Launches
  <2>5. \A kind \in Kind : HalfWorks(r, kind)'
    BY <2>3 DEF HalfWorks
  <2> QED BY <2>2, <2>4, <2>5 DEF HalvesWork, IsJoint
<1> QED BY <1>2, <1>3, <1>4, <1>5 DEF JointNext, Start

\* Added to ManagerInv, what the halves do is invariant.
THEOREM HalvesInvariance == JointSpec => []HalvesInv
<1>1. JointInit => HalvesWork
  BY DEF JointInit, HalvesWork, IsJoint
<1> QED BY <1>1, HalvesNext, ManagerInvariance, PTL DEF JointSpec, HalvesInv

\* A joint add or stop that is answered with OK was carried out under its class in
\* both registries (callbacks.cpp:401-442, utils.cpp:119-138).
THEOREM OkIsForBoth == JointSpec => []OkMeansBothCarriedOut
<1>1. HalvesInv /\ AnswerIsCommon => OkMeansBothCarriedOut
  <2> SUFFICES ASSUME HalvesInv, AnswerIsCommon, NEW r \in Request, NEW kind \in Kind,
                      joint[r].command \in {"add", "stop"}, answers[r] = <<"ok">>
               PROVE  /\ keyOf[<<r, kind>>] = <<kind, joint[r].class>>
                      /\ joint[r].command = "add" <=> Launches(<<r, kind>>)
    BY DEF OkMeansBothCarriedOut
  <2>1. replies[<<r, kind>>] = <<"ok">>
    <3>1. <<"ok">> # <<>>
      OBVIOUS
    <3> QED BY <3>1 DEF AnswerIsCommon
  <2>2. IsJoint(r)
    BY CompletionAssumption DEF IsJoint, JointCommand
  <2> QED BY <2>1, <2>2 DEF HalvesInv, HalvesWork, HalfWorks, WorksOn
<1> QED BY <1>1, HalvesInvariance, AnswerIsBoth, PTL

\* A joint command that is unanswered has a half that a handler is still to come
\* for, or one that has ended without an answer: when both have answered, the client
\* has been, too.
THEOREM JointDriven == JointSpec => []JointIsDriven
<1>1. HalvesInv => JointIsDriven
  <2> SUFFICES ASSUME HalvesInv, Running, NEW r \in Request, IsJoint(r), answers[r] = <<>>,
                      \A kind \in Kind : ~InProgress(<<r, kind>>) /\ ~EndsUnanswered(<<r, kind>>)
               PROVE  FALSE
    BY DEF JointIsDriven
  <2> USE DEF HalvesInv, ManagerInv
  <2>1. \A kind \in Kind : replies[<<r, kind>>] # <<>>
    <3> SUFFICES ASSUME NEW kind \in Kind PROVE replies[<<r, kind>>] # <<>>
      OBVIOUS
    <3>1. <<r, kind>> \in Op /\ phase[<<r, kind>>] # "idle"
      BY CompletionAssumption DEF JointOp, HalvesWork, HalfWorks
    <3>2. phase[<<r, kind>>] = "done"
      BY <3>1 DEF InProgress, PendingAddHasTimer, Inv, Typed, TypeOK, Phase
    <3> QED BY <3>2 DEF EndsUnanswered
  <2>2. Counted(joint[r].firstResponse, <<>>, Replied(r))
    BY DEF JointInv, ResponsesCounted
  <2>3. \A kind \in Kind : Replied(r)[kind] # <<>>
    BY <2>1 DEF Replied
  <2> QED BY <2>2, <2>3 DEF Counted, Kind
<1> QED BY <1>1, HalvesInvariance, PTL

-----------------------------------------------------------------------------
(* The abstract specification: a half's answer is one step of it.          *)

\* Where no half of a joint command is answered, nothing of it shows.
LEMMA NothingGiven ==
    ASSUME UNCHANGED answers,
           \A r \in Request :
              /\ IsJoint(r)' => \A kind \in Kind :
                    replies'[<<r, kind>>] = IF IsJoint(r) THEN replies[<<r, kind>>] ELSE <<>>
              /\ IsJoint(r) => IsJoint(r)'
    PROVE  UNCHANGED <<given, answers>>
<1>1. ASSUME NEW r \in Request, NEW kind \in Kind
      PROVE  (IF IsJoint(r)' THEN replies'[<<r, kind>>] ELSE <<>>)
             = IF IsJoint(r) THEN replies[<<r, kind>>] ELSE <<>>
  OBVIOUS
<1> QED BY <1>1 DEF given

\* A half of a joint command that goes on gives its answer, or none yet; with the
\* second answer the client is told.
LEMMA CompletionGives ==
    ASSUME JointInv, NEW r \in Request, NEW kind \in Kind, IsJoint(r),
           Advances(<<r, kind>>), phase[<<r, kind>>] \notin {"idle", "done"}, Complete(r, kind)
    PROVE  CommonAnswer!Next \/ UNCHANGED <<given, answers>>
<1> DEFINE o == <<r, kind>>
           first == joint[r].firstResponse
<1>1. /\ o \in Op /\ replies[o] = <<>> /\ first \in Response \cup {None}
      /\ \A q \in Request, j \in Kind : <<q, j>> \in Op
  BY CompletionAssumption DEF JointInv, JointTyped, JointOp, OneReply, Completion
<1>2. \A q \in Request, j \in Kind : <<q, j>> # o => replies'[<<q, j>>] = replies[<<q, j>>]
  BY <1>1 DEF Advances
<1>3. \A q \in Request : IsJoint(q)' <=> IsJoint(q)
  BY CompletionKeepsCommands DEF IsJoint
<1>4. CASE replies'[o] = replies[o]
  <2>1. UNCHANGED answers
    BY <1>4 DEF Complete
  <2>2. \A q \in Request, j \in Kind : replies'[<<q, j>>] = replies[<<q, j>>]
    BY <1>2, <1>4
  <2> QED BY <1>3, <2>1, <2>2, NothingGiven
<1>5. CASE replies'[o] # replies[o]
  <2>1. PICK a \in Answer : replies'[o] = <<a>>
    BY <1>5 DEF Advances
  <2> DEFINE response == [kind |-> kind, answer |-> a, passedOn |-> phase[o] = "stopRead"]
  <2>2. CheckForCompletion(r, response)
    BY <1>5, <2>1 DEF Complete
  <2>3. Counted(first, answers[r], Replied(r)) /\ Replied(r)[kind] = <<>> /\ answers[r] = <<>>
    <3>1. Counted(first, answers[r], Replied(r)) /\ Replied(r)[kind] = <<>>
      BY <1>1 DEF JointInv, ResponsesCounted, Replied
    <3> QED BY <3>1 DEF Counted
  <2>4. given[r][kind] = <<>> /\ given' = [given EXCEPT ![r][kind] = <<a>>]
    <3>1. given[r][kind] = <<>>
      BY <1>1 DEF given
    <3>2. ASSUME NEW q \in Request, NEW j \in Kind
          PROVE  (IF IsJoint(q)' THEN replies'[<<q, j>>] ELSE <<>>)
                 = IF q = r /\ j = kind THEN <<a>>
                   ELSE IF IsJoint(q) THEN replies[<<q, j>>] ELSE <<>>
      BY <1>2, <1>3, <2>1
    <3> QED BY <3>1, <3>2 DEF given
  <2>5. \A j \in Kind \ {kind} : given[r][j] = Replied(r)[j] /\ given'[r][j] = Replied(r)[j]
    BY <2>4 DEF given, Replied
  <2>6. CASE first = None
    <3>1. UNCHANGED answers
      BY <2>2, <2>6 DEF CheckForCompletion
    <3>2. \E j \in Kind \ {kind} : given[r][j] = <<>>
      <4>1. PICK j \in Kind : j # kind
        BY DEF Kind
      <4> QED BY <2>3, <2>5, <2>6, <4>1 DEF Counted
    <3>3. CommonAnswer!Give(r, kind, a)
      BY <2>4, <3>1, <3>2 DEF CommonAnswer!Give
    <3> QED BY <3>3 DEF CommonAnswer!Next, Answer
  <2>7. CASE first # None
    <3>1. answers' = [answers EXCEPT ![r] = <<MakeCommonResponse(first.answer, a)>>]
      BY <2>2, <2>3, <2>7 DEF CheckForCompletion
    <3>2. first \in Response /\ first.kind \in Kind \ {kind} /\ Replied(r)[first.kind] = <<first.answer>>
      <4>1. first \in Response /\ Replied(r)[first.kind] = <<first.answer>>
        BY <1>1, <2>3, <2>7 DEF Counted
      <4>2. <<first.answer>> # <<>>
        OBVIOUS
      <4> QED BY <2>3, <4>1, <4>2 DEF Response
    <3>3. \A j \in Kind \ {kind} : /\ j = first.kind
                                  /\ given[r][j] = <<first.answer>>
                                  /\ given'[r][j] = <<first.answer>>
      BY <2>5, <3>2 DEF Kind
    <3>4. <<first.answer>> # <<>> /\ given'[r][kind] = <<a>>
      BY <2>4 DEF given
    <3>5. CommonAnswer!Common(given'[r]) = MakeCommonResponse(first.answer, a)
      <4>1. (<<a>> = <<"ok">> <=> a = "ok") /\ (<<first.answer>> = <<"ok">> <=> first.answer = "ok")
        OBVIOUS
      <4>2. (\A j \in Kind : given'[r][j] = <<"ok">>) <=> a = "ok" /\ first.answer = "ok"
        BY <3>2, <3>3, <3>4, <4>1
      <4>3. first.answer \in {"ok", "error"} /\ a \in {"ok", "error"}
        BY <3>2 DEF Response, Answer
      <4> QED BY <4>2, <4>3 DEF CommonAnswer!Common, MakeCommonResponse
    <3>6. CommonAnswer!Give(r, kind, a)
      BY <2>4, <3>1, <3>3, <3>4, <3>5 DEF CommonAnswer!Give
    <3> QED BY <3>6 DEF CommonAnswer!Next, Answer
  <2> QED BY <1>1, <2>6, <2>7
<1> QED BY <1>4, <1>5

\* Every step is a half's answer, or shows nothing.
LEMMA JointNextGives ==
    JointInv /\ [JointNext]_jointVars => [CommonAnswer!Next]_(CommonAnswer!vars)
<1> SUFFICES ASSUME JointInv, [JointNext]_jointVars
             PROVE  CommonAnswer!Next \/ UNCHANGED <<given, answers>>
  BY DEF CommonAnswer!vars
<1>1. /\ \A q \in Request, j \in Kind : <<q, j>> \in Op
      /\ \A q \in Request : Carrier(q) \in Op /\ Carrier(q) = <<q, "Monitor">>
  BY CompletionAssumption DEF JointOp, Kind, Carrier
<1>2. CASE \/ UNCHANGED jointVars \/ Silent
           \/ \E r \in Request : Connect(r)
           \/ \E r \in Request, kind \in Kind : CommonResponseThrows(r, kind)
  <2>1. UNCHANGED <<replies, joint, answers>>
    BY <1>2 DEF jointVars, vars, Connect, Accept, CommonResponseThrows, Silent, ExitHandler,
                OnProcessExit, OnProcessExitError, TimerExpires, ProcessExits, OnInotifyUpdate,
                OnSocketCreated, OnSocketDeleted, NextEvent, Return, SocketAppears,
                SocketVanishes, SocketAbandoned
  <2> QED BY <2>1, NothingGiven DEF IsJoint
<1>3. ASSUME NEW r \in Request, NEW kind \in Kind, Half(r, kind)
      PROVE  CommonAnswer!Next \/ UNCHANGED <<given, answers>>
  <2>1. /\ IsJoint(r) /\ Complete(r, kind)
        /\ Dispatch(<<r, kind>>) \/ \E k : OnAdd(<<r, kind>>, k) \/ OnStop(<<r, kind>>, k)
                                           \/ StopThrows(<<r, kind>>, k)
    BY <1>3 DEF Half, HalfAdd, HalfStop, HalfStatus, TurnOf, Dispatch
  <2>2. Advances(<<r, kind>>) /\ phase[<<r, kind>>] = "accepted"
    BY <1>1, <2>1, DispatchAdvances
  <2> QED BY <2>1, <2>2, CompletionGives
<1>4. ASSUME NEW r \in Request, NEW kind \in Kind, ~IsJoint(r), Advances(<<r, kind>>),
             UNCHANGED <<joint, answers>>
      PROVE  UNCHANGED <<given, answers>>
  <2>1. \A q \in Request, j \in Kind : IsJoint(q) => replies'[<<q, j>>] = replies[<<q, j>>]
    BY <1>1, <1>4 DEF Advances
  <2> QED BY <1>4, <2>1, NothingGiven DEF IsJoint
<1>5. ASSUME NEW r \in Request, NEW kind \in Kind, Continue(r, kind)
      PROVE  CommonAnswer!Next \/ UNCHANGED <<given, answers>>
  <2>1. Advances(<<r, kind>>) /\ phase[<<r, kind>>] \in {"adding", "stopWrite", "stopRead"}
    BY <1>1, <1>5, AddTimerAdvances, StopAdvances DEF Continue
  <2>2. CASE IsJoint(r)
    BY <1>5, <2>1, <2>2, CompletionGives DEF Continue
  <2>3. CASE ~IsJoint(r)
    BY <1>4, <1>5, <2>1, <2>3 DEF Continue, Complete
  <2> QED BY <2>2, <2>3
<1>6. ASSUME NEW r \in Request, PlainCommand(r)
      PROVE  CommonAnswer!Next \/ UNCHANGED <<given, answers>>
  <2>1. Advances(Carrier(r)) /\ "Monitor" \in Kind
    BY <1>1, <1>6, DispatchAdvances DEF PlainCommand, Kind
  <2> QED BY <1>1, <1>4, <1>6, <2>1 DEF PlainCommand
<1>7. ASSUME NEW r \in Request, NEW cmd \in JointCommand, NEW c \in Class, Post(r, cmd, c)
      PROVE  CommonAnswer!Next \/ UNCHANGED <<given, answers>>
  <2>1. /\ ~IsJoint(r) /\ UNCHANGED <<replies, answers>>
        /\ \A q \in Request \ {r} : joint'[q] = joint[q]
    BY <1>7 DEF Post, JointInv, JointTyped
  <2>2. \A kind \in Kind : replies[<<r, kind>>] = <<>>
    BY <1>1, <1>7 DEF Post, Dispatched, JointInv, OneReply, SecondHalfWaits, Kind
  <2> QED BY <2>1, <2>2, NothingGiven DEF IsJoint
<1> QED BY <1>2, <1>3, <1>5, <1>6, <1>7 DEF JointNext, Start

\* Every behaviour of the composition gives the clients of joint commands a
\* CommonAnswer: how the halves are interleaved does not show.
THEOREM JointRefinesCommonAnswer == JointSpec => ImplementsCommonAnswer
<1>1. JointInit => CommonAnswer!Init
  BY DEF JointInit, CommonAnswer!Init, given, IsJoint
<1> QED BY <1>1, JointNextGives, JointInvariance, PTL
        DEF JointSpec, ImplementsCommonAnswer, CommonAnswer!Spec
==============================================================================
