----------------------- MODULE MonitorScraperCompletion -----------------------
(***************************************************************************)
(* The commands that work on a monitor and on the scraper of the same      *)
(* class at once (MM_ADD_MONITOR_SCRAPER, MM_STOP_MONITOR_SCRAPER,         *)
(* MM_GET_MONITOR_SCRAPER_STATUS), composed with the MonitorManager that   *)
(* carries them out.                                                       *)
(*                                                                         *)
(* Such a command is posted to the event loop as two operations of         *)
(* MonitorManager, one per kind.  Each calls checkForCompletion instead of *)
(* writing to the client; the second call writes the common answer.        *)
(***************************************************************************)
EXTENDS MonitorManager

CONSTANTS
    Request,   \* the clients' requests
    Class      \* class names

Kind == {"Monitor", "Scraper"}

\* What MonitorManager's keys and operations are here.
JointKey == Kind \X Class
JointOp == Request \X Kind

VARIABLES
    joint,   \* the joint command of a request, and its first response
    answers  \* the common answers written to a request's connection

jointVars == <<vars, joint, answers>>

JointCommand == {"add", "stop", "status"}

\* "passedOn": it is what a monitor or a scraper has answered to a stop.
Response == [kind : Kind, answer : Answer, passedOn : BOOLEAN]

Completion ==
    [command       : JointCommand \cup {None},
     class         : Class \cup {None},
     firstResponse : Response \cup {None}]   \* None: m_bothCompleted is false

ASSUME CompletionAssumption ==
    /\ Key = JointKey
    /\ Op = JointOp
    /\ None \notin JointCommand
    /\ None \notin Response

JointTypeOK ==
    /\ TypeOK
    /\ joint \in [Request -> Completion]
    /\ answers \in [Request -> Seq(Answer)]

JointInit ==
    /\ Init
    /\ joint = [r \in Request |->
                  [command |-> None, class |-> None, firstResponse |-> None]]
    /\ answers = [r \in Request |-> <<>>]

\* A request arrives on its first operation, the only one of a plain command.
Carrier(r) == <<r, "Monitor">>

IsJoint(r) == joint[r].command # None

Connect(r) ==
    /\ Accept(Carrier(r))
    /\ UNCHANGED <<joint, answers>>

PlainCommand(r) ==
    /\ ~IsJoint(r)
    /\ Dispatch(Carrier(r))
    /\ UNCHANGED <<joint, answers>>

\* create() and run(): both halves are posted.
Post(r, command, class) ==
    /\ ~IsJoint(r)
    /\ Dispatched(Carrier(r))
    /\ joint' = [joint EXCEPT ![r].command = command, ![r].class = class]
    /\ phase' = [phase EXCEPT ![<<r, "Scraper">>] = "accepted"]
    /\ UNCHANGED <<mode, stored, keyOf, replies, timer, proc, sock, events, answers>>

MakeCommonResponse(first, second) ==
    IF "error" \in {first, second} THEN "error" ELSE "ok"

\* Fault: the second response is stored like the first.
CheckForCompletionNever(r, response) ==
    /\ joint' = [joint EXCEPT ![r].firstResponse = response]
    /\ UNCHANGED answers

\* Fault: a first response that is an error is answered at once.
CheckForCompletionFailingFast(r, response) ==
    LET first == joint[r].firstResponse IN
    /\ joint' = [joint EXCEPT ![r].firstResponse = IF first = None THEN response ELSE first]
    /\ answers' = IF first = None /\ response.answer = "ok" THEN answers
                  ELSE [answers EXCEPT ![r] = <<IF first = None THEN "error" ELSE
                                 MakeCommonResponse(first.answer, response.answer)>>]

CheckForCompletion(r, response) ==
    LET first == joint[r].firstResponse IN
    IF first = None
    THEN /\ joint' = [joint EXCEPT ![r].firstResponse = response]
         /\ UNCHANGED answers
    ELSE /\ answers' = [answers EXCEPT
                          ![r] = Append(@, MakeCommonResponse(first.answer, response.answer))]
         /\ UNCHANGED joint

\* A step of one half: the answer it writes, if any, goes to the completion.
Complete(r, kind) ==
    LET o == <<r, kind>> IN
    IF IsJoint(r) /\ replies'[o] # replies[o]
    THEN CheckForCompletion(r, [kind     |-> kind,
                                answer   |-> replies'[o][Len(replies'[o])],
                                passedOn |-> phase[o] = "stopRead"])
    ELSE UNCHANGED <<joint, answers>>

\* Fault: the halves run in either order.
TurnOfAny(r, kind) == IsJoint(r)

\* The halves are posted one after the other, Monitor first.
TurnOf(r, kind) ==
    /\ IsJoint(r)
    /\ kind = "Scraper" => phase[<<r, "Monitor">>] # "accepted"

\* Fault: a half that finds its class in use is content with that.
HalfAddContented(r, kind) ==
    LET o == <<r, kind>>  k == <<kind, joint[r].class>> IN
    /\ TurnOf(r, kind)
    /\ joint[r].command = "add"
    /\ \/ ~CanAdd(k) /\ OnPing(o)
       \/ CommandThrows(o)
       \/ OnAdd(o, k)
    /\ Complete(r, kind)

HalfAdd(r, kind) ==
    LET o == <<r, kind>> IN
    /\ TurnOf(r, kind)
    /\ joint[r].command = "add"
    /\ \/ AddRefused(o)
       \/ CommandThrows(o)
       \/ OnAdd(o, <<kind, joint[r].class>>)
    /\ Complete(r, kind)

HalfStop(r, kind) ==
    LET o == <<r, kind>>  k == <<kind, joint[r].class>> IN
    /\ TurnOf(r, kind)
    /\ joint[r].command = "stop"
    /\ \/ StopRefused(o)
       \/ CommandThrows(o)
       \/ OnStop(o, k)
       \/ StopThrows(o, k)
    /\ Complete(r, kind)

HalfStatus(r, kind) ==
    /\ TurnOf(r, kind)
    /\ joint[r].command = "status"
    /\ OnGetStatus(<<r, kind>>)
    /\ Complete(r, kind)

\* What an add or a stop still does, after its dispatch, towards its answer.
Continue(r, kind) ==
    /\ AddTimer(<<r, kind>>) \/ StopCompletion(<<r, kind>>)
    /\ Complete(r, kind)

\* makeCommonResponse looks up the names of both errors; a monitor may have
\* answered with a code that has none, and here nobody catches what is thrown.
CommonResponseThrows(r, kind) ==
    LET first == joint[r].firstResponse  o == <<r, kind>> IN
    /\ Running
    /\ TurnOf(r, kind)
    /\ joint[r].command = "stop"
    /\ first # None
    /\ \/ phase[o] = "stopRead"
       \/ /\ phase[o] \in {"accepted", "stopWrite"}
          /\ first.passedOn
          /\ first.answer = "error"
    /\ mode' = "uncaught"
    /\ UNCHANGED <<stored, phase, keyOf, replies, timer, proc, sock, events, joint, answers>>

\* What happens without an answer to anybody.
Silent ==
    /\ \/ \E o \in Op : ExitHandler(o) \/ TimerExpires(o) \/ ProcessExits(o)
       \/ OnInotifyUpdate
       \/ Return
       \/ \E k \in Key : SocketAppears(k) \/ SocketVanishes(k) \/ SocketAbandoned(k)
    /\ UNCHANGED <<joint, answers>>

Half(r, kind) == HalfAdd(r, kind) \/ HalfStop(r, kind) \/ HalfStatus(r, kind)

Start(r) == PlainCommand(r) \/ \E cmd \in JointCommand, c \in Class : Post(r, cmd, c)

JointNext ==
    \/ \E r \in Request :
         \/ Connect(r)
         \/ Start(r)
         \/ \E kind \in Kind : Half(r, kind) \/ Continue(r, kind) \/ CommonResponseThrows(r, kind)
    \/ Silent

JointSpec == JointInit /\ [][JointNext]_jointVars

\* The fairness of MonitorManager, for the steps of the composition.
JointFairness ==
    /\ \A r \in Request :
         /\ WF_jointVars(Start(r))
         /\ \A kind \in Kind :
              /\ WF_jointVars(Half(r, kind))
              /\ WF_jointVars(Continue(r, kind))
              /\ WF_jointVars(TimerExpires(<<r, kind>>) /\ UNCHANGED <<joint, answers>>)

FairJointSpec == JointSpec /\ JointFairness

-----------------------------------------------------------------------------
\* A joint command is answered at most once, and not before both of its halves
\* have answered, each of them once.
AnsweredAfterBoth ==
    \A r \in Request :
        /\ Len(answers[r]) <= 1
        /\ answers[r] # <<>> => \A kind \in Kind : Len(replies[<<r, kind>>]) = 1

\* The common answer is OK exactly when both halves' are, in whatever order, and
\* however far apart, they came.
AnswerIsCommon ==
    \A r \in Request : answers[r] # <<>> =>
        (answers[r] = <<"ok">> <=> \A kind \in Kind : replies[<<r, kind>>] = <<"ok">>)

\* onGetMonitorScraperStatus labels the first response "monitors" and the second
\* "scrapers": for a status the first is the monitors' own.
StatusInOrder ==
    \A r \in Request :
        joint[r].command = "status" /\ joint[r].firstResponse # None =>
            joint[r].firstResponse.kind = "Monitor"

\* A joint add or stop that is answered with OK was carried out under its class in
\* both registries: neither half stands in for the other, or works on its key.
OkMeansBothCarriedOut ==
    \A r \in Request : joint[r].command \in {"add", "stop"} /\ answers[r] = <<"ok">> =>
        \A kind \in Kind : LET o == <<r, kind>> IN
            /\ keyOf[o] = <<kind, joint[r].class>>
            /\ joint[r].command = "add" <=> Launches(o)

\* A half that a handler is still to come for.
InProgress(o) ==
    \/ phase[o] \in {"accepted", "stopWrite", "stopRead"}
    \/ phase[o] = "adding" /\ timer[o] # "none"

EndsUnanswered(o) == phase[o] = "done" /\ replies[o] = <<>>

\* No joint command is forgotten: while it is unanswered, a handler is still to
\* come for one of its halves, or one has ended without an answer (a dropped add).
JointIsDriven ==
    Running => \A r \in Request : IsJoint(r) /\ answers[r] = <<>> =>
        \E kind \in Kind : InProgress(<<r, kind>>) \/ EndsUnanswered(<<r, kind>>)

\* Every joint command is answered, unless the daemon dies or one of its halves
\* ends without an answer: the client then waits in vain.
JointCompletes ==
    \A r \in Request : IsJoint(r) ~>
        \/ answers[r] # <<>>
        \/ Crashed
        \/ \E kind \in Kind : EndsUnanswered(<<r, kind>>)

-----------------------------------------------------------------------------
(* The abstract specification.                                             *)

given == [r \in Request |->
             [kind \in Kind |-> IF IsJoint(r) THEN replies[<<r, kind>>] ELSE <<>>]]

CommonAnswer == INSTANCE CommonAnswer WITH given <- given, told <- answers

\* However the halves of joint commands are interleaved, with each other and with
\* what else the daemon does, their clients get a CommonAnswer.
ImplementsCommonAnswer == CommonAnswer!Spec
==============================================================================
