------------------------------ MODULE Connection ------------------------------
(***************************************************************************)
(* One command over a Unix socket: the Connection objects at both ends,    *)
(* their timers, and the daemon's handler in between.  The client is the   *)
(* command line client or stopmm; the daemon's end is that of UnixServer.  *)
(*                                                                         *)
(* A step is one handler of an event loop, or one completion that becomes  *)
(* ready: a completion that is ready waits in the loop's queue, where      *)
(* neither cancel() nor close() can change it any more.                    *)
(***************************************************************************)
EXTENDS Naturals

CONSTANT Conn   \* connections, each with its client

VARIABLES
    mode,     \* whether the daemon lives
    client,   \* where the client is
    clock,    \* the timer of the client's Connection
    request,  \* what the client has put on the stream, with its end
    server,   \* where the daemon's Connection is
    open,     \* p_endpoint of the daemon's Connection is open
    timer,    \* its m_timeout
    answer,   \* what the daemon wrote
    carried,  \* history: commands that reached their handler
    late      \* history: timeouts that expired before, and were or are to be
              \* handled after, the completion of the read they are for

vars == <<mode, client, clock, request, server, open, timer, answer, carried, late>>

\* "corrupt": memory that was freed has been written to.
Mode == {"up", "uncaught", "corrupt"}

\* "ready": the completion of the read is in the queue.
ClientState == {"idle", "connected", "reading", "ready", "ok", "error", "failed"}

\* "aborted": the read's completion is in the queue with operation_aborted;
\* "busy": the command's handler has the connection; "written": the completion
\* of the write is in the queue; "destroyed": the last shared_ptr is gone.
ServerState ==
    {"none", "reading", "ready", "aborted", "busy", "written", "destroyed"}

\* An "expired" or "aborted" wait has its handler in the queue.
TimerState == {"none", "armed", "expired", "aborted"}

\* A stream that ends without a command that parses, or holds more than the
\* 1024 bytes of the buffer, is "garbage" to its reader.
Request == {"nothing", "command", "garbage"}
AnswerState == {"nothing", "ok", "error", "garbage"}

TypeOK ==
    /\ mode \in Mode
    /\ client \in [Conn -> ClientState]
    /\ clock \in [Conn -> TimerState]
    /\ request \in [Conn -> Request]
    /\ server \in [Conn -> ServerState]
    /\ open \in [Conn -> BOOLEAN]
    /\ timer \in [Conn -> TimerState]
    /\ answer \in [Conn -> AnswerState]
    /\ carried \subseteq Conn
    /\ late \subseteq Conn

Init ==
    /\ mode = "up"
    /\ client = [c \in Conn |-> "idle"]
    /\ clock = [c \in Conn |-> "none"]
    /\ request = [c \in Conn |-> "nothing"]
    /\ server = [c \in Conn |-> "none"]
    /\ open = [c \in Conn |-> FALSE]
    /\ timer = [c \in Conn |-> "none"]
    /\ answer = [c \in Conn |-> "nothing"]
    /\ carried = {}
    /\ late = {}

clientVars == <<client, clock, request>>
history == <<carried, late>>
serverVars == <<server, open, timer, answer, history>>

\* cancel(): too late for a wait that is over.
Cancelled(t) == IF t = "armed" THEN "aborted" ELSE t

-----------------------------------------------------------------------------
(* The client.                                                             *)

Connect(c) ==
    /\ client[c] = "idle"
    /\ client' = [client EXCEPT ![c] = IF mode = "up" THEN "connected" ELSE "failed"]
    /\ UNCHANGED <<mode, clock, request, serverVars>>

\* asyncWriteCmd, the shutdown of the sending side, and asyncReadResponse.  The
\* write fails when the daemon has closed the connection.
Send(c, content) ==
    /\ client[c] = "connected"
    /\ request' = [request EXCEPT ![c] = content]
    /\ IF mode = "up" /\ (server[c] = "none" \/ open[c])
       THEN /\ client' = [client EXCEPT ![c] = "reading"]
            /\ clock' = [clock EXCEPT ![c] = "armed"]
       ELSE /\ client' = [client EXCEPT ![c] = "failed"]
            /\ UNCHANGED clock
    /\ UNCHANGED <<mode, serverVars>>

\* The daemon's end of the stream is closed, or half of it after an answer.
Ended(c) == mode # "up" \/ server[c] = "destroyed" \/ (server[c] # "none" /\ ~open[c])

ResponseReady(c) ==
    /\ client[c] = "reading"
    /\ Ended(c)
    /\ client' = [client EXCEPT ![c] = "ready"]
    /\ UNCHANGED <<mode, clock, request, serverVars>>

\* Fault: the error code is not looked at, and a default Response is OK.
OutcomeUnchecked(a) == IF a = "error" THEN "error" ELSE "ok"

\* What is printed: a Response that does not parse comes with an error code.
Outcome(a) == IF a \in {"ok", "error"} THEN a ELSE "failed"

\* Fault: an answer that does not parse is passed over.
ResponseReadRetrying(c) ==
    /\ client[c] = "ready"
    /\ client' = [client EXCEPT ![c] = IF Outcome(answer[c]) = "failed" THEN "reading"
                                      ELSE Outcome(answer[c])]
    /\ clock' = [clock EXCEPT ![c] = Cancelled(@)]
    /\ UNCHANGED <<mode, request, serverVars>>

ResponseRead(c) ==
    /\ client[c] = "ready"
    /\ client' = [client EXCEPT ![c] = Outcome(answer[c])]
    /\ clock' = [clock EXCEPT ![c] = Cancelled(@)]
    /\ UNCHANGED <<mode, request, serverVars>>

ClockExpires(c) ==
    /\ clock[c] = "armed"
    /\ clock' = [clock EXCEPT ![c] = "expired"]
    /\ UNCHANGED <<mode, client, request, serverVars>>

\* onTimeout: without an error it closes the connection, and a read that is
\* under way ends with operation_aborted.  main() holds the connection.
ClientTimeout(c) ==
    /\ clock[c] \in {"expired", "aborted"}
    /\ clock' = [clock EXCEPT ![c] = "none"]
    /\ client' = IF clock[c] = "expired" /\ client[c] = "reading"
                 THEN [client EXCEPT ![c] = "failed"] ELSE client
    /\ UNCHANGED <<mode, request, serverVars>>

-----------------------------------------------------------------------------
(* The daemon.                                                             *)

\* Fault: the timer is armed when the first bytes come.
AcceptUntimed(c) ==
    /\ mode = "up"
    /\ client[c] # "idle"
    /\ server[c] = "none"
    /\ server' = [server EXCEPT ![c] = "reading"]
    /\ open' = [open EXCEPT ![c] = TRUE]
    /\ UNCHANGED <<mode, clientVars, timer, answer, history>>

\* onConnect and asyncReadCmd.
Accept(c) ==
    /\ mode = "up"
    /\ client[c] # "idle"
    /\ server[c] = "none"
    /\ server' = [server EXCEPT ![c] = "reading"]
    /\ open' = [open EXCEPT ![c] = TRUE]
    /\ timer' = [timer EXCEPT ![c] = "armed"]
    /\ UNCHANGED <<mode, clientVars, answer, history>>

\* The stream has ended, or filled the buffer; a client that leaves ends it.
CommandReady(c) ==
    /\ mode = "up"
    /\ server[c] = "reading"
    /\ request[c] # "nothing" \/ client[c] = "failed"
    /\ server' = [server EXCEPT ![c] = "ready"]
    /\ UNCHANGED <<mode, clientVars, open, timer, answer, history>>

TimerExpires(c) ==
    /\ mode = "up"
    /\ timer[c] = "armed"
    /\ timer' = [timer EXCEPT ![c] = "expired"]
    /\ UNCHANGED <<mode, clientVars, server, open, answer, history>>

Late(c) == late' = IF timer[c] = "expired" THEN late \cup {c} ELSE late

\* The destructor closes the endpoint and cancels the timer.
Destroy(c) ==
    /\ server' = [server EXCEPT ![c] = "destroyed"]
    /\ open' = [open EXCEPT ![c] = FALSE]
    /\ timer' = [timer EXCEPT ![c] = Cancelled(@)]

\* Fault: the timer runs on while the command is carried out.
CommandReadTimed(c) ==
    /\ mode = "up"
    /\ server[c] = "ready"
    /\ Late(c)
    /\ IF request[c] = "command"
       THEN /\ server' = [server EXCEPT ![c] = "busy"]
            /\ carried' = carried \cup {c}
            /\ UNCHANGED <<open, timer>>
       ELSE Destroy(c) /\ UNCHANGED carried
    /\ UNCHANGED <<mode, clientVars, answer>>

\* The read's handler: the timer is cancelled, a command goes to its handler,
\* and what does not parse is dropped without an answer.
CommandRead(c) ==
    /\ mode = "up"
    /\ server[c] = "ready"
    /\ Late(c)
    /\ IF request[c] = "command"
       THEN /\ server' = [server EXCEPT ![c] = "busy"]
            /\ carried' = carried \cup {c}
            /\ timer' = [timer EXCEPT ![c] = Cancelled(@)]
            /\ UNCHANGED open
       ELSE Destroy(c) /\ UNCHANGED carried
    /\ UNCHANGED <<mode, clientVars, answer>>

ReadAborted(c) ==
    /\ mode = "up"
    /\ server[c] = "aborted"
    /\ Destroy(c)
    /\ Late(c)
    /\ UNCHANGED <<mode, clientVars, answer, carried>>

\* close() aborts a read that is under way.
Closed(c) ==
    /\ open' = [open EXCEPT ![c] = FALSE]
    /\ server' = IF server[c] = "reading" THEN [server EXCEPT ![c] = "aborted"] ELSE server

\* A wait that was cancelled calls onTimeout too, which then does nothing.
OnTimeoutAborted(c) ==
    /\ mode = "up"
    /\ timer[c] = "aborted"
    /\ timer' = [timer EXCEPT ![c] = "none"]
    /\ UNCHANGED <<mode, clientVars, server, open, answer, history>>

OnTimeout(c) ==
    /\ mode = "up"
    /\ timer[c] = "expired"
    /\ server[c] # "destroyed"
    /\ timer' = [timer EXCEPT ![c] = "none"]
    /\ Closed(c)
    /\ late' = IF server[c] = "ready" THEN late \cup {c} ELSE late
    /\ UNCHANGED <<mode, clientVars, answer, carried>>

\* The raw pointer of onTimeout outlives its Connection: nothing may come of it,
\* the memory may belong to another Connection by now, or to anything.
OnTimeoutDangling(c) ==
    /\ mode = "up"
    /\ timer[c] = "expired"
    /\ server[c] = "destroyed"
    /\ timer' = [timer EXCEPT ![c] = "none"]
    /\ \/ UNCHANGED <<mode, server, open>>
       \/ mode' = "corrupt" /\ UNCHANGED <<server, open>>
       \/ \E d \in Conn : open[d] /\ Closed(d) /\ UNCHANGED mode
    /\ UNCHANGED <<clientVars, answer, history>>

\* asyncWriteResponse: the socket takes the whole of it at once, or the endpoint
\* was closed and the write fails.
Answer(c, a) ==
    /\ mode = "up"
    /\ server[c] = "busy"
    /\ server' = [server EXCEPT ![c] = "written"]
    /\ answer' = IF open[c] THEN [answer EXCEPT ![c] = a] ELSE answer
    /\ UNCHANGED <<mode, clientVars, open, timer, history>>

\* The handler lets the connection go without an answer.
Drop(c) ==
    /\ mode = "up"
    /\ server[c] = "busy"
    /\ Destroy(c)
    /\ UNCHANGED <<mode, clientVars, answer, history>>

\* The write's handler: shutdown() throws if the endpoint is not open.
Written(c) ==
    /\ mode = "up"
    /\ server[c] = "written"
    /\ IF open[c]
       THEN Destroy(c) /\ UNCHANGED mode
       ELSE mode' = "uncaught" /\ UNCHANGED <<server, open, timer>>
    /\ UNCHANGED <<clientVars, answer, history>>

-----------------------------------------------------------------------------
ClientStep(c) == ResponseReady(c) \/ ResponseRead(c) \/ ClockExpires(c) \/ ClientTimeout(c)

ReadStep(c) == Accept(c) \/ CommandReady(c) \/ CommandRead(c) \/ ReadAborted(c)

TimerStep(c) == OnTimeoutAborted(c) \/ OnTimeout(c) \/ OnTimeoutDangling(c)

Handler(c) == Drop(c) \/ \E a \in AnswerState \ {"nothing"} : Answer(c, a)

Next == \E c \in Conn :
    \/ Connect(c)
    \/ \E content \in Request \ {"nothing"} : Send(c, content)
    \/ ClientStep(c)
    \/ ReadStep(c)
    \/ TimerExpires(c)
    \/ TimerStep(c)
    \/ Handler(c)
    \/ Written(c)

Spec == Init /\ [][Next]_vars

\* Event loops run what is ready, armed timers expire, a command's handler comes
\* to an end.  Nothing makes a client connect or send.
Fairness == \A c \in Conn :
    /\ WF_vars(ClientStep(c))
    /\ WF_vars(ReadStep(c))
    /\ WF_vars(TimerExpires(c))
    /\ WF_vars(TimerStep(c))
    /\ WF_vars(Handler(c))
    /\ WF_vars(Written(c))

FairSpec == Spec /\ Fairness

-----------------------------------------------------------------------------
(* Safety.                                                                 *)

\* Whatever a client does, send nothing, or garbage, or leave before its answer
\* comes, the daemon lives and keeps a connection open while its command is
\* carried out and answered, unless a timeout that had expired when its read
\* completed could not be cancelled (connection.cpp:47).
OnlyLateTimeoutsDisturb ==
    late = {} =>
        /\ mode = "up"
        /\ \A c \in Conn : server[c] \in {"busy", "written"} => open[c]

\* Nobody reads without an end to it: whoever waits for the other side, at either
\* end, has a timer that runs, or one that has expired and will be heard of; and
\* what the daemon reads from is open, for that timer to close.
ReadsAreTimed ==
    /\ \A c \in Conn : client[c] = "reading" => clock[c] \in {"armed", "expired"}
    /\ mode = "up" =>
          \A c \in Conn : server[c] = "reading" => open[c] /\ timer[c] \in {"armed", "expired"}

-----------------------------------------------------------------------------
(* Liveness, under Fairness.                                               *)

\* The daemon lets go of every connection, also of one whose client is silent.
EveryConnectionIsReleased ==
    \A c \in Conn : server[c] = "reading" ~> server[c] = "destroyed" \/ mode # "up"

\* A client that has sent its command is told something.
EveryClientIsTold ==
    \A c \in Conn : client[c] = "reading" ~> client[c] \in {"ok", "error", "failed"}

-----------------------------------------------------------------------------
(* The abstract specification.                                             *)

\* An answer that is cut, or does not parse, leaves the command undecided.
verdict == [c \in Conn |-> IF answer[c] \in {"ok", "error"} THEN answer[c]
                           ELSE IF c \in carried THEN "pending" ELSE "none"]

told == [c \in Conn |-> IF client[c] \in {"ok", "error", "failed"} THEN client[c]
                        ELSE "nothing"]

Exchange == INSTANCE Exchange WITH verdict <- verdict, told <- told

\* Whatever the order of completions and timeouts at both ends, and whatever is cut
\* or closed, a client and the daemon behave as an Exchange.
ImplementsExchange == Exchange!Spec
==============================================================================
