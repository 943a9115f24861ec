--------------------------- MODULE ConnectionProofs ---------------------------
(***************************************************************************)
(* Proofs about Connection, for any number of connections.                 *)
(***************************************************************************)
EXTENDS Connection, TLAPS

-----------------------------------------------------------------------------
(* Types.                                                                  *)

\* Every variable keeps its type, whatever order completions and timeouts come in.
THEOREM TypeCorrect == Spec => []TypeOK
<1> USE DEF Mode, ClientState, ServerState, TimerState, Request, AnswerState
<1>1. Init => TypeOK
  BY DEF Init, TypeOK
<1>2. TypeOK /\ [Next]_vars => TypeOK'
  <2> SUFFICES ASSUME TypeOK, [Next]_vars PROVE TypeOK'
    OBVIOUS
  <2> USE DEF TypeOK, clientVars, serverVars, history
  <2>1. ASSUME NEW c \in Conn, Connect(c) \/ \E r \in Request \ {"nothing"} : Send(c, r)
        PROVE  TypeOK'
    BY <2>1 DEF Connect, Send
  <2>2. ASSUME NEW c \in Conn, ClientStep(c) PROVE TypeOK'
    BY <2>2 DEF ClientStep, ResponseReady, ResponseRead, Outcome, Cancelled, ClockExpires,
                ClientTimeout
  <2>3. ASSUME NEW c \in Conn, Accept(c) \/ CommandReady(c) PROVE TypeOK'
    BY <2>3 DEF Accept, CommandReady
  <2>4. ASSUME NEW c \in Conn, CommandRead(c) \/ ReadAborted(c) PROVE TypeOK'
    <3>1. CASE CommandRead(c)
      <4>1. Cancelled(timer[c]) \in TimerState
        BY DEF Cancelled
      <4>2. server' \in [Conn -> ServerState] /\ carried' \subseteq Conn
        BY <3>1 DEF CommandRead, Destroy
      <4>3. timer' \in [Conn -> TimerState] /\ open' \in [Conn -> BOOLEAN]
        BY <3>1, <4>1 DEF CommandRead, Destroy
      <4> QED BY <3>1, <4>2, <4>3 DEF CommandRead, Late
    <3>2. CASE ReadAborted(c)
      BY <3>2 DEF ReadAborted, Late, Destroy, Cancelled
    <3> QED BY <2>4, <3>1, <3>2
  <2>5. ASSUME NEW c \in Conn, TimerExpires(c) PROVE TypeOK'
    BY <2>5 DEF TimerExpires
  <2>6. ASSUME NEW c \in Conn, OnTimeoutAborted(c) \/ OnTimeout(c) PROVE TypeOK'
    BY <2>6 DEF OnTimeoutAborted, OnTimeout, Closed
  <2>7. ASSUME NEW c \in Conn, OnTimeoutDangling(c) PROVE TypeOK'
    BY <2>7 DEF OnTimeoutDangling, Closed
  <2>8. ASSUME NEW c \in Conn, Handler(c) \/ Written(c) PROVE TypeOK'
    <3>1. CASE Drop(c)
      BY <3>1 DEF Drop, Destroy, Cancelled
    <3>2. CASE \E a \in AnswerState \ {"nothing"} : Answer(c, a)
      BY <3>2 DEF Answer
    <3>3. CASE Written(c)
      BY <3>3 DEF Written, Destroy, Cancelled
    <3> QED BY <2>8, <3>1, <3>2, <3>3 DEF Handler
  <2>9. CASE UNCHANGED vars
    BY <2>9 DEF vars
  <2> QED
    BY <2>1, <2>2, <2>3, <2>4, <2>5, <2>6, <2>7, <2>8, <2>9 DEF Next, ReadStep, TimerStep
<1> QED BY <1>1, <1>2, PTL DEF Spec

-----------------------------------------------------------------------------
(* The inductive invariant.                                                *)

\* Once the read has completed no timer is left to expire; one that has expired
\* by then is known.
ReadEndsTimer ==
    \A c \in Conn : server[c] \in {"busy", "written", "destroyed"} =>
        /\ timer[c] # "armed"
        /\ timer[c] = "expired" => c \in late

\* A connection is closed under a read, which ends it, or by a late timeout.
OpenUnlessLate ==
    \A c \in Conn :
        /\ server[c] = "reading" => open[c]
        /\ server[c] \in {"ready", "busy", "written"} /\ ~open[c] => late # {}

LivesUnlessLate == mode # "up" => late # {}

\* A command reaches its handler once, and is answered once after that.
CarriedOnce ==
    \A c \in Conn :
        /\ server[c] \in {"none", "reading", "ready", "aborted"} =>
              c \notin carried /\ answer[c] = "nothing"
        /\ server[c] = "busy" => c \in carried /\ answer[c] = "nothing"

IInv ==
    /\ TypeOK
    /\ ReadEndsTimer
    /\ OpenUnlessLate
    /\ LivesUnlessLate
    /\ CarriedOnce

\* No step of a client touches the daemon's connections.
LEMMA ClientInv ==
    ASSUME IInv, UNCHANGED <<mode, serverVars>>
    PROVE  ReadEndsTimer' /\ OpenUnlessLate' /\ LivesUnlessLate' /\ CarriedOnce'
  BY DEF IInv, ReadEndsTimer, OpenUnlessLate, LivesUnlessLate, CarriedOnce, serverVars, history

\* The read and its end: what the timer was then is remembered.
LEMMA ReadInv ==
    ASSUME IInv, NEW c \in Conn, ReadStep(c)
    PROVE  ReadEndsTimer' /\ OpenUnlessLate' /\ LivesUnlessLate' /\ CarriedOnce'
<1> USE DEF IInv, TypeOK, ServerState, TimerState, ReadStep, history
<1>1. CASE Accept(c)
  BY <1>1 DEF Accept, ReadEndsTimer, OpenUnlessLate, LivesUnlessLate, CarriedOnce
<1>2. CASE CommandReady(c)
  BY <1>2 DEF CommandReady, ReadEndsTimer, OpenUnlessLate, LivesUnlessLate, CarriedOnce
<1>3. CASE CommandRead(c)
  BY <1>3 DEF CommandRead, Late, Destroy, Cancelled,
              ReadEndsTimer, OpenUnlessLate, LivesUnlessLate, CarriedOnce
<1>4. CASE ReadAborted(c)
  BY <1>4 DEF ReadAborted, Late, Destroy, Cancelled,
              ReadEndsTimer, OpenUnlessLate, LivesUnlessLate, CarriedOnce
<1> QED BY <1>1, <1>2, <1>3, <1>4

\* A timeout disturbs a connection that is busy, or gone, only if it was late.
LEMMA TimeoutInv ==
    ASSUME IInv, NEW c \in Conn, TimerExpires(c) \/ TimerStep(c)
    PROVE  ReadEndsTimer' /\ OpenUnlessLate' /\ LivesUnlessLate' /\ CarriedOnce'
<1> USE DEF IInv, TypeOK, ServerState, TimerState, TimerStep, history
<1>1. CASE TimerExpires(c)
  BY <1>1 DEF TimerExpires, ReadEndsTimer, OpenUnlessLate, LivesUnlessLate, CarriedOnce
<1>2. CASE OnTimeoutAborted(c)
  BY <1>2 DEF OnTimeoutAborted, ReadEndsTimer, OpenUnlessLate, LivesUnlessLate, CarriedOnce
<1>3. CASE OnTimeout(c)
  BY <1>3 DEF OnTimeout, Closed, ReadEndsTimer, OpenUnlessLate, LivesUnlessLate, CarriedOnce
<1>4. CASE OnTimeoutDangling(c)
  <2>1. late' # {}
    BY <1>4 DEF OnTimeoutDangling, ReadEndsTimer
  <2> QED
    BY <1>4, <2>1 DEF OnTimeoutDangling, Closed,
                      ReadEndsTimer, OpenUnlessLate, LivesUnlessLate, CarriedOnce
<1> QED BY <1>1, <1>2, <1>3, <1>4

\* A handler answers or drops the connection it has; a write to one that is closed
\* is the end, and was caused by a late timeout.
LEMMA AnswerInv ==
    ASSUME IInv, NEW c \in Conn, Handler(c) \/ Written(c)
    PROVE  ReadEndsTimer' /\ OpenUnlessLate' /\ LivesUnlessLate' /\ CarriedOnce'
<1> USE DEF IInv, TypeOK, ServerState, TimerState, AnswerState, history
<1>1. CASE Drop(c)
  BY <1>1 DEF Drop, Destroy, Cancelled, ReadEndsTimer, OpenUnlessLate, LivesUnlessLate,
              CarriedOnce
<1>2. CASE \E a \in AnswerState \ {"nothing"} : Answer(c, a)
  BY <1>2 DEF Answer, ReadEndsTimer, OpenUnlessLate, LivesUnlessLate, CarriedOnce
<1>3. CASE Written(c)
  BY <1>3 DEF Written, Destroy, Cancelled, ReadEndsTimer, OpenUnlessLate, LivesUnlessLate,
              CarriedOnce
<1> QED BY <1>1, <1>2, <1>3 DEF Handler

\* Every step keeps the invariant that ties timers, endpoints and answers together.
THEOREM Invariance == Spec => []IInv
<1>1. Init => IInv
  BY DEF Init, IInv, TypeOK, Mode, ClientState, ServerState, TimerState, Request, AnswerState,
         ReadEndsTimer, OpenUnlessLate, LivesUnlessLate, CarriedOnce
<1>2. IInv /\ TypeOK' /\ [Next]_vars => IInv'
  <2> SUFFICES ASSUME IInv, TypeOK', [Next]_vars PROVE IInv'
    OBVIOUS
  <2>1. ASSUME NEW c \in Conn,
               \/ Connect(c)
               \/ \E r \in Request \ {"nothing"} : Send(c, r)
               \/ ClientStep(c)
        PROVE  UNCHANGED <<mode, serverVars>>
    BY <2>1 DEF Connect, Send, ClientStep, ResponseReady, ResponseRead, ClockExpires,
                ClientTimeout
  <2>2. CASE UNCHANGED vars
    BY <2>2, ClientInv DEF IInv, vars, serverVars, history
  <2> QED BY <2>1, <2>2, ClientInv, ReadInv, TimeoutInv, AnswerInv DEF IInv, Next
<1> QED BY <1>1, <1>2, TypeCorrect, PTL DEF Spec

\* The daemon dies, or closes a connection it still has an answer for, only by a
\* timeout that had expired when the read completed (connection.cpp:47).
THEOREM Undisturbed == Spec => []OnlyLateTimeoutsDisturb
<1>1. IInv => OnlyLateTimeoutsDisturb
  BY DEF IInv, OpenUnlessLate, LivesUnlessLate, OnlyLateTimeoutsDisturb
<1> QED BY <1>1, Invariance, PTL

-----------------------------------------------------------------------------
(* Every read is timed.                                                    *)

\* A client's steps: the clock is armed with the read, and cancelled after it.
LEMMA ClientReadsTimed ==
    ASSUME TypeOK, ReadsAreTimed, NEW c \in Conn,
           \/ Connect(c)
           \/ \E r \in Request \ {"nothing"} : Send(c, r)
           \/ ClientStep(c)
    PROVE  ReadsAreTimed'
<1> USE DEF TypeOK, TimerState, serverVars, ReadsAreTimed
<1>1. CASE Connect(c)
  BY <1>1 DEF Connect
<1>2. CASE \E r \in Request \ {"nothing"} : Send(c, r)
  BY <1>2 DEF Send
<1>3. CASE ResponseReady(c)
  BY <1>3 DEF ResponseReady
<1>4. CASE ResponseRead(c)
  BY <1>4 DEF ResponseRead, Outcome, Cancelled
<1>5. CASE ClockExpires(c)
  BY <1>5 DEF ClockExpires
<1>6. CASE ClientTimeout(c)
  BY <1>6 DEF ClientTimeout
<1> QED BY <1>1, <1>2, <1>3, <1>4, <1>5, <1>6 DEF ClientStep

\* The daemon's steps: a timer ends by its read, or closes what is read from, even
\* when it is the dangling timer of another connection.
LEMMA DaemonReadsTimed ==
    ASSUME TypeOK, ReadsAreTimed, NEW c \in Conn,
           ReadStep(c) \/ TimerExpires(c) \/ TimerStep(c) \/ Handler(c) \/ Written(c)
    PROVE  ReadsAreTimed'
<1> USE DEF TypeOK, ServerState, TimerState, clientVars, ReadsAreTimed
<1>1. CASE Accept(c) \/ CommandReady(c)
  BY <1>1 DEF Accept, CommandReady
<1>2. CASE CommandRead(c)
  BY <1>2 DEF CommandRead, Destroy, Cancelled
<1>3. CASE ReadAborted(c)
  BY <1>3 DEF ReadAborted, Destroy, Cancelled
<1>4. CASE TimerExpires(c)
  BY <1>4 DEF TimerExpires
<1>5. CASE OnTimeoutAborted(c)
  BY <1>5 DEF OnTimeoutAborted
<1>6. CASE OnTimeout(c)
  BY <1>6 DEF OnTimeout, Closed
<1>7. CASE OnTimeoutDangling(c)
  BY <1>7 DEF OnTimeoutDangling, Closed
<1>8. CASE Drop(c)
  BY <1>8 DEF Drop, Destroy, Cancelled
<1>9. CASE \E a \in AnswerState \ {"nothing"} : Answer(c, a)
  BY <1>9 DEF Answer
<1>10. CASE Written(c)
  BY <1>10 DEF Written, Destroy, Cancelled
<1> QED
  BY <1>1, <1>2, <1>3, <1>4, <1>5, <1>6, <1>7, <1>8, <1>9, <1>10
     DEF ReadStep, TimerStep, Handler

\* Every read, at either end, has a timer that runs or has expired: what the release
\* of every connection rests on (connection.cpp:41, 98).
THEOREM EveryReadIsTimed == Spec => []ReadsAreTimed
<1>1. Init => ReadsAreTimed
  BY DEF Init, ReadsAreTimed
<1>2. TypeOK /\ ReadsAreTimed /\ [Next]_vars => ReadsAreTimed'
  <2>1. ASSUME TypeOK, ReadsAreTimed, UNCHANGED vars PROVE ReadsAreTimed'
    BY <2>1 DEF vars, ReadsAreTimed
  <2> QED BY <2>1, ClientReadsTimed, DaemonReadsTimed DEF Next
<1> QED BY <1>1, <1>2, TypeCorrect, PTL DEF Spec

-----------------------------------------------------------------------------
(* Refinement.                                                             *)

\* A client is told of nothing, of a failure, or of what its command came to.
LEMMA ClientRefines ==
    ASSUME IInv, NEW c \in Conn,
           \/ Connect(c)
           \/ \E r \in Request \ {"nothing"} : Send(c, r)
           \/ ClientStep(c)
    PROVE  [Exchange!Next]_<<verdict, told>>
<1> USE DEF IInv, TypeOK, ClientState, serverVars, history
<1>1. UNCHANGED verdict
  BY DEF Connect, Send, ClientStep, ResponseReady, ResponseRead, ClockExpires, ClientTimeout,
         verdict
<1>2. ASSUME NEW t \in {"ok", "error", "failed"}, told[c] = "nothing",
             t = "failed" \/ t = verdict[c], client' = [client EXCEPT ![c] = t]
      PROVE  Exchange!Tell(c, t)
  <2>1. told' = [told EXCEPT ![c] = t]
    BY <1>2 DEF told
  <2> QED BY <1>1, <1>2, <2>1 DEF Exchange!Tell, verdict, told
<1>3. ASSUME NEW s \in {"connected", "reading", "ready"}, told[c] = "nothing",
             client' = [client EXCEPT ![c] = s]
      PROVE  UNCHANGED told
  BY <1>3 DEF told
<1>4. CASE Connect(c)
  BY <1>1, <1>2, <1>3, <1>4 DEF Connect, told, Exchange!Next
<1>5. CASE \E r \in Request \ {"nothing"} : Send(c, r)
  BY <1>1, <1>2, <1>3, <1>5 DEF Send, told, Exchange!Next
<1>6. CASE ResponseReady(c)
  BY <1>1, <1>3, <1>6 DEF ResponseReady, told
<1>7. CASE ResponseRead(c)
  BY <1>2, <1>7 DEF ResponseRead, Outcome, told, verdict, Exchange!Next
<1>8. CASE ClockExpires(c)
  BY <1>1, <1>8 DEF ClockExpires, told
<1>9. CASE ClientTimeout(c)
  <2>1. CASE client' = client
    BY <1>1, <2>1 DEF told
  <2>2. CASE client' # client
    BY <1>2, <1>9, <2>2 DEF ClientTimeout, told, Exchange!Next
  <2> QED BY <2>1, <2>2
<1> QED BY <1>4, <1>5, <1>6, <1>7, <1>8, <1>9 DEF ClientStep

\* The daemon carries a command out, decides what came of it, or changes nothing.
LEMMA DaemonRefines ==
    ASSUME IInv, NEW c \in Conn,
           ReadStep(c) \/ TimerExpires(c) \/ TimerStep(c) \/ Handler(c) \/ Written(c)
    PROVE  [Exchange!Next]_<<verdict, told>>
<1> USE DEF IInv, TypeOK, AnswerState, clientVars, history
<1>1. UNCHANGED told
  BY DEF ReadStep, Accept, CommandReady, CommandRead, ReadAborted, TimerExpires, TimerStep,
         OnTimeoutAborted, OnTimeout, OnTimeoutDangling, Handler, Drop, Answer, Written, told
<1>2. CASE UNCHANGED <<answer, carried>>
  BY <1>1, <1>2 DEF verdict
<1>3. CASE CommandRead(c) /\ carried' # carried
  <2>1. server[c] = "ready" /\ carried' = carried \cup {c} /\ UNCHANGED answer
    BY <1>3 DEF CommandRead
  <2>2. verdict[c] = "none" /\ verdict' = [verdict EXCEPT ![c] = "pending"]
    BY <2>1 DEF CarriedOnce, verdict
  <2> QED BY <1>1, <2>2 DEF Exchange!Next, Exchange!CarryOut
<1>4. CASE \E a \in AnswerState \ {"nothing"} : Answer(c, a)
  <2>1. PICK a \in AnswerState \ {"nothing"} : Answer(c, a)
    BY <1>4
  <2>2. verdict[c] = "pending"
    BY <2>1 DEF Answer, CarriedOnce, verdict
  <2>3. CASE open[c] /\ a \in {"ok", "error"}
    <3>1. verdict' = [verdict EXCEPT ![c] = a]
      BY <2>1, <2>3 DEF Answer, verdict
    <3> QED BY <1>1, <2>2, <2>3, <3>1 DEF Exchange!Next, Exchange!Decide
  <2>4. CASE ~(open[c] /\ a \in {"ok", "error"})
    <3>1. UNCHANGED verdict
      BY <2>1, <2>2, <2>4 DEF Answer, CarriedOnce, verdict
    <3> QED BY <1>1, <3>1
  <2> QED BY <2>3, <2>4
<1> QED
  BY <1>2, <1>3, <1>4 DEF ReadStep, Accept, CommandReady, CommandRead, ReadAborted,
     TimerExpires, TimerStep, OnTimeoutAborted, OnTimeout, OnTimeoutDangling, Handler, Drop,
     Written

\* Two Connections and a handler do what an Exchange promises: a command is carried
\* out at most once, and the result its client is told is the one it came to.
THEOREM Refinement == Spec => ImplementsExchange
<1>1. Init => Exchange!Init
  BY DEF Init, Exchange!Init, verdict, told
<1>2. IInv /\ [Next]_vars => [Exchange!Next]_<<verdict, told>>
  <2> SUFFICES ASSUME IInv, [Next]_vars PROVE [Exchange!Next]_<<verdict, told>>
    OBVIOUS
  <2>1. CASE UNCHANGED vars
    BY <2>1 DEF vars, verdict, told
  <2> QED BY <2>1, ClientRefines, DaemonRefines DEF Next
<1>3. IInv /\ [Next]_vars => [Exchange!Next]_(Exchange!vars)
  BY <1>2 DEF Exchange!vars, verdict, told
<1> QED BY <1>1, <1>3, Invariance, PTL DEF Spec, ImplementsExchange, Exchange!Spec
==============================================================================
