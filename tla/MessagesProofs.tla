---------------------------- MODULE MessagesProofs ----------------------------
(***************************************************************************)
(* Proofs about Messages, for any number of commands and errors and any    *)
(* width of an int: what is converted to JSON, cut, converted back and     *)
(* converted again is what it was, or does not parse.                      *)
(***************************************************************************)
EXTENDS Messages, TLAPS

\* What the client has sent: the code of its argument, in a document of its own.
CommandSent ==
    stage \in {"sending", "handling"} =>
        /\ sentCmd \in Cmd
        /\ argument.value \in StoiRange
        /\ sentCmd.cmd = Converted(argument.value)
        /\ stage = "sending" => wire = ToJson(sentCmd)

\* Until the exchange comes to its end there is neither an answer nor an outcome.
NotAnswered ==
    /\ stage \in {"launched", "sending", "handling"} => answered = Nothing
    /\ stage # "over" => outcome = "pending"

\* What is on its way back: nothing, or the answer's code, converted once, which is
\* one of ERRORS unless a monitor made it.
AnswerKnown ==
    stage = "answering" =>
        \/ wire = Garbage /\ answered = Nothing
        \/ /\ answered \in Json
           /\ wire.code.type = "number"
           /\ wire.code.value = IF Fails([code |-> answered]) THEN OK ELSE Converted(answered.value)
           /\ gotCmd.cmd \in Stop \/ answered.value \in ERRORS

\* The invariant that is inductive.
IInv ==
    /\ argument \in Argument
    /\ CommandSent
    /\ NotAnswered
    /\ AnswerKnown
    /\ HandledAsSent
    /\ ErrorIsNotShownAsOk
    /\ DiesOnlyOfStrangers

-----------------------------------------------------------------------------
(* Conversions.                                                            *)

\* A code that is in range stays, a negative integer goes to the upper half.
LEMMA Conversion ==
    /\ \A i \in Int : Converted(i) \in Code
    /\ \A i \in Code : Converted(i) = i
    /\ \A i \in StoiRange : i < 0 => Converted(i) >= IntBound
    /\ \A i \in StoiRange : i >= 0 => Converted(i) = i
<1> DEFINE M == 2 * IntBound
<1>1. IntBound \in Nat /\ IntBound > 0 /\ M \in Nat \ {0}
  BY MessagesAssumption
<1>2. \A i \in Int : i % M \in 0..(M - 1)
  BY <1>1
<1>3. \A i \in 0..(M - 1) : i % M = i
  <2> SUFFICES ASSUME NEW i \in 0..(M - 1) PROVE i % M = i
    OBVIOUS
  <2> HIDE DEF M
  <2> QED BY <1>1
<1>4. \A i \in StoiRange : i < 0 => i % M >= IntBound
  <2> SUFFICES ASSUME NEW i \in StoiRange, i < 0 PROVE i % M >= IntBound
    OBVIOUS
  <2>1. i \in Int /\ i >= 0 - IntBound /\ i + M \in 0..(M - 1) /\ i + M >= IntBound
    BY <1>1 DEF StoiRange
  <2>2. i % M = i + M
    <3> HIDE DEF M
    <3> QED BY <1>1, <2>1
  <2> QED BY <2>1, <2>2
<1>5. \A i \in StoiRange : i >= 0 => i \in 0..(M - 1)
  BY <1>1 DEF StoiRange
<1> QED BY <1>2, <1>3, <1>4, <1>5 DEF Converted, Code

\* The program's own codes are within what an int can hold.
LEMMA OwnCodes ==
    /\ COMMANDS \subseteq StoiRange /\ ERRORS \subseteq StoiRange
    /\ \A i \in COMMANDS \cup ERRORS : i >= 0 /\ i < IntBound /\ Converted(i) = i
<1>1. \A i \in COMMANDS \cup ERRORS : i \in StoiRange /\ i >= 0 /\ i < IntBound
  BY MessagesAssumption DEF COMMANDS, ERRORS, PING, OK, StoiRange
<1> QED BY <1>1, Conversion

\* A message that is read back whole is the one that was written.
LEMMA RoundTrip ==
    ASSUME NEW message \in Cmd, NEW default, ~Fails(Received(ToJson(message)))
    PROVE  FromJson(Received(ToJson(message)), default) = message
<1>1. Received(ToJson(message)) = ToJson(message)
  BY DEF Received, Cut, Garbage, Nothing, Fails
<1>2. Converted(message.cmd) = message.cmd
  BY Conversion DEF Cmd
<1> QED BY <1>1, <1>2 DEF FromJson, ToJson, Fails, Cmd

-----------------------------------------------------------------------------
(* The steps.                                                              *)

\* Nothing has been sent or answered.
LEMMA InitInv == Init => IInv
  BY DEF Init, IInv, CommandSent, NotAnswered, AnswerKnown, HandledAsSent, ErrorIsNotShownAsOk,
         DiesOnlyOfStrangers

\* A client that ends before it has sent anything.
LEMMA EndInv ==
    ASSUME IInv, Usage \/ ListCommands \/ NoCommand \/ TooLarge \/ BadOptions \/ SendThrows
    PROVE  IInv'
<1>1. /\ stage' = "over" /\ outcome' # "ok" /\ UNCHANGED <<argument, options, gotCmd, answered>>
      /\ outcome' = "uncaught" =>
            \/ argument.value \notin StoiRange
            \/ options = "bytes" /\ argument.form # "--list-cmd"
  BY DEF Usage, ListCommands, NoCommand, TooLarge, BadOptions, SendThrows, Exit, Launched,
         HasCommand, NamedCommand
<1> QED BY <1>1 DEF IInv, CommandSent, NotAnswered, AnswerKnown, HandledAsSent, ErrorIsNotShownAsOk,
                    DiesOnlyOfStrangers

\* The code of the argument is sent.
LEMMA SendInv ==
    ASSUME IInv, SendCommand
    PROVE  IInv'
<1>1. /\ stage = "launched" /\ stage' = "sending" /\ wire' = ToJson(sentCmd')
      /\ UNCHANGED <<argument, options, gotCmd, answered, outcome>>
  BY DEF SendCommand, HasCommand, Launched
<1>2. argument.value \in StoiRange
  <2>1. CASE argument.form = "integer"
    BY <2>1 DEF SendCommand, HasCommand, Launched
  <2>2. CASE argument.form # "integer"
    <3>1. argument.form \in {"name", "stopmm"}
      BY <2>2 DEF SendCommand, HasCommand, Launched
    <3>2. argument.value \in COMMANDS
      BY <3>1, MessagesAssumption DEF IInv, Argument, NamedCommand, COMMANDS, PING
    <3> QED BY <3>2, OwnCodes
  <2> QED BY <2>1, <2>2
<1>3. argument.value \in Int
  BY <1>2, MessagesAssumption DEF StoiRange
<1>4. sentCmd' \in Cmd /\ sentCmd'.cmd = Converted(argument.value)
  <2>1. PICK payload \in Payload \cup {"null"} :
           sentCmd' = [cmd |-> Converted(argument.value), payload |-> payload]
    BY DEF SendCommand
  <2> QED BY <1>3, <2>1, Conversion DEF Cmd
<1> QED BY <1>1, <1>2, <1>4 DEF IInv, CommandSent, NotAnswered, AnswerKnown, HandledAsSent,
                                ErrorIsNotShownAsOk, DiesOnlyOfStrangers

\* The daemon reads what was sent, or drops it.
LEMMA ReceiveInv ==
    ASSUME IInv, ReceiveCommand
    PROVE  IInv'
<1>1. /\ stage = "sending" /\ wire' = Garbage
      /\ stage' = IF Fails(Received(wire)) THEN "answering" ELSE "handling"
      /\ gotCmd' = FromJson(Received(wire), PING)
      /\ UNCHANGED <<argument, options, sentCmd, answered, outcome>>
  BY DEF ReceiveCommand
<1>2. sentCmd \in Cmd /\ wire = ToJson(sentCmd)
  BY <1>1 DEF IInv, CommandSent
<1>3. ~Fails(Received(wire)) => gotCmd' = sentCmd
  BY <1>1, <1>2, RoundTrip
<1> QED
  BY <1>1, <1>2, <1>3 DEF IInv, CommandSent, NotAnswered, AnswerKnown, HandledAsSent, ErrorIsNotShownAsOk,
                          DiesOnlyOfStrangers

\* The daemon or a monitor answers, with a code that is converted once.
LEMMA AnswerInv ==
    ASSUME IInv, CarryOut \/ PassOn \/ Unrecognised
    PROVE  IInv'
<1>1. PICK code \in Json : Respond(code) /\ (gotCmd.cmd \in Stop \/ code.value \in ERRORS)
  <2>1. UNRECOGNIZED_COMMAND \in ERRORS /\ ERRORS \subseteq Integer
    BY MessagesAssumption DEF ERRORS, OK, Integer
  <2>2. \A i \in ERRORS : [type |-> "number", value |-> i] \in Json
    BY <2>1 DEF Json
  <2> QED BY <2>1, <2>2 DEF CarryOut, PassOn, Unrecognised
<1>2. /\ stage = "handling" /\ stage' = "answering" /\ answered' = code
      /\ UNCHANGED <<argument, options, sentCmd, gotCmd, outcome>>
  BY <1>1 DEF Respond
<1>3. PICK payload : wire' = ToJson([cmd |-> FromJson([Garbage EXCEPT !.code = code], OK).cmd,
                                     payload |-> payload])
  BY <1>1 DEF Respond
<1>4. FromJson([Garbage EXCEPT !.code = code], OK).cmd
      = IF Fails([code |-> code]) THEN OK ELSE Converted(code.value)
  BY DEF FromJson, Fails, Garbage
<1>5. /\ wire'.code.type = "number"
      /\ wire'.code.value = IF Fails([code |-> code]) THEN OK ELSE Converted(code.value)
  BY <1>3, <1>4 DEF ToJson
<1>6. AnswerKnown'
  BY <1>1, <1>2, <1>5 DEF AnswerKnown, Fails
<1> QED
  BY <1>2, <1>6 DEF IInv, CommandSent, NotAnswered, HandledAsSent, ErrorIsNotShownAsOk,
                    DiesOnlyOfStrangers

\* The client shows the code it reads.
LEMMA ShowInv ==
    ASSUME IInv, PrintAnswer
    PROVE  IInv'
<1> DEFINE code == wire.code.value
<1>1. /\ stage = "answering" /\ stage' = "over" /\ outcome' = Shown(Received(wire))
      /\ UNCHANGED <<argument, options, gotCmd, answered>>
  BY DEF PrintAnswer, Exit
<1>2. CASE outcome' \notin {"ok", "uncaught"}
  BY <1>1, <1>2 DEF IInv, CommandSent, NotAnswered, AnswerKnown, HandledAsSent, ErrorIsNotShownAsOk,
                    DiesOnlyOfStrangers
<1>3. CASE outcome' \in {"ok", "uncaught"}
  <2>1. ~Fails(Received(wire))
    BY <1>1, <1>3 DEF Shown
  <2>2. Received(wire) = wire /\ ~Fails(wire) /\ wire # Garbage
    BY <2>1 DEF Received, Cut, Fails, Garbage, Nothing
  <2>3. /\ answered \in Json
        /\ code = IF Fails([code |-> answered]) THEN OK ELSE Converted(answered.value)
        /\ gotCmd.cmd \in Stop \/ answered.value \in ERRORS
    BY <1>1, <2>2 DEF IInv, AnswerKnown
  <2>4. /\ outcome' = "ok" => Converted(code) = OK
        /\ outcome' = "uncaught" => Converted(code) \notin ERRORS
    BY <1>1, <2>1, <2>2 DEF Shown, FromJson, NamedError
  <2>5. OK \in ERRORS
    BY MessagesAssumption DEF ERRORS, OK
  <2>6. answered.value \in ERRORS => Converted(code) = code /\ code \in {OK, answered.value}
    BY <2>3, <2>5, OwnCodes
  <2>7. answered.type = "number" => ~Fails([code |-> answered])
    BY DEF Fails
  <2>8. ~(outcome' = "ok" /\ answered.type = "number" /\ answered.value \in ERRORS \ {OK})
    BY <2>3, <2>4, <2>6, <2>7, OwnCodes
  <2>9. outcome' = "uncaught" => gotCmd.cmd \in Stop /\ answered.value \notin ERRORS
    BY <2>3, <2>4, <2>5, <2>6
  <2> HIDE DEF code
  <2> QED
    BY <1>1, <2>8, <2>9 DEF IInv, CommandSent, NotAnswered, AnswerKnown, HandledAsSent,
                            ErrorIsNotShownAsOk, DiesOnlyOfStrangers
<1> QED BY <1>2, <1>3

\* Every step keeps it.
LEMMA NextInv == IInv /\ [Next]_vars => IInv'
<1> SUFFICES ASSUME IInv, [Next]_vars PROVE IInv'
  OBVIOUS
<1>1. CASE UNCHANGED vars
  BY <1>1 DEF vars, IInv, CommandSent, NotAnswered, AnswerKnown, HandledAsSent, ErrorIsNotShownAsOk,
              DiesOnlyOfStrangers
<1> QED BY <1>1, EndInv, SendInv, ReceiveInv, AnswerInv, ShowInv DEF Next

-----------------------------------------------------------------------------
(* The theorems.                                                           *)

\* The conversions of Cmd, Response and the command line keep what they should.
THEOREM Invariance == Spec => []IInv
  BY InitInv, NextInv, PTL DEF Spec

\* A command is handled as it was sent, payload and all, or not at all (Cmd::fromString).
THEOREM HandledWhole == Spec => []HandledAsSent
  BY Invariance, PTL DEF IInv

\* What is handled is what the argument is the code of, whatever integer it is (cli).
THEOREM NoOtherCommandRuns == Spec => []RunsWhatWasAsked
<1>1. IInv => RunsWhatWasAsked
  <2> SUFFICES ASSUME IInv, stage = "handling", gotCmd.cmd \in Handled
               PROVE  argument.value = gotCmd.cmd
    BY DEF RunsWhatWasAsked
  <2>1. argument.value \in StoiRange /\ gotCmd.cmd = Converted(argument.value)
    BY DEF IInv, CommandSent, HandledAsSent
  <2>2. gotCmd.cmd \in 1..LastCommand
    BY MessagesAssumption
  <2>3. gotCmd.cmd < IntBound /\ gotCmd.cmd \in Int /\ IntBound \in Nat
    BY <2>2, MessagesAssumption
  <2>4. argument.value \in Int
    BY <2>1, <2>3 DEF StoiRange
  <2> QED BY <2>1, <2>3, <2>4, Conversion
<1> QED BY <1>1, Invariance, PTL

\* No error with a name comes to be shown as OK (Response::fromString, cli).
THEOREM ErrorsAreShown == Spec => []ErrorIsNotShownAsOk
  BY Invariance, PTL DEF IInv

\* The client is ended by no code that this program makes (errorToString, cli).
THEOREM OwnCodesAreNamed == Spec => []DiesOnlyOfStrangers
  BY Invariance, PTL DEF IInv
==============================================================================
