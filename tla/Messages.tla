------------------------------- MODULE Messages -------------------------------
(***************************************************************************)
(* What becomes of a command on its way from the command line to the       *)
(* daemon's handler, and of the answer on its way back: the lookup of      *)
(* names and codes, the conversions of Cmd and Response to JSON and back,  *)
(* the buffer they are read into, and the codes that have no name.  The    *)
(* answer to a stop is the monitor's, passed on: it may hold what this     *)
(* program never writes.                                                   *)
(***************************************************************************)
EXTENDS Integers

CONSTANTS
    LastCommand,              \* MM_GET_SCRAPER_SHOES
    LastError,                \* UNKNOWN_ERROR
    UNRECOGNIZED_COMMAND,
    MM_STOP_MONITOR_MANAGER,
    Handled,                  \* the commands the daemon has a callback for
    Stop,                     \* those whose answer is a monitor's or a scraper's
    IntBound,                 \* 2^31: an int is less, a CommandType or ErrorType
                              \* less than twice that
    Payload,                  \* payloads other than null
    TooLong,                  \* those whose message is over 1024 bytes
    MaxInteger                \* bound: integers in an argument or a document

ASSUME MessagesAssumption ==
    /\ IntBound \in Nat \ {0}
    /\ LastCommand \in 1..(IntBound - 1)
    /\ LastError \in 1..(IntBound - 1)
    /\ UNRECOGNIZED_COMMAND \in 1..LastError
    /\ Handled \subseteq 1..LastCommand
    /\ MM_STOP_MONITOR_MANAGER \in Handled
    /\ Stop \subseteq Handled
    /\ TooLong \subseteq Payload
    /\ "null" \notin Payload
    /\ MaxInteger \in Nat
    /\ MaxInteger >= 2 * IntBound

Code == 0..(2 * IntBound - 1)

\* What std::stoi returns.
StoiRange == (0 - IntBound)..(IntBound - 1)

OK == 0
PING == 1

\* The enumerators, in order and without gaps.
COMMANDS == PING..LastCommand
ERRORS == OK..LastError

\* initMaps registers every enumerator under its own name.
NamedCommand == COMMANDS

\* Fault: an error is added and not registered.
NamedErrorBut == ERRORS \ {UNRECOGNIZED_COMMAND}

NamedError == ERRORS

Integer == (0 - MaxInteger)..MaxInteger

\* The first argument: a command's name, an integer, another word, none at all.
\* "stopmm" is the other client, which has no arguments.
Argument ==
    [form : {"name"}, value : NamedCommand]
        \cup [form : {"integer"}, value : Integer]
        \cup [form : {"word", "--list-cmd", "none"}, value : {0}]
        \cup [form : {"stopmm"}, value : {MM_STOP_MONITOR_MANAGER}]

\* The rest: none, "--key value" pairs, pairs with bytes that are not UTF-8, a
\* key without "--", an odd number.
Options == {"none", "pairs", "bytes", "undashed", "odd"}

\* What a JSON document may have in the place of a code.
Json ==
    [type : {"number"}, value : Integer]
        \cup [type : {"boolean"}, value : {0, 1}]
        \cup [type : {"absent", "null", "string"}, value : {0}]

Document == [code : Json, payload : Payload \cup {"null"}]

\* What is not JSON, or not an object, converts like an object without fields.
Nothing == [type |-> "absent", value |-> 0]
Garbage == [code |-> Nothing, payload |-> "null"]

VARIABLES
    argument, options,  \* the command line
    stage,              \* how far the exchange is
    sentCmd,            \* the client's Cmd
    gotCmd,             \* the daemon's
    wire,               \* the document under way
    answered,           \* the code of the answer, as its author wrote it
    outcome             \* how the client ended

vars == <<argument, options, stage, sentCmd, gotCmd, wire, answered, outcome>>

Stage == {"launched", "sending", "handling", "answering", "over"}

\* Exit codes, what is printed, or an exception nobody catches.
Outcome == {"pending", "usage", "listed", "no command", "odd options", "bad option",
            "ok", "error", "unreadable", "uncaught"}

Cmd == [cmd : Code, payload : Payload \cup {"null"}]
NoCmd == [cmd |-> 0, payload |-> "null"]

TypeOK ==
    /\ argument \in Argument
    /\ options \in Options
    /\ stage \in Stage
    /\ sentCmd \in Cmd
    /\ gotCmd \in Cmd
    /\ wire \in Document
    /\ answered \in Json
    /\ outcome \in Outcome

Init ==
    /\ argument \in Argument
    /\ options \in IF argument.form = "stopmm" THEN {"none"} ELSE Options
    /\ stage = "launched"
    /\ sentCmd = NoCmd
    /\ gotCmd = NoCmd
    /\ wire = Garbage
    /\ answered = Nothing
    /\ outcome = "pending"

-----------------------------------------------------------------------------
(* Conversions.                                                            *)

\* Fault: the code goes through a narrower integer.
ConvertedNarrow(i) == i % IntBound

\* An integer, assigned to a CommandType or an ErrorType.
Converted(i) == i % (2 * IntBound)

\* A null payload is left out, and an absent one read as null.
ToJson(message) ==
    [code |-> [type |-> "number", value |-> message.cmd], payload |-> message.payload]

\* fromString sets ec if there is no code that converts to an integer; trouble
\* with the payload is passed over.
Fails(document) == document.code.type \notin {"number", "boolean"}

\* The message read, with the default code if there is none.
FromJson(document, default) ==
    [cmd     |-> IF Fails(document) THEN default ELSE Converted(document.code.value),
     payload |-> document.payload]

\* Fault: what was lost is made up for.
CutClosing(document) == [document EXCEPT !.payload = "null"]

\* The first 1024 bytes of a longer document have no closing brace.
Cut(document) == Garbage

\* What m_buffer holds in the end.
Received(document) ==
    IF document.payload \in TooLong THEN Cut(document) ELSE document

-----------------------------------------------------------------------------
(* The client.                                                             *)

Exit(how) ==
    /\ outcome' = how
    /\ stage' = "over"
    /\ UNCHANGED <<argument, options, sentCmd, gotCmd, wire, answered>>

Launched(form) == stage = "launched" /\ argument.form = form

Usage == Launched("none") /\ Exit("usage")

\* Names are looked up from PING to KEKMONITORS_FIRST_CUSTOM_COMMAND.
ListCommands ==
    /\ Launched("--list-cmd")
    /\ Exit(IF COMMANDS \subseteq NamedCommand THEN "listed" ELSE "uncaught")

NoCommand == Launched("word") /\ Exit("no command")

\* std::stoi throws out_of_range too, which is only caught around the lookup.
TooLarge ==
    /\ Launched("integer")
    /\ argument.value \notin StoiRange
    /\ Exit("uncaught")

HasCommand ==
    \/ Launched("name")
    \/ Launched("integer") /\ argument.value \in StoiRange
    \/ Launched("stopmm")

BadOptions ==
    /\ HasCommand
    /\ \/ options = "odd" /\ Exit("odd options")
       \/ options = "undashed" /\ Exit("bad option")

\* dump() of text that is not UTF-8 throws.
SendThrows == HasCommand /\ options = "bytes" /\ Exit("uncaught")

SendCommand ==
    /\ HasCommand
    /\ options \in {"none", "pairs"}
    /\ \E payload \in IF options = "pairs" THEN Payload ELSE {"null"} :
          sentCmd' = [cmd |-> Converted(argument.value), payload |-> payload]
    /\ wire' = ToJson(sentCmd')
    /\ stage' = "sending"
    /\ UNCHANGED <<argument, options, gotCmd, answered, outcome>>

\* Fault: the error code that comes with the Response is passed over.
ShownUnchecked(document) ==
    LET code == FromJson(document, OK).cmd IN
    IF code \notin NamedError THEN "uncaught" ELSE IF code = OK THEN "ok" ELSE "error"

\* errorToString throws for a code without a name.
Shown(document) ==
    LET code == FromJson(document, OK).cmd IN
    IF Fails(document) THEN "unreadable"
    ELSE IF code \notin NamedError THEN "uncaught"
    ELSE IF code = OK THEN "ok" ELSE "error"

PrintAnswer == stage = "answering" /\ Exit(Shown(Received(wire)))

-----------------------------------------------------------------------------
(* The daemon.                                                             *)

\* asyncReadCmd and _handleCallback: what does not parse is dropped, and the
\* connection with it.
ReceiveCommand ==
    /\ stage = "sending"
    /\ gotCmd' = FromJson(Received(wire), PING)
    /\ wire' = Garbage
    /\ stage' = IF Fails(Received(wire)) THEN "answering" ELSE "handling"
    /\ UNCHANGED <<argument, options, sentCmd, answered, outcome>>

Respond(code) ==
    /\ stage = "handling"
    /\ answered' = code
    /\ \E payload \in Payload \cup {"null"} :
          wire' = ToJson([cmd |-> FromJson([Garbage EXCEPT !.code = code], OK).cmd,
                          payload |-> payload])
    /\ stage' = "answering"
    /\ UNCHANGED <<argument, options, sentCmd, gotCmd, outcome>>

CarryOut ==
    /\ gotCmd.cmd \in Handled \ Stop
    /\ \E error \in ERRORS : Respond([type |-> "number", value |-> error])

\* An answer that does not come, or does not parse, is a default Response too.
PassOn ==
    /\ gotCmd.cmd \in Stop
    /\ \E code \in Json : Respond(code)

Unrecognised ==
    /\ gotCmd.cmd \notin Handled
    /\ Respond([type |-> "number", value |-> UNRECOGNIZED_COMMAND])

Next ==
    \/ Usage
    \/ ListCommands
    \/ NoCommand
    \/ TooLarge
    \/ BadOptions
    \/ SendThrows
    \/ SendCommand
    \/ ReceiveCommand
    \/ CarryOut
    \/ PassOn
    \/ Unrecognised
    \/ PrintAnswer

Spec == Init /\ [][Next]_vars

-----------------------------------------------------------------------------
(* Safety.                                                                 *)

\* A command that is handled is the one the client sent, whole: one that does not
\* fit the buffer is dropped, and not carried out without its payload or as the
\* PING a default Cmd is (connection.cpp:12, msg.cpp:7).
HandledAsSent == stage = "handling" => gotCmd = sentCmd

\* No number on the command line runs a command other than the one it is the code
\* of, negative ones and those that overflow included (cli.cpp:35).
RunsWhatWasAsked ==
    stage = "handling" /\ gotCmd.cmd \in Handled => argument.value = gotCmd.cmd

\* An error that has a name, the daemon's own or a monitor's passed on, is never
\* shown as OK, which is what a default Response says (msg.cpp:70, cli.cpp:82).
ErrorIsNotShownAsOk ==
    outcome = "ok" =>
        ~(answered.type = "number" /\ answered.value \in ERRORS \ {OK})

\* A client dies of its own arguments, or of a monitor's error code that is none
\* of ERRORS; never of an answer, or a list, made by this program.
DiesOnlyOfStrangers ==
    outcome = "uncaught" =>
        \/ argument.value \notin StoiRange
        \/ options = "bytes" /\ argument.form # "--list-cmd"
        \/ gotCmd.cmd \in Stop /\ answered.value \notin ERRORS

==============================================================================
