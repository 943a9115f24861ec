----------------------------- MODULE CommonAnswer -----------------------------
(***************************************************************************)
(* What a client is promised of a command that is carried out in several   *)
(* halves: each half gives at most one answer, and with the last of them,  *)
(* in the same step, the client is told once what they come to: OK if all  *)
(* of them are, an error otherwise.  Until then it is told nothing.        *)
(***************************************************************************)
EXTENDS Sequences

CONSTANTS Request, Kind   \* the requests, and the kinds of half each of them has

VARIABLES
    given,  \* what a half of a request has answered
    told    \* what the client of a request was told

vars == <<given, told>>

Init ==
    /\ given = [r \in Request |-> [kind \in Kind |-> <<>>]]
    /\ told = [r \in Request |-> <<>>]

Common(answers) == IF \A kind \in Kind : answers[kind] = <<"ok">> THEN "ok" ELSE "error"

Give(r, kind, answer) ==
    /\ given[r][kind] = <<>>
    /\ given' = [given EXCEPT ![r][kind] = <<answer>>]
    /\ told' = IF \A other \in Kind \ {kind} : given[r][other] # <<>>
               THEN [told EXCEPT ![r] = <<Common(given'[r])>>]
               ELSE told

Next == \E r \in Request, kind \in Kind, answer \in {"ok", "error"} : Give(r, kind, answer)

Spec == Init /\ [][Next]_vars
==============================================================================
