------------------------------- MODULE Exchange -------------------------------
(***************************************************************************)
(* What a command sent over a Connection promises its client: the command  *)
(* is carried out at most once, the client is told what came of it or that *)
(* the exchange failed, and a result it is told is the true one.  A failed *)
(* exchange says nothing about the command: it may have been carried out,  *)
(* or may still be.                                                        *)
(***************************************************************************)
CONSTANT Conn

VARIABLES
    verdict,  \* what came of the command, once it is carried out
    told      \* what the client was told

vars == <<verdict, told>>

Verdict == {"none", "pending", "ok", "error"}

Told == {"nothing", "ok", "error", "failed"}

Init ==
    /\ verdict = [c \in Conn |-> "none"]
    /\ told = [c \in Conn |-> "nothing"]

\* The command reaches its handler.
CarryOut(c) ==
    /\ verdict[c] = "none"
    /\ verdict' = [verdict EXCEPT ![c] = "pending"]
    /\ UNCHANGED told

Decide(c, v) ==
    /\ verdict[c] = "pending"
    /\ verdict' = [verdict EXCEPT ![c] = v]
    /\ UNCHANGED told

Tell(c, t) ==
    /\ told[c] = "nothing"
    /\ t = "failed" \/ t = verdict[c]
    /\ told' = [told EXCEPT ![c] = t]
    /\ UNCHANGED verdict

Next == \E c \in Conn :
    \/ CarryOut(c)
    \/ \E v \in {"ok", "error"} : Decide(c, v)
    \/ \E t \in {"ok", "error", "failed"} : Tell(c, t)

Spec == Init /\ [][Next]_vars
==============================================================================
