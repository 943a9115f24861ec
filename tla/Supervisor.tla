------------------------------ MODULE Supervisor ------------------------------
(***************************************************************************)
(* What a MonitorManager promises, without timers, signals, sockets and    *)
(* handlers: for every key at most one process, never replaced while it    *)
(* lives; an operation is answered at most once, and a launch with OK only *)
(* while a process of its key runs; a shutdown ends every process.         *)
(***************************************************************************)
EXTENDS Sequences

CONSTANTS Key, Op, None

VARIABLES
    slot,     \* the process kept for a key
    life,     \* of the process an operation launches
    owner,    \* the key an operation launched its process for
    answers   \* what an operation has been answered

vars == <<slot, life, owner, answers>>

Init ==
    /\ slot = [k \in Key |-> None]
    /\ life = [o \in Op |-> "unborn"]
    /\ owner = [o \in Op |-> None]
    /\ answers = [o \in Op |-> <<>>]

Launch(o, k) ==
    /\ slot[k] = None
    /\ life[o] = "unborn"
    /\ answers[o] = <<>>
    /\ slot' = [slot EXCEPT ![k] = o]
    /\ life' = [life EXCEPT ![o] = "running"]
    /\ owner' = [owner EXCEPT ![o] = k]
    /\ UNCHANGED answers

Die(o) ==
    /\ life[o] = "running"
    /\ life' = [life EXCEPT ![o] = "dead"]
    /\ UNCHANGED <<slot, owner, answers>>

\* The supervisor may take its time to notice, but forgets nothing that lives.
Forget(k) ==
    /\ slot[k] # None
    /\ life[slot[k]] = "dead"
    /\ slot' = [slot EXCEPT ![k] = None]
    /\ UNCHANGED <<life, owner, answers>>

Respond(o, answer) ==
    /\ answers[o] = <<>>
    /\ answers' = [answers EXCEPT ![o] = <<answer>>]

Runs(k) == slot[k] # None /\ life[slot[k]] = "running"

Answer(o, answer) ==
    /\ Respond(o, answer)
    /\ life[o] # "unborn" /\ answer = "ok" => Runs(owner[o])
    /\ UNCHANGED <<slot, life, owner>>

Shutdown(o) ==
    /\ Respond(o, "ok")
    /\ life[o] = "unborn"
    /\ slot' = [k \in Key |-> None]
    /\ life' = [p \in Op |-> IF life[p] = "running" THEN "dead" ELSE life[p]]
    /\ UNCHANGED owner

Next ==
    \/ \E o \in Op :
         \/ \E k \in Key : Launch(o, k)
         \/ Die(o)
         \/ \E answer \in {"ok", "error"} : Answer(o, answer)
         \/ Shutdown(o)
    \/ \E k \in Key : Forget(k)

Spec == Init /\ [][Next]_vars
==============================================================================
