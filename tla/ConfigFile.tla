------------------------------ MODULE ConfigFile ------------------------------
(***************************************************************************)
(* The configuration file, ~/.kekmonitors/config/config.cfg: every program *)
(* that starts, the daemon or a client, creates it if it is not there and  *)
(* then reads it, while other programs do the same, its user saves or      *)
(* removes it, and a program may be killed while it writes it.             *)
(***************************************************************************)
CONSTANT Program

VARIABLES
    stage,   \* how far a program's Config() is
    file,    \* what config.cfg holds
    unaware, \* history: the programs that had found no file, and were still to
             \* write it, when the user last saved it
    removed  \* history: the user has removed the file

vars == <<stage, file, unaware, removed>>

\* "opening": the file was not there; "writing": it is open, and truncated;
\* "adrift": the file it has open was removed or replaced; "killed": while it was
\* writing; "died": read_ini threw, or the file has no GlobalConfig.socket_path.
Stage == {"idle", "checking", "opening", "writing", "adrift", "reading",
          "configured", "killed", "died"}

File == {"absent", "empty", "default", "edited"}

TypeOK ==
    /\ stage \in [Program -> Stage]
    /\ file \in File
    /\ unaware \subseteq Program
    /\ removed \in BOOLEAN

Init ==
    /\ stage = [p \in Program |-> "idle"]
    /\ file \in {"absent", "default", "edited"}
    /\ unaware = {}
    /\ removed = FALSE

Goes(p, from, to) == stage[p] = from /\ stage' = [stage EXCEPT ![p] = to]

Start(p) == Goes(p, "idle", "checking") /\ UNCHANGED <<file, unaware, removed>>

\* Fault: the file is always opened for writing.
CheckNever(p) == Goes(p, "checking", "opening") /\ UNCHANGED <<file, unaware, removed>>

\* is_regular_file().  A file that is there is read, and what was read dropped.
Check(p) ==
    /\ Goes(p, "checking", IF file = "absent" THEN "opening" ELSE "reading")
    /\ UNCHANGED <<file, unaware, removed>>

\* Fault: the file is read back before the stream is closed.
OpenAndRead(p) ==
    /\ Goes(p, "opening", "reading")
    /\ file' = "empty"
    /\ UNCHANGED <<unaware, removed>>

\* open(ios::out) truncates a file that has come up since.
Open(p) ==
    /\ Goes(p, "opening", "writing")
    /\ file' = "empty"
    /\ UNCHANGED <<unaware, removed>>

\* The content is written in one piece when the stream is closed, over what the
\* file holds by then; it goes nowhere if the file was removed or replaced.
Write(p) ==
    /\ \/ Goes(p, "writing", "reading") /\ file' = "default"
       \/ Goes(p, "adrift", "reading") /\ UNCHANGED file
    /\ UNCHANGED <<unaware, removed>>

\* What was not yet written is lost; at no other stage does it matter to the file.
Kill(p) == Goes(p, "writing", "killed") /\ UNCHANGED <<file, unaware, removed>>

\* read_ini(), and the first get() of a setting.
Read(p) ==
    /\ Goes(p, "reading", IF file \in {"default", "edited"} THEN "configured" ELSE "died")
    /\ UNCHANGED <<file, unaware, removed>>

CutOff == [p \in Program |-> IF stage[p] = "writing" THEN "adrift" ELSE stage[p]]

\* An editor writes the file in place, or renames a new one over it.
Save ==
    /\ file' = "edited"
    /\ stage' \in {stage, CutOff}
    /\ unaware' = {p \in Program : stage[p] \in {"opening", "writing"}}
    /\ UNCHANGED removed

Remove ==
    /\ file # "absent"
    /\ file' = "absent"
    /\ stage' = CutOff
    /\ removed' = TRUE
    /\ UNCHANGED unaware

Next ==
    \/ \E p \in Program : Start(p) \/ Check(p) \/ Open(p) \/ Write(p) \/ Kill(p) \/ Read(p)
    \/ Save
    \/ Remove

Spec == Init /\ [][Next]_vars

-----------------------------------------------------------------------------
\* At the moment a program dies of the file, another one has it open for creation
\* or was killed before it had written it, or the user has removed it.  One that
\* reads before the others' creations begin, or after they are finished, does not die.
DiesOnlyOfCreation ==
    [][\A p \in Program : stage[p] # "died" /\ stage'[p] = "died" =>
          \/ file = "empty" /\ \E q \in Program \ {p} : stage[q] \in {"writing", "killed"}
          \/ file = "absent" /\ removed]_vars

\* What the user has saved is overwritten only by a program that had found no file
\* before the save and is only now creating it: one that looks for the file after
\* the save leaves it as it is.
EditsSurvive ==
    [][file = "edited" /\ file' \in {"empty", "default"} =>
          \E p \in unaware : stage[p] \in {"opening", "writing"} /\ stage'[p] # stage[p]]_vars
===============================================================================
