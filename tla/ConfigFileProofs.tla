--------------------------- MODULE ConfigFileProofs ---------------------------
(***************************************************************************)
(* Proofs about ConfigFile, for any number of programs.                    *)
(***************************************************************************)
EXTENDS ConfigFile, TLAPS

\* The file is empty only while its content is on the way, or lost with its writer.
EmptyIsBeingWritten == file = "empty" => \E p \in Program : stage[p] \in {"writing", "killed"}

\* A file that is open for creation, and not adrift, is there.
WrittenIsThere == \A p \in Program : stage[p] = "writing" => file # "absent"

\* A program that has found or made the file still has it, until it is removed.
ReadIsThere ==
    ~removed => \A p \in Program : stage[p] \in {"adrift", "reading"} => file # "absent"

\* Who may still write over what the user saved had looked for the file before.
WritersAreUnaware ==
    file = "edited" => \A p \in Program : stage[p] \in {"opening", "writing"} => p \in unaware

IInv ==
    /\ TypeOK
    /\ EmptyIsBeingWritten
    /\ WrittenIsThere
    /\ ReadIsThere
    /\ WritersAreUnaware

\* Every variable keeps its type.
THEOREM TypeCorrect == Spec => []TypeOK
<1>1. Init => TypeOK
  BY DEF Init, TypeOK, Stage, File
<1>2. TypeOK /\ [Next]_vars => TypeOK'
  BY DEF TypeOK, Stage, File, Next, vars, Goes, Start, Check, Open, Write, Kill, Read,
         Save, Remove, CutOff
<1> QED BY <1>1, <1>2, PTL DEF Spec

\* The user's doing, which cuts off those that are writing or leaves every stage.
LEMMA UserInv ==
    ASSUME IInv, Save \/ Remove
    PROVE  EmptyIsBeingWritten' /\ WrittenIsThere' /\ ReadIsThere' /\ WritersAreUnaware'
<1> USE DEF IInv, TypeOK, EmptyIsBeingWritten, WrittenIsThere, ReadIsThere, WritersAreUnaware
<1>1. CASE Save
  BY <1>1 DEF Save, CutOff
<1>2. CASE Remove
  BY <1>2 DEF Remove, CutOff
<1> QED BY <1>1, <1>2

\* A program's step, which leaves the others' stages.
LEMMA ProgramInv ==
    ASSUME IInv, NEW p \in Program,
           Start(p) \/ Check(p) \/ Open(p) \/ Write(p) \/ Kill(p) \/ Read(p)
    PROVE  EmptyIsBeingWritten' /\ WrittenIsThere' /\ ReadIsThere' /\ WritersAreUnaware'
<1> USE DEF IInv, TypeOK, File, Goes
<1>1. EmptyIsBeingWritten'
  BY DEF EmptyIsBeingWritten, Start, Check, Open, Write, Kill, Read
<1>2. WrittenIsThere'
  BY DEF WrittenIsThere, Start, Check, Open, Write, Kill, Read
<1>3. ReadIsThere'
  BY DEF ReadIsThere, WrittenIsThere, Start, Check, Open, Write, Kill, Read
<1>4. WritersAreUnaware'
  BY DEF WritersAreUnaware, Start, Check, Open, Write, Kill, Read
<1> QED BY <1>1, <1>2, <1>3, <1>4

\* Every step keeps the invariant that tells whose the file's content is.
THEOREM Invariance == Spec => []IInv
<1>1. Init => IInv
  BY DEF Init, IInv, TypeOK, Stage, File, EmptyIsBeingWritten, WrittenIsThere, ReadIsThere,
         WritersAreUnaware
<1>2. IInv /\ TypeOK' /\ [Next]_vars => IInv'
  <2> SUFFICES ASSUME IInv, TypeOK', [Next]_vars PROVE IInv'
    OBVIOUS
  <2>1. CASE UNCHANGED vars
    BY <2>1 DEF IInv, vars, EmptyIsBeingWritten, WrittenIsThere, ReadIsThere, WritersAreUnaware
  <2> QED BY <2>1, UserInv, ProgramInv DEF Next, IInv
<1> QED BY <1>1, <1>2, TypeCorrect, PTL DEF Spec

\* A program dies of the configuration file only while another one has it open for
\* creation, or has been killed before it had written it, or after the user has
\* removed it (Config::Config, utils::getContentIfFileExistsElseCreate).
THEOREM DeathNeedsCreator == Spec => DiesOnlyOfCreation
<1>1. ASSUME IInv, [Next]_vars, NEW p \in Program, stage[p] # "died", stage'[p] = "died"
      PROVE  \/ file = "empty" /\ \E q \in Program \ {p} : stage[q] \in {"writing", "killed"}
             \/ file = "absent" /\ removed
  <2>1. Read(p) /\ stage[p] = "reading" /\ file \in {"absent", "empty"}
    BY <1>1 DEF IInv, TypeOK, Stage, File, Next, vars, Goes, Start, Check, Open, Write, Kill,
                Read, Save, Remove, CutOff
  <2>2. CASE file = "empty"
    BY <1>1, <2>1, <2>2 DEF IInv, EmptyIsBeingWritten
  <2>3. CASE file = "absent"
    BY <1>1, <2>1, <2>3 DEF IInv, TypeOK, ReadIsThere
  <2> QED BY <2>1, <2>2, <2>3
<1> DEFINE Excused(p) == \/ file = "empty" /\ \E q \in Program \ {p} : stage[q] \in {"writing", "killed"}
                         \/ file = "absent" /\ removed
<1>2. IInv /\ [Next]_vars =>
          [\A p \in Program : stage[p] # "died" /\ stage'[p] = "died" => Excused(p)]_vars
  BY <1>1
<1> QED BY <1>2, Invariance, PTL DEF Spec, DiesOnlyOfCreation

\* What the user has saved is overwritten only by the creation of a program that had
\* found no file before the save, never by one that looks for it after.
THEOREM EditsAreKept == Spec => EditsSurvive
<1>1. IInv /\ [Next]_vars =>
          [file = "edited" /\ file' \in {"empty", "default"} =>
             \E p \in unaware : stage[p] \in {"opening", "writing"} /\ stage'[p] # stage[p]]_vars
  <2> SUFFICES ASSUME IInv, Next, file = "edited", file' \in {"empty", "default"}
               PROVE  \E p \in unaware : stage[p] \in {"opening", "writing"} /\ stage'[p] # stage[p]
    BY DEF vars
  <2>1. PICK p \in Program : Open(p) \/ Write(p)
    BY DEF Next, Goes, Start, Check, Open, Write, Kill, Read, Save, Remove
  <2>2. stage[p] \in {"opening", "writing"} /\ stage'[p] # stage[p]
    BY <2>1 DEF IInv, TypeOK, Goes, Open, Write
  <2> QED BY <2>2 DEF IInv, WritersAreUnaware
<1> QED BY <1>1, Invariance, PTL DEF Spec, EditsSurvive
==============================================================================
