--------------------------- MODULE FlasherProofs ---------------------------
(***************************************************************************)
(* Proofs that what the flashers say is true, for a flash of any size, any *)
(* file, every way to call the tools, and every fault: "Verified OK!" of a *)
(* write, "Done!" of a dump, and a refusal. And that a write in which      *)
(* nothing goes wrong ends with the file in the flash.                     *)
(*                                                                         *)
(* A message comes long after what makes it true. The invariant follows    *)
(* main: what it has asked for when it gets to a step (Course), that no    *)
(* erase can still change the flash then (Settled), and what the cells     *)
(* read so far have to do with the flash and the file (Reading). For the   *)
(* write in which nothing goes wrong it says how far the flash has come on *)
(* its way to the file (Progress).                                         *)
(***************************************************************************)
EXTENDS Flasher, FiniteSetTheorems, TLAPS

AllValues == Values \cup {Blank, Junk}

Erasing == {"erase", "again", "wait", "status", "poll"}

\* The types, and where the tool is in the file when.
Types ==
  /\ run \in Runs /\ image \in [Cells -> Values]
  /\ pc \in Erasing \cup {"probe", "check", "confirm", "file", "write", "written", "read",
                          "compare", "execute", "end"}
  /\ said \in {"nothing", "refused", "error", "done", "verified", "mismatch"}
  /\ off \in 0..Size
  /\ flash \in [Cells -> AllValues] /\ block2 \in [Cells -> AllValues]
  /\ chunk \in AllValues
  /\ erasing \in BOOLEAN /\ misread \in BOOLEAN
  /\ pc \in Erasing \cup {"probe", "check", "confirm", "file"} => off = 0
  /\ pc \in {"write", "read"} => off < Size

\* What was asked for, and what has been said, when main gets to a step.
Course ==
  /\ pc \in {"check", "file", "write", "written", "compare"} => run.op = "write"
  /\ pc \in Erasing => run.op # "dump"
  /\ pc \in {"read", "compare"} /\ run.op = "write" => run.verify
  /\ pc = "confirm" => run.op = "erase"
  /\ pc = "read" => run.op # "erase"
  /\ pc \in Erasing \cup {"file"} => run.confirm
  /\ pc = "file" => run.target = "bq_program"
  /\ pc \notin {"execute", "end"} => said = "nothing"
  /\ said = "refused" => pc = "end"

\* Before an erase is asked for the flash is as it was; behind it, it is over.
Settled ==
  /\ pc \in {"probe", "check", "confirm", "erase"} => flash = before /\ ~erasing
  /\ pc \in {"file", "write", "written", "read", "compare", "execute"}
       \/ said \in {"done", "verified"} => ~erasing

\* What has been read is the flash's, and no other than the file's.
Reading ==
  /\ misread => ~(Bq /\ Checked)
  /\ pc = "read" /\ ~misread => \A c \in Cells : c < off => block2[c] = flash[c]
  /\ pc = "read" /\ run.op = "write" /\ run.target = "bq_program" =>
       \A c \in Cells : c < off => block2[c] = image[c]
  /\ pc = "compare" /\ ~misread => block2 = flash
  /\ pc = "compare" => ~Bq

\* The messages.
Messages ==
  /\ said = "verified" /\ run.verify /\ run.target # "bq_eeprom" /\ ~misread => flash = image
  /\ said = "done" /\ run.op = "dump" /\ ~misread => block2 = flash
  /\ said = "refused" =>
       \/ run.target = "bq_program" /\ run.confirm /\ run.file # "good"
       \/ flash = before /\ ~erasing

IInv == Types /\ Course /\ Settled /\ Reading /\ Messages

LEMMA RunFacts ==
  ASSUME Types
  PROVE  /\ run.target \in Targets /\ run.op \in {"dump", "write", "erase"}
         /\ Size \in Nat \ {0}
BY FlasherAssumption DEF Types, RunOK

LEMMA InitInv == Init => IInv
<1> SUFFICES ASSUME Init PROVE IInv
  OBVIOUS
<1> USE FlasherAssumption DEF Init
<1>1. image \in [Cells -> Values] /\ 0 \in 0..Size
  OBVIOUS
<1>2. flash \in [Cells -> AllValues] /\ block2 \in [Cells -> AllValues] /\ chunk \in AllValues
  BY DEF AllValues
<1>3. Types
  BY <1>1, <1>2 DEF Types
<1> QED
  BY <1>3 DEF IInv, Course, Settled, Reading, Messages, Erasing

-----------------------------------------------------------------------------
(* Before anything is erased                                                *)

LEMMA FrontInv ==
  ASSUME IInv, Probe \/ CheckWrite \/ ConfirmErase \/ CheckFileLate
  PROVE  IInv'
<1> USE RunFacts DEF IInv
<1>1. UNCHANGED <<run, image, off, chunk, block2, flash, erasing, before, misread>>
  BY DEF Probe, CheckWrite, ConfirmErase, CheckFileLate, chipVars, ghosts
<1>2. Bq' = Bq /\ Checked' = Checked
  BY <1>1 DEF Bq, Checked
<1>3. \/ pc = "probe" /\ pc' = "end" /\ said' = "refused"
      \/ /\ pc = "probe" /\ said' = said
         /\ \/ pc' = "read" /\ run.op = "dump"
            \/ pc' = "check" /\ run.op = "write"
            \/ pc' = "confirm" /\ run.op = "erase"
      \/ pc \in {"check", "confirm"} /\ pc' = "end" /\ said' = "refused"
      \/ pc \in {"check", "confirm"} /\ pc' = "erase" /\ said' = said /\ run.confirm
      \/ pc = "file" /\ pc' = "end" /\ said' = "refused" /\ run.file = "bad"
      \/ pc = "file" /\ pc' = "write" /\ said' = said
  BY DEF Probe, CheckWrite, ConfirmErase, CheckFileLate, Exit
<1>4. Types'
  BY <1>1, <1>3 DEF Types, Erasing
<1>5. Course'
  BY <1>1, <1>3 DEF Course, Erasing
<1>6. Settled'
  BY <1>1, <1>3 DEF Settled, Course, Erasing
<1>7. Reading'
  <2>1. off = 0 /\ \A c \in Cells : ~(c < 0)
    BY <1>3 DEF Types, Erasing, Cells
  <2> QED
    BY <1>1, <1>2, <1>3, <2>1 DEF Reading
<1>8. Messages'
  BY <1>1, <1>3 DEF Messages, Settled, Course, Erasing
<1> QED
  BY <1>4, <1>5, <1>6, <1>7, <1>8

-----------------------------------------------------------------------------
(* Erasing                                                                  *)

\* The steps between the command and the write: however they end, the flash is
\* left to the chip, and nothing goes on before the chip is done.
LEMMA ErasingInv ==
  ASSUME IInv, EraseCommand \/ WaitErase \/ ReadStatus \/ PollErase
  PROVE  IInv'
<1> USE RunFacts DEF IInv
<1>1. UNCHANGED <<run, image, off, chunk, block2, flash, before, misread>>
  BY DEF EraseCommand, WaitErase, ReadStatus, PollErase, chipVars, ghosts
<1>2. Bq' = Bq /\ Checked' = Checked
  BY <1>1 DEF Bq, Checked
<1>3. pc \in Erasing /\ erasing' \in BOOLEAN
  BY DEF EraseCommand, WaitErase, ReadStatus, PollErase, Erasing, chipVars, Types,
         Outcomes, Replies, Answered, Failed, Late
<1>4. AfterErase => \/ run.op = "erase" /\ pc' = "end" /\ said' = "done"
                    \/ /\ run.op # "erase" /\ said' = said
                       /\ \/ pc' = "write"
                          \/ pc' = "file" /\ run.target = "bq_program"
  BY DEF AfterErase, FileFirst, Exit
<1>5. \/ AfterErase /\ ~erasing /\ ~erasing'
      \/ pc' = "end" /\ said' = "error"
      \/ pc' \in Erasing \ {"erase"} /\ said' = said
  <2>1. CASE EraseCommand
    BY <2>1 DEF EraseCommand, Exit, Erasing, Bq, Targets
  <2>2. CASE WaitErase
    BY <2>2 DEF WaitErase, chipVars
  <2>3. CASE ReadStatus
    <3>1. erasing' = erasing
      BY <2>3 DEF ReadStatus, chipVars
    <3>2. \/ AfterErase /\ ~erasing
          \/ Exit("error")
          \/ pc' = "poll" /\ said' = said
      BY <2>3 DEF ReadStatus, Types
    <3> QED
      BY <3>1, <3>2 DEF Exit, Erasing
  <2>4. CASE PollErase
    <3>1. erasing' = erasing /\ pc = "poll"
      BY <2>4 DEF PollErase, chipVars
    <3>2. \/ AfterErase /\ ~erasing
          \/ Exit("error")
          \/ pc' = pc /\ said' = said
      BY <2>4 DEF PollErase, Types
    <3> QED
      BY <3>1, <3>2 DEF Exit, Erasing
  <2> QED
    BY <2>1, <2>2, <2>3, <2>4
<1>6. \/ ~erasing' /\ \/ run.op = "erase" /\ pc' = "end" /\ said' = "done"
                      \/ /\ run.op = "write" /\ said' = said
                         /\ \/ pc' = "write"
                            \/ pc' = "file" /\ run.target = "bq_program"
      \/ pc' = "end" /\ said' = "error"
      \/ pc' \in Erasing \ {"erase"} /\ said' = said
  BY <1>3, <1>4, <1>5 DEF Course
<1>7. said = "nothing" /\ off = 0
  BY <1>3 DEF Course, Types, Erasing
<1>8. Types'
  BY <1>1, <1>3, <1>6, <1>7 DEF Types, Erasing
<1>9. Course'
  BY <1>1, <1>3, <1>6, <1>7 DEF Course, Erasing
<1>10. Settled'
  <2>1. pc' \notin {"probe", "check", "confirm", "erase"}
    BY <1>6 DEF Erasing
  <2>2. pc' \in {"file", "write", "written", "read", "compare", "execute"} => ~erasing'
    <3>1. pc' \notin Erasing \cup {"end"} => ~erasing'
      BY <1>6
    <3>2. pc' \in {"file", "write", "written", "read", "compare", "execute"} =>
            pc' \notin Erasing \cup {"end"}
      BY DEF Erasing
    <3> QED
      BY <3>1, <3>2
  <2>3. said' \in {"done", "verified"} => ~erasing'
    BY <1>6, <1>7
  <2> QED
    BY <2>1, <2>2, <2>3 DEF Settled
<1>11. Reading'
  BY <1>1, <1>2, <1>6 DEF Reading, Erasing
<1>12. Messages'
  BY <1>1, <1>6, <1>7 DEF Messages
<1> QED
  BY <1>8, <1>9, <1>10, <1>11, <1>12

LEMMA EraseEndsInv ==
  ASSUME IInv, EraseEnds
  PROVE  IInv'
<1> USE DEF IInv
<1>1. /\ UNCHANGED <<run, image, pc, said, off, chunk, block2, before, misread>>
      /\ erasing /\ erasing' = FALSE
  BY DEF EraseEnds, toolVars, Types
<1>2. Bq' = Bq /\ Checked' = Checked
  BY <1>1 DEF Bq, Checked
<1>3. flash' \in [Cells -> AllValues]
  BY DEF EraseEnds, AllValues
<1>4. Types'
  BY <1>1, <1>3 DEF Types
<1>5. /\ pc \notin {"probe", "check", "confirm", "erase", "file", "write", "written", "read",
                    "compare", "execute"}
      /\ said \notin {"done", "verified"}
  BY <1>1 DEF Settled
<1>6. Messages'
  BY <1>1, <1>5 DEF Messages
<1> QED
  BY <1>1, <1>2, <1>4, <1>5, <1>6 DEF Course, Settled, Reading

-----------------------------------------------------------------------------
(* Writing                                                                  *)

LEMMA WriteInv ==
  ASSUME IInv, WriteChunk \/ AfterWrite
  PROVE  IInv'
<1> USE RunFacts DEF IInv
<1>1. UNCHANGED <<run, image, chunk, block2, erasing, before, misread>>
  BY DEF WriteChunk, AfterWrite, chipVars, ghosts
<1>2. Bq' = Bq /\ Checked' = Checked
  BY <1>1 DEF Bq, Checked
<1>3. /\ pc \in {"write", "written"} /\ run.op = "write" /\ ~erasing /\ said = "nothing"
      /\ Size \in Nat
  BY DEF WriteChunk, AfterWrite, Course, Settled
<1>4. CASE WriteChunk
  <2>1. off \in Cells /\ off \in Nat /\ off < Size
    BY <1>4 DEF WriteChunk, Types, Cells
  <2>2. image[off] \in AllValues /\ flash[off] \in AllValues /\ Junk \in AllValues
    BY <2>1 DEF Types, AllValues
  <2>3. \A v \in Stored(off) : v \in AllValues
    BY <2>2 DEF Stored, Programmed
  <2>4. flash' \in [Cells -> AllValues]
    BY <1>4, <2>1, <2>3 DEF WriteChunk, Types
  <2>5. /\ off' \in 0..Size
        /\ \/ pc' = "end" /\ said' = "error"
           \/ pc' = "written" /\ said' = said
           \/ pc' = "write" /\ said' = said /\ off' < Size
    <3>1. \/ off' = off + 1 /\ pc' = (IF LastCell THEN "written" ELSE "write") /\ said' = said
          \/ off' = off /\ pc' = "end" /\ said' = "error"
          \/ off' = off /\ pc' = "written" /\ said' = said
      BY <1>4 DEF WriteChunk, Exit
    <3> QED
      BY <2>1, <3>1 DEF LastCell
  <2>6. Types'
    BY <1>1, <1>3, <2>4, <2>5 DEF Types, Erasing
  <2> QED
    BY <1>1, <1>2, <1>3, <2>5, <2>6 DEF Course, Settled, Reading, Messages, Erasing
<1>5. CASE AfterWrite
  <2>1. /\ flash' = flash /\ off' = 0
        /\ \/ pc' = "read" /\ said' = said /\ run.verify
           \/ pc' = "execute" /\ said' \in {"verified", "done", "error"} /\ ~run.verify
    BY <1>5 DEF AfterWrite, chipVars
  <2>2. Types'
    BY <1>1, <1>3, <2>1 DEF Types, Erasing
  <2>3. \A c \in Cells : ~(c < 0)
    BY DEF Cells
  <2> QED
    BY <1>1, <1>2, <1>3, <2>1, <2>2, <2>3 DEF Course, Settled, Reading, Messages, Erasing
<1> QED
  BY <1>4, <1>5

-----------------------------------------------------------------------------
(* Reading                                                                  *)

\* A read takes the next cells and leaves none out.
LEMMA NextCells ==
  ASSUME Types, off < Size
  PROVE  /\ NextOff \in 0..Size /\ off \in ReadCells /\ ReadCells \subseteq Cells
         /\ \A c \in Cells : c < NextOff => c < off \/ c \in ReadCells
         /\ run.target # "r2j240" => ReadCells = {off}
<1> DEFINE last == IF run.target = "r2j240" /\ off + 1 < Size THEN off + 1 ELSE off
<1>1. off \in Nat /\ Size \in Nat /\ last \in Nat /\ off <= last /\ last < Size
  BY FlasherAssumption DEF Types
<1>2. ReadCells = off..last
  BY <1>1 DEF ReadCells, Cells
<1>3. Cardinality(off..last) = last - off + 1
  BY <1>1, FS_Interval
<1>4. NextOff = last + 1
  BY <1>1, <1>2, <1>3 DEF NextOff
<1> QED
  BY <1>1, <1>2, <1>4 DEF Cells

LEMMA ReadChunkInv ==
  ASSUME IInv, ReadChunk
  PROVE  IInv'
<1> USE RunFacts DEF IInv
<1>1. UNCHANGED <<run, image, flash, erasing, before>> /\ pc = "read" /\ off < Size
      /\ ~erasing /\ said = "nothing" /\ Size \in Nat /\ off \in 0..Size
      /\ run.op \in {"dump", "write"}
  <2>1. run.op # "erase"
    BY DEF ReadChunk, Types, Course
  <2> QED
    BY <2>1 DEF ReadChunk, chipVars, Types, Course, Settled
<1>2. Bq' = Bq /\ Checked' = Checked
  BY <1>1 DEF Bq, Checked
<1>3. CASE \E o \in Outcomes : ReadStops
  <2>1. /\ UNCHANGED <<off, chunk, block2>>
        /\ \/ /\ pc' = "compare" /\ said' = said /\ misread' = TRUE
              /\ run.op = "write" /\ run.target = "r2j240"
           \/ pc' \in {"execute", "end"} /\ said' = "error" /\ misread' = misread
    BY <1>3 DEF ReadStops
  <2>2. Types'
    BY <1>1, <2>1 DEF Types, Erasing
  <2> QED
    BY <1>1, <1>2, <2>1, <2>2 DEF Course, Settled, Reading, Messages, Erasing, Bq
<1>4. ASSUME NEW o \in Outcomes, NEW dirty \in BOOLEAN,
             dirty => ~Checked, ReadTaken(o), ReadGoes(o, dirty)
      PROVE  IInv'
  <2>1. /\ off' \in 0..Size /\ off \in ReadCells /\ ReadCells \subseteq Cells
        /\ \A c \in Cells : c < off' => c < off \/ c \in ReadCells
        /\ run.target # "r2j240" => ReadCells = {off}
    BY <1>1, <1>4, NextCells DEF ReadGoes
  <2>2. \A c \in ReadCells : block2'[c] = Received(o, dirty, c)
    BY <1>4, <2>1 DEF ReadGoes, Into
  <2>3. \A c \in Cells : c \notin ReadCells => block2'[c] = block2[c]
    BY <1>4, <2>1 DEF ReadGoes, Into
  <2>4. \A c \in Cells : Received(o, dirty, c) \in AllValues
    BY DEF Received, Types, AllValues
  <2>5. block2' \in [Cells -> AllValues] /\ chunk' \in AllValues
    <3>1. block2' = [c \in Cells |-> block2'[c]]
      BY <1>4 DEF ReadGoes
    <3>2. \A c \in Cells : block2'[c] \in AllValues
      BY <2>1, <2>2, <2>3, <2>4 DEF Types
    <3>3. block2' \in [Cells -> AllValues]
      BY <3>1, <3>2
    <3> QED
      BY <1>4, <2>1, <3>2, <3>3 DEF ReadGoes, Into, Types
  <2>6. misread' \in BOOLEAN /\ (misread' <=> misread \/ ~o.ok \/ dirty)
    BY <1>4 DEF ReadGoes, Types, Outcomes, Replies, Answered, Failed, Late
  <2>7. Bq => o.ok
    BY <1>4 DEF ReadTaken, Bq
  <2>8. ~misread' => \A c \in Cells : c < off' => block2'[c] = flash[c]
    BY <1>1, <2>1, <2>2, <2>3, <2>6 DEF Received, Reading
  <2>9. CASE pc' = "end" /\ said' = "mismatch"
    <3>1. Types'
      BY <1>1, <2>1, <2>5, <2>6, <2>9 DEF Types, Erasing
    <3> QED
      BY <1>1, <1>2, <2>6, <2>7, <2>9, <3>1, <1>4 DEF Course, Settled, Reading, Messages, Erasing
  <2>10. CASE /\ run.op = "write" /\ run.target = "bq_program" => block2'[off] = image[off]
              /\ pc' = (CASE ~AllRead -> "read"
                          [] AllRead /\ (Bq \/ run.op = "dump") -> "execute"
                          [] OTHER -> "compare")
              /\ said' = (CASE AllRead /\ run.op = "dump" -> "done"
                            [] AllRead /\ run.op = "write" /\ Bq -> "verified"
                            [] OTHER -> said)
    <3>1. \/ pc' = "read" /\ ~AllRead /\ said' = "nothing"
          \/ pc' = "execute" /\ AllRead /\ run.op = "dump" /\ said' = "done"
          \/ pc' = "execute" /\ AllRead /\ run.op = "write" /\ Bq /\ said' = "verified"
          \/ pc' = "compare" /\ AllRead /\ run.op = "write" /\ ~Bq /\ said' = "nothing"
      BY <1>1, <2>10
    <3>2. AllRead <=> off' = Size
      BY DEF AllRead
    <3>3. run.op = "write" /\ run.target = "bq_program" =>
            \A c \in Cells : c < off' => block2'[c] = image[c]
      BY <1>1, <2>1, <2>3, <2>10 DEF Reading
    <3>4. AllRead => \A c \in Cells : c < off'
      BY <3>2, <1>1 DEF Cells
    <3>5. AllRead /\ ~misread' => block2' = flash
      BY <2>5, <2>8, <3>4 DEF Types
    <3>6. AllRead /\ run.op = "write" /\ run.target = "bq_program" => block2' = image
      <4>1. image \in [Cells -> AllValues]
        BY DEF Types, AllValues
      <4> QED
        BY <2>5, <3>3, <3>4, <4>1
    <3>7. Types'
      BY <1>1, <2>1, <2>5, <2>6, <3>1, <3>2 DEF Types, Erasing
    <3>8. Course'
      BY <1>1, <3>1 DEF Course, Erasing
    <3>9. Settled'
      BY <1>1, <3>1 DEF Settled
    <3>10. Reading'
      <4>1. misread' => ~(Bq /\ Checked)
        BY <1>4, <2>6, <2>7 DEF Reading
      <4> QED
        BY <1>1, <1>2, <2>8, <3>1, <3>3, <3>5, <4>1 DEF Reading
    <3>11. Messages'
      <4>1. Bq => run.target \in {"bq_program", "bq_eeprom"}
        BY DEF Bq
      <4> QED
        BY <1>1, <3>1, <3>5, <3>6, <4>1 DEF Messages
    <3> QED
      BY <3>7, <3>8, <3>9, <3>10, <3>11
  <2> QED
    <3>1. Bq /\ run.target # "bq_eeprom" <=> run.target = "bq_program"
      BY DEF Bq
    <3> QED
      BY <1>4, <2>9, <2>10, <3>1 DEF ReadGoes, Exit, Differs
<1> QED
  <2>1. PICK o \in Outcomes, dirty \in BOOLEAN :
          /\ dirty => ~Checked
          /\ (ReadTaken(o) /\ ReadGoes(o, dirty)) \/ ReadStops
    BY DEF ReadChunk
  <2> QED
    BY <1>3, <1>4, <2>1

LEMMA EndInv ==
  ASSUME IInv, CompareAll \/ Execute
  PROVE  IInv'
<1> USE RunFacts DEF IInv
<1>1. UNCHANGED <<run, image, off, chunk, block2, flash, erasing, before, misread>>
  BY DEF CompareAll, Execute, chipVars, ghosts
<1>2. Bq' = Bq /\ Checked' = Checked
  BY <1>1 DEF Bq, Checked
<1>3. CASE CompareAll
  <2>1. pc = "compare" /\ pc' = "execute" /\ said' \in {"mismatch", "verified"} /\ said = "nothing"
    BY <1>3 DEF CompareAll, Course
  <2>2. said' = "verified" /\ run.target # "bq_eeprom" => block2 = image
    <3>1. image \in [Cells -> AllValues] /\ block2 \in [Cells -> AllValues]
      BY DEF Types, AllValues
    <3>2. said' = "verified" /\ run.target # "bq_eeprom" => \A c \in Cells : block2[c] = image[c]
      BY <1>3 DEF CompareAll, Differs
    <3> QED
      BY <3>1, <3>2
  <2>3. Types'
    BY <1>1, <2>1 DEF Types, Erasing
  <2> QED
    BY <1>1, <1>2, <2>1, <2>2, <2>3 DEF Course, Settled, Reading, Messages, Erasing
<1>4. CASE Execute
  <2>1. pc = "execute" /\ pc' = "end" /\ said' = said
    BY <1>4 DEF Execute
  <2>2. Types'
    BY <1>1, <2>1 DEF Types, Erasing
  <2> QED
    BY <1>1, <1>2, <2>1, <2>2 DEF Course, Settled, Reading, Messages, Erasing
<1> QED
  BY <1>3, <1>4

-----------------------------------------------------------------------------
(* The theorems                                                             *)

\* The course of main and what it knows of the flash hold together in every
\* reachable state.
THEOREM Invariance == Spec => []IInv
<1>1. Init => IInv
  BY InitInv
<1>2. IInv /\ [Next]_vars => IInv'
  <2> SUFFICES ASSUME IInv, [Next]_vars PROVE IInv'
    OBVIOUS
  <2>1. CASE Next
    BY <2>1, FrontInv, ErasingInv, EraseEndsInv, WriteInv, ReadChunkInv, EndInv DEF Next, main
  <2>2. CASE UNCHANGED vars
    BY <2>2 DEF vars, toolVars, chipVars, ghosts, IInv, Types, Course, Settled, Reading,
            Messages, Bq, Checked
  <2> QED
    BY <2>1, <2>2
<1> QED
  BY <1>1, <1>2, PTL DEF Spec

\* "Verified OK!" of any of the tools but the EEPROM's means that the flash
\* holds the file, after any faults before the verification; with PEC on the
\* board after faults in it, too.
THEOREM VerifiedIsWritten == Spec => []VerifiedMeansWritten
<1>1. IInv => VerifiedMeansWritten
  BY DEF IInv, Messages, Reading, VerifiedMeansWritten, Bq
<1> QED
  BY <1>1, Invariance, PTL

\* A dump that ends with "Done!" is the flash's contents.
THEOREM DumpsAreFlash == Spec => []DumpIsFlash
<1>1. IInv => DumpIsFlash
  BY DEF IInv, Messages, Reading, DumpIsFlash
<1> QED
  BY <1>1, Invariance, PTL

\* A tool that refuses leaves the flash alone, but for the one order of the
\* BQ8030 tool, which looks at the program file after the erase.
THEOREM RefusalsAreHarmless == Spec => []RefusedLeavesFlash
<1>1. IInv => RefusedLeavesFlash
  BY DEF IInv, Messages, RefusedLeavesFlash
<1> QED
  BY <1>1, Invariance, PTL

-----------------------------------------------------------------------------
(* With nothing going wrong                                                 *)

Expected == IF run.verify \/ Bq THEN "verified" ELSE "done"

Unwritten == \A c \in Cells : flash[c] = Blank

\* How far the flash has come on its way to the file at each step.
Progress ==
  /\ pc \notin {"probe", "end"} => mode = "bootrom"
  /\ pc # "again" /\ (pc # "end" => ~writeErr)
  /\ pc \in {"status", "poll"} => run.target = "r2j240"
  /\ pc \in {"wait", "status", "poll"} => erasing \/ Unwritten
  /\ pc = "file" => Unwritten
  /\ pc = "write" =>
       \A c \in Cells : flash[c] = IF c < off THEN image[c] ELSE Blank
  /\ pc \in {"written", "read", "compare", "execute"} => flash = image
  /\ pc = "read" => \A c \in Cells : c < off => block2[c] = image[c]
  /\ pc = "compare" => block2 = image
  /\ pc = "execute" => said = Expected
  /\ pc = "end" =>
       IF said = "refused" THEN mode = "firmware" \/ ~run.confirm \/ run.file = "bad"
                           ELSE said = Expected /\ flash = image

Healthy ==
  /\ faulty \in BOOLEAN /\ mode \in {"firmware", "bootrom"} /\ writeErr \in BOOLEAN
  /\ ~faulty /\ run.op = "write" => Progress

HInv == IInv /\ Healthy

\* A chip in its boot ROM: what is answered has been done.
LEMMA Replied ==
  ASSUME NEW o \in Outcomes
  PROVE  o.ok \in BOOLEAN /\ o.acted \in BOOLEAN /\ (o.ok => o.acted /\ mode # "firmware")
<1>1. CASE o = Failed
  BY <1>1, Zenon DEF Failed
<1>2. CASE o = Late
  BY <1>2, Zenon DEF Late
<1>3. CASE o = Answered /\ mode # "firmware"
  BY <1>3, Zenon DEF Answered
<1>4. o = Failed \/ o = Late \/ (o = Answered /\ mode # "firmware")
  BY DEF Outcomes, Replies
<1> QED
  BY <1>1, <1>2, <1>3, <1>4

\* The drivers that fit.
LEMMA Fitting ==
  ASSUME DriversFit, Types
  PROVE  /\ Bq /\ run.op = "write" => Written(SomeBytes) = SomeBytes
         /\ run.target = "r2j240" => run.driver = "i2cdev" /\ HasTransfer
         /\ run.target \in {"bq_program", "bq_eeprom", "m37512", "r2j240"}
BY RunFacts DEF DriversFit, Types, Bq, Written, HasTransfer, Targets

LEMMA HealthyFront ==
  ASSUME HInv, Probe \/ CheckWrite \/ ConfirmErase \/ CheckFileLate
  PROVE  Healthy'
<1>1. Types /\ Course /\ Healthy
  BY DEF HInv, IInv
<1>2. /\ UNCHANGED <<run, image, off, block2, writeErr, mode, flash, erasing>>
      /\ faulty' \in BOOLEAN /\ (faulty => faulty')
  <2>1. CASE Probe
    BY <1>1, <2>1 DEF Probe, chipVars, Replies, Answered, Failed, Late, Healthy
  <2>2. CASE CheckWrite \/ ConfirmErase \/ CheckFileLate
    BY <1>1, <2>2 DEF CheckWrite, ConfirmErase, CheckFileLate, chipVars, ghosts, Healthy
  <2> QED
    BY <2>1, <2>2
<1>3. Bq' = Bq
  BY <1>2 DEF Bq
<1>4. ASSUME ~faulty', run.op = "write" PROVE Progress'
  <2>1. Progress
    BY <1>1, <1>2, <1>4 DEF Healthy
  <2>2. CASE Probe
    <3>1. \/ pc' = "end" /\ said' = "refused" /\ mode = "firmware"
          \/ pc' = "check" /\ mode # "firmware"
      BY <1>4, <2>2 DEF Probe, Exit
    <3> QED
      BY <1>1, <1>2, <1>4, <2>1, <2>2, <3>1 DEF Progress, Healthy, Probe
  <2>3. CASE CheckWrite \/ ConfirmErase
    <3>1. /\ pc \in {"check", "confirm"}
          /\ \/ pc' = "end" /\ said' = "refused" /\ (~run.confirm \/ run.file = "bad")
             \/ pc' = "erase"
      BY <2>3 DEF CheckWrite, ConfirmErase, Exit
    <3> QED
      BY <1>2, <2>1, <3>1 DEF Progress
  <2>4. CASE CheckFileLate
    <3>1. /\ pc = "file" /\ off = 0
          /\ \/ pc' = "end" /\ said' = "refused" /\ run.file = "bad"
             \/ pc' = "write"
      BY <1>1, <2>4 DEF CheckFileLate, Exit, Types
    <3>2. \A c \in Cells : ~(c < 0)
      BY DEF Cells
    <3> QED
      BY <1>2, <2>1, <3>1, <3>2 DEF Progress, Unwritten
  <2> QED
    BY <2>2, <2>3, <2>4
<1> QED
  BY <1>1, <1>2, <1>4 DEF Healthy

LEMMA HealthyErasing ==
  ASSUME DriversFit, HInv, EraseCommand \/ WaitErase \/ ReadStatus \/ PollErase
  PROVE  Healthy'
<1>1. Types /\ Course /\ Healthy
  BY DEF HInv, IInv
<1>2. /\ UNCHANGED <<run, image, off, block2, writeErr, mode, flash>>
      /\ faulty' \in BOOLEAN /\ (faulty => faulty')
  <2>1. CASE EraseCommand
    <3>1. \E o \in Outcomes : faulty' = (faulty \/ ~o.ok)
      BY <2>1 DEF EraseCommand
    <3> QED
      BY <1>1, <2>1, <3>1 DEF EraseCommand, Healthy
  <2>2. CASE WaitErase
    BY <1>1, <2>2 DEF WaitErase, chipVars, ghosts, Healthy
  <2>3. CASE ReadStatus
    BY <1>1, <2>3 DEF ReadStatus, chipVars, Healthy
  <2>4. CASE PollErase
    BY <1>1, <2>4 DEF PollErase, chipVars, Healthy
  <2> QED
    BY <2>1, <2>2, <2>3, <2>4
<1>3. Bq' = Bq
  BY <1>2 DEF Bq
<1>4. ASSUME ~faulty', run.op = "write" PROVE Progress'
  <2>1. Progress /\ ~faulty
    BY <1>1, <1>2, <1>4 DEF Healthy
  <2>2. /\ pc \in Erasing /\ mode = "bootrom" /\ pc # "again" /\ ~writeErr
        /\ off = 0
    <3>1. pc \in Erasing
      BY DEF EraseCommand, WaitErase, ReadStatus, PollErase, Erasing
    <3> QED
      BY <1>1, <2>1, <3>1 DEF Progress, Erasing, Types
  <2>3. AfterErase => pc' = "write" \/ pc' = "file"
    BY <1>4 DEF AfterErase
  <2>4. \A c \in Cells : ~(c < 0)
    BY DEF Cells
  <2>5. ASSUME Unwritten, pc' = "write" \/ pc' = "file" PROVE Progress'
    BY <1>2, <1>3, <2>2, <2>4, <2>5 DEF Progress, Unwritten
  <2>6. ASSUME erasing' \/ Unwritten, pc' = "wait" \/ (pc' \in {"status", "poll"}
                 /\ run.target = "r2j240")
        PROVE  Progress'
    BY <1>2, <1>3, <2>2, <2>6 DEF Progress, Unwritten
  <2>7. CASE EraseCommand
    <3>1. PICK o \in Outcomes :
            /\ erasing' = (erasing \/ o.acted)
            /\ faulty' = (faulty \/ ~o.ok)
            /\ CASE Bq -> pc' = "wait" /\ UNCHANGED said
                 [] run.target = "m37512" ->
                      IF pc = "again" THEN Exit("error")
                      ELSE pc' = (IF o.ok THEN "wait" ELSE "again") /\ UNCHANGED said
                 [] run.target = "r2j240" ->
                      IF o.ok THEN pc' = "status" /\ UNCHANGED said ELSE Exit("error")
      BY <2>7 DEF EraseCommand
    <3>2. o.ok
      BY <1>4, <3>1
    <3>3. o.acted
      BY <3>2, Replied
    <3>4. erasing'
      BY <3>1, <3>3
    <3>5. pc' = "wait" \/ (pc' = "status" /\ run.target = "r2j240")
      <4>1. run.target \in {"bq_program", "bq_eeprom", "m37512", "r2j240"}
        BY <1>1, Fitting
      <4> QED
        BY <2>2, <3>1, <3>2, <4>1 DEF Bq
    <3> QED
      BY <2>6, <3>4, <3>5
  <2>8. CASE WaitErase
    <3>1. AfterErase /\ Unwritten
      BY <2>1, <2>8 DEF WaitErase, Progress
    <3> QED
      BY <2>3, <2>5, <3>1
  <2>9. CASE ReadStatus
    <3>1. PICK o \in Outcomes, timedout \in BOOLEAN, zero \in BOOLEAN :
            /\ erasing /\ run.driver = "i2cdev" => timedout
            /\ CASE o.ok /\ ~erasing /\ ~zero -> AfterErase
                 [] o.ok /\ ~erasing /\ zero -> Exit("error")
                 [] (erasing \/ ~o.ok) /\ timedout -> pc' = "poll" /\ UNCHANGED said
                 [] (erasing \/ ~o.ok) /\ ~timedout -> Exit("error")
            /\ faulty' = (faulty \/ zero \/ (~erasing /\ ~o.ok))
      BY <2>9 DEF ReadStatus
    <3>2. ~zero /\ (erasing \/ o.ok)
      BY <1>1, <1>4, <3>1, Replied DEF Types
    <3>3. run.target = "r2j240" /\ run.driver = "i2cdev"
      BY <1>1, <2>1, <2>9, Fitting DEF ReadStatus, Progress
    <3>4. CASE erasing
      <4>1. pc' = "poll" /\ erasing'
        BY <2>9, <3>1, <3>3, <3>4 DEF ReadStatus, chipVars
      <4> QED
        BY <2>6, <3>3, <4>1
    <3>5. CASE ~erasing
      <4>1. AfterErase
        BY <3>1, <3>2, <3>5
      <4>2. Unwritten
        BY <2>1, <2>9, <3>5 DEF Progress, ReadStatus
      <4> QED
        BY <2>3, <2>5, <4>1, <4>2
    <3> QED
      BY <3>4, <3>5
  <2>10. CASE PollErase
    <3>1. PICK o \in Outcomes, dirty \in BOOLEAN :
            /\ LET got   == o.ok /\ ~erasing /\ HasTransfer
                   blank == ~dirty /\ \A c \in Cells : flash[c] = Blank
               IN  CASE got /\ (blank \/ LastPoll) -> AfterErase
                     [] ~got /\ LastPoll -> Exit("error")
                     [] OTHER -> UNCHANGED <<pc, said>>
            /\ faulty' = (faulty \/ dirty \/ (~erasing /\ ~o.ok) \/ (erasing /\ LastPoll))
      BY <2>10 DEF PollErase
    <3>2. ~dirty /\ (erasing \/ o.ok) /\ ~(erasing /\ LastPoll)
      BY <1>1, <1>4, <3>1, Replied DEF Types
    <3>3. run.target = "r2j240" /\ HasTransfer /\ pc = "poll"
      BY <1>1, <2>1, <2>10, Fitting DEF PollErase, Progress
    <3>4. CASE erasing
      <4>1. pc' = "poll" /\ erasing'
        BY <2>10, <3>1, <3>2, <3>3, <3>4 DEF PollErase, chipVars
      <4> QED
        BY <2>6, <3>3, <4>1
    <3>5. CASE ~erasing
      <4>1. Unwritten
        BY <2>1, <3>3, <3>5 DEF Progress
      <4>2. AfterErase
        BY <3>1, <3>2, <3>3, <3>5, <4>1 DEF Unwritten
      <4> QED
        BY <2>3, <2>5, <4>1, <4>2
    <3> QED
      BY <3>4, <3>5
  <2> QED
    BY <2>7, <2>8, <2>9, <2>10
<1> QED
  BY <1>1, <1>2, <1>4 DEF Healthy

LEMMA HealthyEraseEnds ==
  ASSUME HInv, EraseEnds
  PROVE  Healthy'
<1>1. Types /\ Settled /\ Healthy
  BY DEF HInv, IInv
<1>2. /\ UNCHANGED <<run, image, pc, said, off, block2, writeErr, mode>>
      /\ erasing /\ Bq' = Bq
  BY DEF EraseEnds, toolVars, Bq
<1>3. PICK weak \in SUBSET Cells :
        /\ flash' = [c \in Cells |-> IF c \in weak THEN Junk ELSE Blank]
        /\ faulty' = (faulty \/ weak # {})
  BY DEF EraseEnds
<1>4. ASSUME ~faulty', run.op = "write" PROVE Progress'
  <2>1. Progress /\ Unwritten'
    BY <1>1, <1>3, <1>4 DEF Healthy, Unwritten
  <2>2. /\ pc \notin {"file", "write", "written", "read", "compare", "execute"}
        /\ said \notin {"done", "verified"}
    BY <1>1, <1>2 DEF Settled
  <2>3. pc = "end" => said = "refused"
    BY <2>1, <2>2 DEF Progress, Expected
  <2> QED
    BY <1>2, <2>1, <2>2, <2>3 DEF Progress
<1>5. faulty' \in BOOLEAN
  BY <1>1, <1>3 DEF Healthy
<1> QED
  BY <1>1, <1>2, <1>4, <1>5 DEF Healthy

LEMMA HealthyWrite ==
  ASSUME DriversFit, HInv, WriteChunk \/ AfterWrite
  PROVE  Healthy'
<1>1. Types /\ Course /\ Healthy
  BY DEF HInv, IInv
<1>2. /\ UNCHANGED <<run, image, block2, mode>> /\ Bq' = Bq
      /\ faulty' \in BOOLEAN /\ (faulty => faulty') /\ writeErr' \in BOOLEAN
  <2>1. CASE WriteChunk
    BY <1>1, <2>1 DEF WriteChunk, Healthy, Bq
  <2>2. CASE AfterWrite
    BY <1>1, <2>2 DEF AfterWrite, chipVars, ghosts, Healthy, Bq
  <2> QED
    BY <2>1, <2>2
<1>3. ASSUME ~faulty', run.op = "write" PROVE Progress'
  <2>1. Progress /\ ~faulty /\ ~writeErr /\ mode = "bootrom"
    <3>1. Progress /\ ~faulty
      BY <1>1, <1>2, <1>3 DEF Healthy
    <3> QED
      BY <3>1 DEF Progress, WriteChunk, AfterWrite
  <2>2. CASE WriteChunk
    <3>1. PICK o \in Outcomes, v \in Stored(off) :
            /\ flash' = IF Reaches(o) THEN [flash EXCEPT ![off] = v] ELSE flash
            /\ faulty' = (faulty \/ ~o.ok \/ v # Programmed(flash[off], image[off]))
            /\ IF WriteTaken(o)
                 THEN /\ off' = off + 1
                      /\ pc' = IF LastCell THEN "written" ELSE "write"
                      /\ UNCHANGED <<said, writeErr>>
                 ELSE /\ IF Bq THEN Exit("error") /\ UNCHANGED writeErr
                         ELSE pc' = "written" /\ writeErr' = TRUE /\ UNCHANGED said
                      /\ UNCHANGED off
      BY <2>2 DEF WriteChunk
    <3>2. o.ok /\ v = Programmed(flash[off], image[off])
      BY <1>3, <3>1
    <3>3. o.acted
      BY <3>2, Replied
    <3>4. /\ pc = "write" /\ off \in Nat /\ Size \in Nat /\ off < Size
          /\ flash \in [Cells -> AllValues] /\ image \in [Cells -> Values]
      BY <1>1, <2>2, FlasherAssumption DEF WriteChunk, Types
    <3>5. off \in Cells
      BY <3>4 DEF Cells
    <3>6. /\ Reaches(o) /\ WriteTaken(o)
      BY <1>1, <1>3, <3>2, <3>3, Fitting DEF Reaches, WriteTaken, Bq
    <3>7. flash[off] = Blank /\ v = image[off]
      <4>1. flash[off] = Blank
        BY <2>1, <3>4, <3>5 DEF Progress
      <4> QED
        BY <3>2, <4>1 DEF Programmed
    <3>8. \A c \in Cells : flash'[c] = IF c < off + 1 THEN image[c] ELSE Blank
      <4>1. \A c \in Cells : flash[c] = IF c < off THEN image[c] ELSE Blank
        BY <2>1, <3>4 DEF Progress
      <4>2. flash' = [flash EXCEPT ![off] = image[off]]
        BY <3>1, <3>6, <3>7
      <4>3. \A c \in Cells : c \in Nat
        BY DEF Cells
      <4> QED
        BY <3>4, <3>5, <4>1, <4>2, <4>3
    <3>9. CASE LastCell
      <4>1. \A c \in Cells : flash'[c] = image[c]
        BY <3>4, <3>8, <3>9 DEF LastCell, Cells
      <4>2. flash' \in [Cells -> AllValues] /\ image \in [Cells -> AllValues]
        BY <3>1, <3>4, <3>6, <3>7 DEF AllValues
      <4>3. flash' = image
        BY <4>1, <4>2
      <4> QED
        BY <1>2, <2>1, <3>1, <3>6, <3>9, <4>3 DEF Progress
    <3>10. CASE ~LastCell
      <4>1. pc' = "write" /\ off' = off + 1 /\ writeErr' = writeErr
        BY <3>1, <3>6, <3>10
      <4> QED
        BY <1>2, <2>1, <3>8, <4>1 DEF Progress
    <3> QED
      BY <3>9, <3>10
  <2>3. CASE AfterWrite
    <3>1. /\ pc = "written" /\ off' = 0 /\ UNCHANGED <<flash, erasing, writeErr>>
          /\ IF run.verify
               THEN pc' = "read" /\ UNCHANGED said
               ELSE /\ pc' = "execute"
                    /\ said' = CASE Bq -> "verified"
                                 [] run.target = "m37512" /\ writeErr -> "error"
                                 [] OTHER -> "done"
      BY <2>3 DEF AfterWrite, chipVars
    <3>2. \A c \in Cells : ~(c < 0)
      BY DEF Cells
    <3>3. flash = image
      BY <2>1, <3>1 DEF Progress
    <3>4. CASE run.verify
      BY <1>2, <2>1, <3>1, <3>2, <3>3, <3>4 DEF Progress
    <3>5. CASE ~run.verify
      <4>1. pc' = "execute" /\ said' = IF Bq THEN "verified" ELSE "done"
        BY <2>1, <3>1, <3>5
      <4> QED
        BY <1>2, <2>1, <3>1, <3>3, <3>5, <4>1 DEF Progress, Expected
    <3> QED
      BY <3>4, <3>5
  <2> QED
    BY <2>2, <2>3
<1> QED
  BY <1>1, <1>2, <1>3 DEF Healthy

LEMMA HealthyRead ==
  ASSUME DriversFit, HInv, ReadChunk
  PROVE  Healthy'
<1>1. Types /\ Course /\ Healthy
  BY DEF HInv, IInv
<1>2. PICK a \in Outcomes, o \in Outcomes, dirty \in BOOLEAN :
        /\ IF AddressTaken(a) /\ ReadTaken(o) THEN ReadGoes(o, dirty) ELSE ReadStops
        /\ faulty' = (faulty \/ ~a.ok \/ ~o.ok \/ dirty)
  BY DEF ReadChunk
<1>3. /\ UNCHANGED <<run, image, writeErr, mode, flash, erasing>> /\ Bq' = Bq
      /\ faulty' \in BOOLEAN /\ pc = "read"
  BY <1>1, <1>2 DEF ReadChunk, chipVars, Bq, Healthy
<1>4. ASSUME ~faulty', run.op = "write" PROVE Progress'
  <2>1. ~faulty /\ a.ok /\ o.ok /\ ~dirty
    BY <1>2, <1>4
  <2>2. Progress /\ flash = image
    <3>1. Progress
      BY <1>1, <1>4, <2>1 DEF Healthy
    <3> QED
      BY <1>3, <3>1 DEF Progress
  <2>3. AddressTaken(a) /\ ReadTaken(o)
    BY <1>1, <1>4, <2>1, Fitting DEF AddressTaken, ReadTaken, Bq
  <2>4. ReadGoes(o, dirty)
    BY <1>2, <2>3
  <2>5. /\ off' \in 0..Size /\ off \in ReadCells /\ ReadCells \subseteq Cells
        /\ \A c \in Cells : c < off' => c < off \/ c \in ReadCells
    BY <1>1, <1>3, <2>4, NextCells DEF ReadGoes, Types
  <2>6. \A c \in ReadCells : block2'[c] = image[c]
    BY <2>1, <2>2, <2>4, <2>5 DEF ReadGoes, Into, Received
  <2>7. \A c \in Cells : c \notin ReadCells => block2'[c] = block2[c]
    BY <2>4, <2>5 DEF ReadGoes, Into
  <2>8. \A c \in Cells : c < off' => block2'[c] = image[c]
    BY <1>3, <2>2, <2>5, <2>6, <2>7 DEF Progress
  <2>9. ~Differs(block2'[off], image[off])
    BY <2>5, <2>6 DEF Differs
  <2>10. /\ pc' = (CASE ~AllRead -> "read"
                     [] AllRead /\ (Bq \/ run.op = "dump") -> "execute"
                     [] OTHER -> "compare")
         /\ said' = (CASE AllRead /\ run.op = "dump" -> "done"
                       [] AllRead /\ run.op = "write" /\ Bq -> "verified"
                       [] OTHER -> said)
    BY <2>4, <2>9 DEF ReadGoes
  <2>11. AllRead => block2' = image
    <3>1. block2' = [c \in Cells |-> block2'[c]]
      BY <2>4 DEF ReadGoes
    <3>2. AllRead => \A c \in Cells : c < off'
      BY FlasherAssumption DEF AllRead, Cells
    <3>3. image \in [Cells -> Values]
      BY <1>1 DEF Types
    <3> QED
      BY <2>8, <3>1, <3>2, <3>3
  <2>12. \/ pc' = "read"
         \/ pc' = "execute" /\ said' = "verified" /\ Bq
         \/ pc' = "compare" /\ AllRead
    BY <1>4, <2>10
  <2> QED
    BY <1>3, <2>2, <2>8, <2>11, <2>12 DEF Progress, Expected
<1> QED
  BY <1>1, <1>3, <1>4 DEF Healthy

LEMMA HealthyEnd ==
  ASSUME HInv, CompareAll \/ Execute
  PROVE  Healthy'
<1>1. Types /\ Course /\ Healthy
  BY DEF HInv, IInv
<1>2. /\ UNCHANGED <<run, image, off, block2, writeErr, flash, erasing>> /\ Bq' = Bq
  BY DEF CompareAll, Execute, chipVars, Bq
<1>3. CASE CompareAll
  <2>1. /\ pc = "compare" /\ pc' = "execute" /\ UNCHANGED <<mode, faulty>>
        /\ said' = IF \E c \in Cells : Differs(block2[c], image[c])
                     THEN "mismatch" ELSE "verified"
    BY <1>3 DEF CompareAll, chipVars, ghosts
  <2>2. run.op = "write" => run.verify
    BY <1>1, <2>1 DEF Course
  <2>3. ASSUME ~faulty, run.op = "write" PROVE Progress'
    <3>1. Progress /\ block2 = image
      BY <1>1, <2>1, <2>3 DEF Healthy, Progress
    <3>2. said' = "verified"
      BY <2>1, <3>1 DEF Differs
    <3> QED
      BY <1>2, <2>1, <2>2, <2>3, <3>1, <3>2 DEF Progress, Expected
  <2> QED
    BY <1>1, <1>2, <2>1, <2>3 DEF Healthy
<1>4. CASE Execute
  <2>1. /\ pc = "execute" /\ pc' = "end" /\ said' = said
        /\ \/ UNCHANGED <<mode, faulty>>
           \/ \E o \in Outcomes : /\ mode' = IF o.acted THEN "firmware" ELSE mode
                                  /\ faulty' = (faulty \/ ~o.ok)
    BY <1>4 DEF Execute
  <2>2. faulty' \in BOOLEAN /\ mode' \in {"firmware", "bootrom"} /\ (faulty => faulty')
    BY <1>1, <2>1 DEF Healthy
  <2>3. ASSUME ~faulty', run.op = "write" PROVE Progress'
    <3>1. Progress
      BY <1>1, <2>2, <2>3 DEF Healthy
    <3>2. said = Expected /\ flash = image /\ said # "refused"
      BY <2>1, <3>1 DEF Progress, Expected
    <3> QED
      BY <1>2, <2>1, <3>1, <3>2 DEF Progress, Expected
  <2> QED
    BY <1>1, <1>2, <2>2, <2>3 DEF Healthy
<1> QED
  BY <1>3, <1>4

\* With nothing going wrong, a write is refused only for a reason, and otherwise
\* the tool says so and the flash holds the file; for a flash of any size and any
\* file, with the drivers the tools can work with.
THEOREM HealthyWritesSucceed ==
  ASSUME DriversFit
  PROVE  Spec => []HealthySucceeds
<1>1. Init => HInv
  <2>1. ASSUME Init PROVE Healthy
    <3>1. /\ pc = "probe" /\ ~writeErr /\ writeErr \in BOOLEAN /\ faulty \in BOOLEAN
          /\ mode \in {"firmware", "bootrom"}
      BY <2>1 DEF Init
    <3> QED
      BY <3>1 DEF Healthy, Progress
  <2> QED
    BY <2>1, InitInv DEF HInv
<1>2. HInv /\ [Next]_vars => HInv'
  <2> SUFFICES ASSUME HInv, [Next]_vars PROVE HInv'
    OBVIOUS
  <2>1. IInv /\ IInv'
    <3>1. IInv
      BY DEF HInv
    <3>2. CASE Next
      BY <3>1, <3>2, FrontInv, ErasingInv, EraseEndsInv, WriteInv, ReadChunkInv, EndInv
         DEF Next, main
    <3>3. CASE UNCHANGED vars
      BY <3>1, <3>3 DEF vars, toolVars, chipVars, ghosts, IInv, Types, Course, Settled, Reading,
              Messages, Bq, Checked
    <3> QED
      BY <3>1, <3>2, <3>3
  <2>2. CASE Next
    <3>1. Healthy'
      BY <2>2, HealthyFront, HealthyErasing, HealthyEraseEnds, HealthyWrite, HealthyRead,
         HealthyEnd DEF Next, main
    <3> QED
      BY <2>1, <3>1 DEF HInv
  <2>3. CASE UNCHANGED vars
    <3>1. /\ UNCHANGED <<run, image, pc, off, block2, writeErr, said, mode, flash, erasing, faulty>>
          /\ Healthy
      BY <2>3 DEF vars, toolVars, chipVars, ghosts, HInv
    <3>2. Bq' = Bq /\ Progress' = Progress
      BY <3>1 DEF Bq, Progress, Unwritten, Expected
    <3>3. Healthy'
      BY <3>1, <3>2 DEF Healthy
    <3> QED
      BY <2>1, <3>3 DEF HInv
  <2> QED
    BY <2>2, <2>3
<1>3. HInv => HealthySucceeds
  BY DEF HInv, Healthy, Progress, Expected, HealthySucceeds
<1> QED
  BY <1>1, <1>2, <1>3, PTL DEF Spec
=============================================================================
